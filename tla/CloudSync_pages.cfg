SPECIFICATION Spec
CONSTANTS
  NoRow = NoRow
  Chat = Chat
  Devices = {desk, web}
  Entries = {e1}
  Msgs = {m1}
  Large = {}
  PageLimit = 1
  PushBatch = 2
  MaxNow = 2
  MaxFaults = 0
  Editors = {desk, web}
  Faulty = {desk, web}
  Cycles = {1}
INVARIANT PullsAll
CHECK_DEADLOCK FALSE
