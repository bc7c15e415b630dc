SPECIFICATION Spec
CONSTANTS
  NoRow = NoRow
  Chat = Chat
  Devices = {desk, web}
  Entries = {e1}
  Msgs = {m1}
  Large = {}
  PageLimit = 3
  PushBatch = 2
  MaxNow = 2
  MaxFaults = 1
  Editors = {desk}
  Faulty = {desk}
  Cycles = {1}
INVARIANT PullsAll
 
CHECK_DEADLOCK FALSE
