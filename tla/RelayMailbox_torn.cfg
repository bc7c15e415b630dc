SPECIFICATION Spec
CONSTANTS
  Mails = {m1}
  Devices = {phone}
  Sender <- OneSender
  MailPerRecipient = 1
  MailPerPair = 1
  ControlCap = 1
  MaxPosts = 2
  MaxRuns = 1
  MaxFaults = 1
INVARIANTS EveryPostKept
CHECK_DEADLOCK FALSE
