SPECIFICATION Spec
CONSTANTS
  Mails = {m1, m2}
  Devices = {phone}
  Sender <- OneSender
  MailPerRecipient = 1
  MailPerPair = 2
  ControlCap = 1
  MaxPosts = 2
  MaxRuns = 2
  MaxFaults = 1
INVARIANTS PostedKept DeliveredHonest
PROPERTIES AckedStaysGone MailArrives
CHECK_DEADLOCK FALSE
