SPECIFICATION SystemSpec
SYMMETRY MCSymmetry
CONSTANTS
  alice = alice
  bob = bob
  phone = phone
  NoDev = NoDev
  NoEnd = NoEnd
  NoTunnel = NoTunnel
  Devices <- MCDevices
  MaxGen = 2
  MaxId = 3
  MaxTunnels = 2
  MaxPendingOpens = 1
  MaxDevicesPerPeer = 1
  ControlCap = 2
  MaxOpens = 2
  KeepMessages = TRUE
  MaxClientOpens = 2
INVARIANT AnswersMatch
CHECK_DEADLOCK FALSE
