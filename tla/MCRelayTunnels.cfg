SPECIFICATION Spec
SYMMETRY MCSymmetry
CONSTANTS
  alice = alice
  bob = bob
  a1 = a1
  a2 = a2
  b1 = b1
  KeepMessages = FALSE
  NoDev = NoDev
  NoEnd = NoEnd
  Devices <- MCDevices
  MaxGen = 3
  MaxId = 2
  MaxTunnels = 2
  MaxPendingOpens = 1
  MaxDevicesPerPeer = 1
  ControlCap = 1
  MaxOpens = 2
INVARIANTS TypeOK Paired IdsUnique EndsLive
PROPERTIES NoRewiring
CHECK_DEADLOCK FALSE
