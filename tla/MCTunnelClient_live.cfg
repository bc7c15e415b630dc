SPECIFICATION SystemSpec
CONSTANTS
  alice = alice
  bob = bob
  phone = phone
  NoDev = NoDev
  NoEnd = NoEnd
  NoTunnel = NoTunnel
  Devices <- MCDevices
  MaxGen = 3
  MaxId = 1
  MaxTunnels = 2
  MaxPendingOpens = 1
  MaxDevicesPerPeer = 1
  ControlCap = 1
  MaxOpens = 1
  KeepMessages = TRUE
  MaxClientOpens = 1
PROPERTIES PendingResolved GhostsVanish
CHECK_DEADLOCK FALSE
