--------------------------- MODULE MCRelayTunnels ---------------------------
(* A small instance of RelayTunnels: one peer with two devices, one with   *)
(* a single device, so that displacement, replacement and both target      *)
(* choices of `open` happen.                                               *)
EXTENDS RelayTunnels, TLC

CONSTANTS alice, bob, a1, a2, b1

MCDevices == {<<alice, a1>>, <<alice, a2>>, <<bob, b1>>}
MCSymmetry == Permutations({a1, a2})
=============================================================================
