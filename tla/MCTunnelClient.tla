--------------------------- MODULE MCTunnelClient ---------------------------
(* Two clients, one device each, that open tunnels to each other.          *)
EXTENDS TunnelClient, TLC

CONSTANTS alice, bob, phone

MCDevices == {<<alice, phone>>, <<bob, phone>>}
MCSymmetry == Permutations({alice, bob})
=============================================================================
