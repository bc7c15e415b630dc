---------------------------- MODULE WebSessions ----------------------------
(***************************************************************************)
(* The peer sessions of two web clients: the tunnels of relayClient.js,    *)
(* attachTunnel and forgetSession of webBridge/index.js, PeerSession and   *)
(* the handshake of peerProtocol.  Each client has one device.             *)
(*                                                                         *)
(* A leg is a tunnel asked for by one of them (by).  at[p][l] is what p    *)
(* has of it: "no", "hello" or "finish" (in the handshake), "up", or       *)
(* "closed".  tun[p] is the map of tunnels, pend[p] pendingOpen together   *)
(* with openingKeys, sess[p] the entry of the session table for the other  *)
(* client (None: not connected).  A message of the relay (ctl) may         *)
(* overtake data of a leg, and data those of another leg.                  *)
(*                                                                         *)
(* astray: the end of one leg removed the entry of another from the table. *)
(* ended: a session was ended by its user or with the relay's connection.  *)
(***************************************************************************)
EXTENDS Integers, Sequences, FiniteSets

CONSTANTS Low, High, None               \* the clients; Low's peer id is the smaller one
CONSTANTS MaxLegs, MaxEnds              \* bounds: tunnels asked for, sessions ended
VARIABLE web

Clients == {Low, High}
Other(p) == IF p = Low THEN High ELSE Low
Legs == 1..MaxLegs
Tell(s, p, t, l) == [s EXCEPT !.ctl[p] = Append(@, [t |-> t, leg |-> l])]
Frame(s, p, l, f) == IF l \in s.gone THEN s ELSE [s EXCEPT !.data[Other(p)][l] = Append(@, f)]

(* PeerSession.close, then onClose: forgetSession removes the entry of the *)
(* peer and the device, whichever leg that is.                             *)
forgetSession(s, p, l) == [s EXCEPT !.sess[p] = None, !.astray = @ \/ s.sess[p] \notin {None, l}]
(* Mutant: the other end is not told.                                      *)
closeUntold(s, p, l, notify) ==
    IF s.at[p][l] # "up" THEN s ELSE forgetSession([s EXCEPT !.at[p][l] = "closed"], p, l)
close(s, p, l, notify) ==
    IF s.at[p][l] # "up" THEN s
    ELSE forgetSession(IF notify THEN Frame([s EXCEPT !.at[p][l] = "closed"], p, l, "close") ELSE [s EXCEPT !.at[p][l] = "closed"], p, l)

hasBoundSession(s, p) == s.sess[p] # None \/ s.tun[p] # {}
sessionOccupied(s, p) == s.pend[p] # {} \/ hasBoundSession(s, p)

(* maybeOpen on presence (the smaller one), openPeer by either's user.     *)
startOpen(p) ==
    /\ web.n < MaxLegs /\ ~sessionOccupied(web, p)
    /\ LET l == web.n + 1
       IN  web' = Tell([web EXCEPT !.n = l, !.by[l] = p, !.pend[p] = @ \cup {l}], Other(p), "incoming", l)

bindTunnel(s, p, l, phase) == [s EXCEPT !.tun[p] = @ \cup {l}, !.at[p][l] = phase]
handleIncoming(s, p, l) ==
    IF hasBoundSession(s, p) THEN Tell(s, Other(p), "open_failed", l)
    ELSE Tell(bindTunnel(s, p, l, "hello"), Other(p), "opened", l)
handleOpened(s, p, l) ==
    IF l \notin s.pend[p] THEN s
    ELSE Frame(bindTunnel([s EXCEPT !.pend[p] = @ \ {l}], p, l, "hello"), p, l, "hello")
(* The reader of a closed transport ends with an error, which closes the   *)
(* session; in the handshake there is none yet.                            *)
closeLocalTunnel(s, p, l) ==
    LET t == close([s EXCEPT !.tun[p] = @ \ {l}], p, l, FALSE)
    IN  [t EXCEPT !.at[p][l] = IF @ = "no" THEN @ ELSE "closed"]
Control(p) ==
    /\ web.ctl[p] # <<>>
    /\ LET m == Head(web.ctl[p])
           s == [web EXCEPT !.ctl[p] = Tail(@)]
       IN  web' = CASE m.t = "incoming" -> handleIncoming(s, p, m.leg)
                    [] m.t = "opened" -> handleOpened(s, p, m.leg)
                    [] m.t = "open_failed" -> [s EXCEPT !.pend[p] = @ \ {m.leg}]
                    [] m.t = "closed" -> IF m.leg \in s.tun[p] THEN closeLocalTunnel(s, p, m.leg) ELSE s

(* attachTunnel, once the handshake is through.  Of two legs to the same   *)
(* device the one opened by the smaller peer id is to stay.                *)
preferred(s, p, l) == IF p = Low THEN s.by[l] = p ELSE s.by[l] # p
attachTunnel(s, p, l) ==
    LET t == [s EXCEPT !.at[p][l] = "up"]
    IN  IF t.sess[p] # None /\ ~preferred(t, p, l) THEN close(t, p, l, TRUE)
        ELSE [(IF t.sess[p] # None THEN close(t, p, t.sess[p], TRUE) ELSE t) EXCEPT !.sess[p] = l]

(* The frames of a leg: client hello, server hello, finished from either   *)
(* side; then the close of the session.                                    *)
Data(p, l) ==
    /\ web.data[p][l] # <<>>
    /\ LET f == Head(web.data[p][l])
           s == [web EXCEPT !.data[p][l] = Tail(@)]
           phase == s.at[p][l]
           asker == s.by[l] = p
           \* initiatorHandshake and responderHandshake
           t == CASE l \notin s.tun[p] \/ phase = "closed" -> s
                  [] f = "hello" /\ ~asker -> [Frame(s, p, l, "hello") EXCEPT !.at[p][l] = "finish"]
                  [] f = "hello" /\ asker -> [Frame(s, p, l, "finished") EXCEPT !.at[p][l] = "finish"]
                  [] f = "finished" /\ ~asker -> attachTunnel(Frame(s, p, l, "finished"), p, l)
                  [] f = "finished" /\ asker -> attachTunnel(s, p, l)
                  [] f = "close" -> close(s, p, l, FALSE)
       IN  web' = t

(* peer.disconnect, the idle timeout: the session ends, the tunnel stays.  *)
End(s) == [s EXCEPT !.ended = TRUE, !.ends = @ + 1]
disconnect(p) ==
    /\ web.sess[p] # None /\ web.ends < MaxEnds
    /\ web' = End(close(web, p, web.sess[p], TRUE))
(* The connection to the relay is lost and made again: tearDownTunnels,    *)
(* and the relay tells the other client of the tunnels it had.             *)
Reconnect(p) ==
    /\ web.ends < MaxEnds
    /\ LET q == Other(p)
           mine == {l \in Legs : l <= web.n}
           s == [web EXCEPT !.tun[p] = {}, !.pend[p] = {}, !.ctl[p] = <<>>, !.gone = @ \cup mine,
                            !.data = [c \in Clients |-> [l \in Legs |-> IF c = p THEN <<>> ELSE @[c][l]]],
                            !.sess[p] = None,
                            !.at[p] = [l \in Legs |-> IF @[l] = "no" THEN "no" ELSE "closed"],
                            !.ctl[q] = SelectSeq(@, LAMBDA m : m.t # "incoming")]
       IN  web' = End([s EXCEPT !.ctl[q] = @ \o [i \in 1..web.n |-> [t |-> "closed", leg |-> i]],
                                !.pend[q] = {}])

Init == web = [n |-> 0, by |-> [l \in Legs |-> None], at |-> [p \in Clients |-> [l \in Legs |-> "no"]],
               tun |-> [p \in Clients |-> {}], pend |-> [p \in Clients |-> {}], sess |-> [p \in Clients |-> None],
               ctl |-> [p \in Clients |-> <<>>], data |-> [p \in Clients |-> [l \in Legs |-> <<>>]],
               gone |-> {}, astray |-> FALSE, ended |-> FALSE, ends |-> 0]
Next == \E p \in Clients : \/ startOpen(p) \/ Control(p) \/ disconnect(p) \/ Reconnect(p)
                           \/ \E l \in Legs : Data(p, l)

(***************************************************************************)
(* Properties.                                                             *)
(***************************************************************************)
Quiet == \A p \in Clients : web.ctl[p] = <<>> /\ \A l \in Legs : web.data[p][l] = <<>>
(* When nothing is under way the two clients use the same leg, or neither  *)
(* has a session; and they have one, if a leg was opened and no session    *)
(* ended.  This is so when both opened one at the same time, whichever     *)
(* handshake was through first at which end.  Except that the end of the   *)
(* leg that is not to stay may take the other's entry along.               *)
LegsAgree ==
    Quiet /\ ~web.astray => /\ web.sess[Low] = web.sess[High]
                            /\ web.n > 0 /\ ~web.ended => web.sess[Low] # None
=============================================================================
