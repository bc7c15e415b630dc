---------------------------- MODULE E2eeSession ----------------------------
(***************************************************************************)
(* The key exchange of two contacts: useE2ee, the e2ee-key-handshake part  *)
(* of peerMessageHandler, and the connection events of usePeerEvents.      *)
(*                                                                         *)
(* An identity key is a number; id[p] is 0 until the page has loaded it.   *)
(* made[p] is the one in the store.  sess[p] is the row e2eeSessionsRef    *)
(* keeps for the other one: own and peer stand for the AES key derived.    *)
(* Sessions survive a restart of the app (persistE2eeSessionsMap), ready   *)
(* and sent do not.  work[p] holds the handshakes between the check        *)
(* against the known key and the end of the derivation.                    *)
(***************************************************************************)
EXTENDS Integers, Sequences, FiniteSets

CONSTANTS Peers, None
CONSTANTS MaxIds, MaxEvents         \* bounds: identities of one contact, events
VARIABLE e2e

Other(p) == CHOOSE q \in Peers : q # p
All(x) == [p \in Peers |-> x]

(* A handshake is on its way, or not sent when there is no connection.     *)
sendE2eeHandshake(s, p, force, reply) ==
    IF s.id[p] = 0 \/ (~force /\ p \in s.sent) THEN s
    ELSE IF ~s.conn THEN [s EXCEPT !.sent = @ \ {p}]
    ELSE [s EXCEPT !.sent = @ \cup {p},
                   !.wire[Other(p)] = Append(@, [key |-> s.id[p], reply |-> reply])]
resetE2eeSession(s, p) ==
    [s EXCEPT !.sess[p] = None, !.ready = @ \ {p}, !.sent = @ \ {p}]

(* Handshake, first part: a key other than the known one stops the         *)
(* session until the user renews it.                                       *)
Handshake(p) ==
    /\ e2e.wire[p] # <<>>
    /\ LET m == Head(e2e.wire[p])
           s == [e2e EXCEPT !.wire[p] = Tail(@)]
       IN  e2e' = IF p \in s.blocked \/ s.id[p] = 0 THEN s
                  ELSE IF s.sess[p] # None /\ s.sess[p].peer # m.key
                  THEN [s EXCEPT !.ready = @ \ {p}, !.sess[p].changed = TRUE,
                                 !.crossed = @ \/ s.work[p] # {}]
                  ELSE [s EXCEPT !.work[p] = @ \cup {m},
                                 !.crossed = @ \/ \E w \in s.work[p] : w.key # m.key]

(* Second part: the session is stored, the other one answered if it asked  *)
(* for that or has not heard from this side.                               *)
(* Mutant: who has sent its key once does not answer again.                *)
DerivedUnanswered(p, m) ==
    /\ m \in e2e.work[p]
    /\ LET s == [e2e EXCEPT !.work[p] = @ \ {m}]
           t == [s EXCEPT !.sess[p] = [own |-> s.id[p], peer |-> m.key, changed |-> FALSE], !.ready = @ \cup {p}]
       IN  e2e' = IF s.id[p] = 0 THEN s ELSE sendE2eeHandshake(t, p, FALSE, FALSE)
Derived(p, m) ==
    /\ m \in e2e.work[p]
    /\ LET s == [e2e EXCEPT !.work[p] = @ \ {m}]
           t == [s EXCEPT !.sess[p] = [own |-> s.id[p], peer |-> m.key, changed |-> FALSE], !.ready = @ \cup {p}]
       IN  e2e' = IF s.id[p] = 0 THEN s
                  ELSE IF m.reply \/ p \notin t.sent THEN sendE2eeHandshake(t, p, m.reply, FALSE) ELSE t

(* peer:connected at both ends: each sends its key unless it blocks.       *)
Greet(s, p) == IF p \in s.blocked THEN s ELSE sendE2eeHandshake(s, p, FALSE, TRUE)
Event == e2e.events < MaxEvents
Count(s) == [s EXCEPT !.events = @ + 1]
Connected ==
    /\ Event /\ ~e2e.conn
    /\ \E p \in Peers : e2e' = Count(Greet(Greet([e2e EXCEPT !.conn = TRUE, !.ready = {}, !.sent = {}], p), Other(p)))
Disconnected ==
    /\ Event /\ e2e.conn
    /\ e2e' = Count([e2e EXCEPT !.conn = FALSE, !.ready = {}, !.sent = {}, !.wire = All(<<>>)])
(* The page starts again: ready, sent and what was under way are gone, and *)
(* until the bootstrap there is no identity.  A reload keeps the           *)
(* connection, a restart does not; signing in to an account (adoptVault)   *)
(* is a restart that may bring another identity for the same peer id.      *)
Restarted(p) ==
    /\ Event
    /\ LET s == [e2e EXCEPT !.ready = @ \ {p}, !.sent = @ \ {p}, !.work[p] = {}, !.id[p] = 0]
           Cut(t) == [t EXCEPT !.conn = FALSE, !.ready = {}, !.sent = {}, !.wire = All(<<>>)]
       IN  \/ e2e' = Count(s)
           \/ e2e' = Count(Cut(s))
           \/ s.made[p] < MaxIds /\ e2e' = Count([Cut(s) EXCEPT !.made[p] = @ + 1])
(* The stored sessions are derived again with the identity at hand.        *)
Bootstrap(p) ==
    /\ e2e.id[p] = 0
    /\ LET s == [e2e EXCEPT !.id[p] = e2e.made[p], !.sess[p] = IF @ = None THEN @ ELSE [@ EXCEPT !.own = e2e.made[p]]]
       IN  e2e' = IF s.conn THEN Greet(s, p) ELSE s

Reset(p) == Event /\ e2e' = Count(sendE2eeHandshake(resetE2eeSession(e2e, p), p, TRUE, TRUE))
setContactBlocked(p) ==
    /\ Event
    /\ e2e' = Count(IF p \in e2e.blocked
                    THEN sendE2eeHandshake([e2e EXCEPT !.blocked = @ \ {p}, !.sent = @ \ {p}], p, TRUE, TRUE)
                    ELSE resetE2eeSession([e2e EXCEPT !.blocked = @ \cup {p}], p))

(* sendMessage, sendPairwiseEncrypted and an inbound message without a     *)
(* session to read it ask for a handshake.                                 *)
AskSession(p) ==
    /\ Event /\ p \notin e2e.blocked \cup e2e.ready
    /\ e2e' = Count(sendE2eeHandshake(e2e, p, TRUE, TRUE))

Init == e2e = [id |-> All(1), made |-> All(1), sess |-> All(None), ready |-> {}, sent |-> {}, conn |-> FALSE,
               wire |-> All(<<>>), work |-> All({}), blocked |-> {}, crossed |-> FALSE, events |-> 0]
Next == \/ Connected \/ Disconnected
        \/ \E p \in Peers : \/ Handshake(p) \/ \E m \in e2e.work[p] : Derived(p, m)
                            \/ Restarted(p) \/ Reset(p) \/ setContactBlocked(p) \/ AskSession(p)
                            \/ Bootstrap(p)

(***************************************************************************)
(* Properties.                                                             *)
(***************************************************************************)
Quiet == \A p \in Peers : e2e.wire[p] = <<>> /\ e2e.work[p] = {} /\ e2e.id[p] # 0 /\ p \notin e2e.blocked

(* When two contacts are connected, neither blocks the other and no        *)
(* handshake is under way, both hold the same pair of keys and are ready   *)
(* to use it, or one of them was told that the other's key has changed:    *)
(* nobody waits in silence for a handshake that will not come, and nobody  *)
(* writes under a key the other does not have.  This is so whatever was    *)
(* reset, blocked or restarted before, unless the handshakes of two        *)
(* identities met in one derivation.                                       *)
E2eeAgrees ==
    e2e.conn /\ Quiet /\ ~e2e.crossed =>
        \/ \E p \in Peers : e2e.sess[p] # None /\ e2e.sess[p].changed
        \/ \A p \in Peers : p \in e2e.ready /\ e2e.sess[p].own = e2e.id[p] /\ e2e.sess[p].peer = e2e.id[Other(p)]
=============================================================================
