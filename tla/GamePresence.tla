---------------------------- MODULE GamePresence ----------------------------
(***************************************************************************)
(* The open lobbies a contact is shown: the presence the game plugins      *)
(* broadcast, the invitations, and what peerMessageHandler, usePeerEvents, *)
(* useGamePresence and shared/game-presence.js make of them.               *)
(*                                                                         *)
(* One host, with several games, and one contact.  table[g] is the host's  *)
(* table of game g (n: its number, 0 for none; open: the phase lets others *)
(* join and a seat is free); said[g] is lastPresenceSession.  wire is what *)
(* the session carries, mail the invitations in the mailbox.  seen is the  *)
(* contact's entry for the host, with its age in ticks of useGamePresence; *)
(* keys are gameInviteKeys.  calm counts the ticks since anything but a    *)
(* heartbeat happened.                                                     *)
(***************************************************************************)
EXTENDS Naturals, Sequences, FiniteSets

CONSTANTS Games, None
CONSTANTS StaleAfter                    \* isPresenceStale: 90 s, in ticks of 30 s
CONSTANTS MaxTables, MaxWire, MaxCuts   \* bounds
VARIABLE lobby

NoTable == [n |-> 0, open |-> FALSE, public |-> FALSE]
Room(s) == Len(s.wire) < MaxWire
Busy(s) == [s EXCEPT !.calm = 0]
(* peer.broadcast: to a contact that is connected.                         *)
broadcast(s, m) == IF s.link THEN [s EXCEPT !.wire = Append(@, m)] ELSE s

(* syncGamePresence and clearGamePresence of a plugin's ui.js.             *)
clearGamePresence(s, g) ==
    IF s.said[g] = 0 THEN s
    ELSE [broadcast(s, [kind |-> "clear", game |-> g, n |-> s.said[g]]) EXCEPT !.said[g] = 0]
buildGamePresencePayload(s, g) ==
    [kind |-> "presence", game |-> g, n |-> s.table[g].n, joinable |-> s.table[g].open, public |-> s.table[g].public]
syncGamePresence(s, g) ==
    IF s.table[g].n = 0 THEN clearGamePresence(s, g)
    ELSE [broadcast(s, buildGamePresencePayload(s, g)) EXCEPT !.said[g] = s.table[g].n]

-----------------------------------------------------------------------------
(* The host opens a table; its lobby fills, or the game begins, or seats   *)
(* become free again; the table is given up, or the plugin deactivated.    *)
Open(g, public) ==
    /\ lobby.n < MaxTables /\ lobby.table[g].n = 0 /\ Room(lobby)
    /\ LET k == lobby.n + 1
       IN  lobby' = syncGamePresence(Busy([lobby EXCEPT !.n = k, !.table[g] = [n |-> k, open |-> TRUE, public |-> public]]), g)
Phase(g) ==
    /\ lobby.table[g].n # 0 /\ Room(lobby)
    /\ lobby' = syncGamePresence(Busy([lobby EXCEPT !.table[g].open = ~@]), g)
Leave(g) ==
    /\ lobby.table[g].n # 0 /\ Room(lobby)
    /\ lobby' = clearGamePresence(Busy([lobby EXCEPT !.table[g] = NoTable]), g)
(* The host's device stops at once; another device of the host may keep    *)
(* the contact connected, so that nothing is said.                         *)
Crash ==
    /\ lobby.cuts < MaxCuts /\ \E g \in Games : lobby.table[g].n # 0
    /\ lobby' = Busy([lobby EXCEPT !.table = [g \in Games |-> NoTable], !.said = [g \in Games |-> 0], !.cuts = @ + 1])
(* An invitation, which goes to the mailbox when there is no session.      *)
Invite(g) ==
    /\ lobby.table[g].n # 0 /\ Room(lobby) /\ Cardinality(lobby.mail) < MaxWire
    /\ LET m == [kind |-> "invite", game |-> g, n |-> lobby.table[g].n, public |-> lobby.table[g].public]
           s == Busy(lobby)
       IN  lobby' = IF s.link THEN broadcast(s, m) ELSE [s EXCEPT !.mail = @ \cup {m}]

-----------------------------------------------------------------------------
(* peerMessageHandler of the contact.                                      *)
Presence(s, m) ==
    [s EXCEPT !.seen = [game |-> m.game, n |-> m.n, joinable |-> m.joinable, public |-> m.public, age |-> 0]]
Clear(s, m) == IF s.seen # None /\ s.seen.n = m.n THEN [s EXCEPT !.seen = None] ELSE s
(* Mutant: the entry of an invitation does not say when it was made, and   *)
(* isPresenceStale never finds it stale.                                   *)
presenceFromInviteUndated(m) == [game |-> m.game, n |-> m.n, joinable |-> TRUE, public |-> m.public, age |-> None]
presenceFromInvite(m) == [game |-> m.game, n |-> m.n, joinable |-> TRUE, public |-> m.public, age |-> 0]
Invited(s, m) ==
    LET t == [s EXCEPT !.keys = @ \cup {m.n}]
    IN  IF s.seen # None /\ s.seen.n = m.n THEN t ELSE [t EXCEPT !.seen = presenceFromInvite(m)]
Handle(s, m) ==
    CASE m.kind = "presence" -> Presence(s, m)
      [] m.kind = "clear" -> Clear(s, m)
      [] m.kind = "invite" -> Invited(Busy(s), m)
Receive ==
    /\ lobby.wire # <<>>
    /\ lobby' = Handle([lobby EXCEPT !.wire = Tail(@)], Head(lobby.wire))
ReceiveMail(m) ==
    /\ m \in lobby.mail
    /\ lobby' = Handle([lobby EXCEPT !.mail = @ \ {m}], m)
(* peer:disconnected: the entry goes; what was on its way is lost.         *)
Disconnected ==
    /\ lobby.link /\ lobby.cuts < MaxCuts
    /\ lobby' = Busy([lobby EXCEPT !.link = FALSE, !.wire = <<>>, !.seen = None, !.cuts = @ + 1])
Connected ==
    /\ ~lobby.link
    /\ lobby' = Busy([lobby EXCEPT !.link = TRUE])

-----------------------------------------------------------------------------
(* The heartbeat of each plugin with a session (every 20 s), and the       *)
(* contact's timer (every 30 s), which drops a stale entry.  A heartbeat   *)
(* arrives before the next tick.                                           *)
Heartbeat(g) ==
    /\ g \notin lobby.beat /\ Room(lobby)
    /\ lobby' = [(IF lobby.said[g] # 0 THEN syncGamePresence(lobby, g) ELSE lobby) EXCEPT !.beat = @ \cup {g}]
isPresenceStale(e) == e.age # None /\ e.age > StaleAfter
Tick ==
    /\ lobby.beat = Games /\ lobby.wire = <<>>
    /\ LET e == lobby.seen
           older == IF e = None \/ e.age = None THEN e ELSE [e EXCEPT !.age = @ + 1]
       IN  lobby' = [lobby EXCEPT !.beat = {}, !.calm = IF @ > StaleAfter THEN @ ELSE @ + 1,
                                  !.seen = IF e # None /\ isPresenceStale(older) THEN None ELSE older]

(* canJoinGameViaPresence, for the list of open invitations.               *)
canJoinGameViaPresence(s) ==
    s.seen # None /\ s.seen.joinable /\ (s.seen.public \/ s.seen.n \in s.keys)
(* The open lobbies the games page lists.                                  *)
useOpenGameInvites(s) ==
    IF s.seen # None /\ ~isPresenceStale(s.seen) /\ canJoinGameViaPresence(s) THEN {s.seen.n} ELSE {}

Init == lobby = [table |-> [g \in Games |-> NoTable], said |-> [g \in Games |-> 0], n |-> 0, link |-> TRUE,
                 wire |-> <<>>, mail |-> {}, seen |-> None, keys |-> {}, beat |-> {}, calm |-> 0, cuts |-> 0]
Next == \/ \E g \in Games : \/ \E b \in BOOLEAN : Open(g, b)
                            \/ Phase(g) \/ Leave(g) \/ Invite(g) \/ Heartbeat(g)
        \/ Crash \/ Receive \/ Disconnected \/ Connected \/ Tick
        \/ \E m \in lobby.mail : ReceiveMail(m)

(***************************************************************************)
(* Properties.                                                             *)
(***************************************************************************)
(* Whatever was lost, came late or was never said: some ticks after things *)
(* have calmed down the contact is shown a lobby exactly if the host has a *)
(* table, it is one of the host's, and it can be joined exactly if it is   *)
(* open and public or the contact was invited to it.                       *)
LobbiesTrue ==
    lobby.calm > StaleAfter /\ lobby.link =>
        LET now == {lobby.table[g] : g \in {h \in Games : lobby.table[h].n # 0}}
        IN  /\ (lobby.seen = None) <=> (now = {})
            /\ lobby.seen # None =>
                   \E t \in now : /\ lobby.seen.n = t.n
                                  /\ (useOpenGameInvites(lobby) = {t.n}) <=> (t.open /\ (t.public \/ t.n \in lobby.keys))
=============================================================================
