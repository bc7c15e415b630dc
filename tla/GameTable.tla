----------------------------- MODULE GameTable -----------------------------
(***************************************************************************)
(* What the bundled game plugins share: a table is run by the plugin of    *)
(* its host, guests keep a copy of the last public state they were sent    *)
(* (clientState) and talk to the host in wires over the peer connection.   *)
(*                                                                         *)
(* A table is a record                                                     *)
(*   h      the engine of the host (createHost), None when none runs       *)
(*   saved  the last checkpoint in the plugin storage of the host, or None *)
(*   cl     clientState of each guest, None when it is at no table         *)
(*   up     wires on their way from a guest to the host, in order          *)
(*   down   wires on their way from the host to a guest, in order          *)
(*   conn   the guests that are connected to the host                      *)
(*   gids   how many tables have been opened: gameId of the newest         *)
(* The modules of the games add their engine, their ui.js and their page.  *)
(***************************************************************************)
EXTENDS Integers, Sequences, FiniteSets

CONSTANTS Host, Guests, None,
          MaxWire,     \* bound: wires on their way on one connection
          MaxGames     \* bound: tables opened

Peers == Guests \cup {Host}
NoTable == [h |-> None, saved |-> None, cl |-> [p \in Guests |-> None],
            up |-> [p \in Guests |-> <<>>], down |-> [p \in Guests |-> <<>>],
            conn |-> {}, gids |-> 0]

(* sendWire and broadcastWire: a wire to a peer that is not connected is   *)
(* lost.                                                                   *)
sendWire(s, p, w) ==
    IF p \in s.conn THEN [s EXCEPT !.down[p] = Append(@, w)] ELSE s
broadcastWire(s, w, P) ==
    [s EXCEPT !.down = [p \in Guests |-> IF p \in P \cap s.conn THEN Append(@[p], w) ELSE @[p]]]
sendToHost(s, p, w) ==
    IF p \in s.conn THEN [s EXCEPT !.up[p] = Append(@, w)] ELSE s

Room(s) == \A p \in Guests : Len(s.down[p]) < MaxWire
RoomUp(s, p) == Len(s.up[p]) < MaxWire
TakeUp(s, p) == [s EXCEPT !.up[p] = Tail(@)]
TakeDown(s, p) == [s EXCEPT !.down[p] = Tail(@)]

(* The connection is lost: nothing that was on its way arrives.            *)
Cut(s, P) == [s EXCEPT !.conn = @ \ P,
                       !.up = [p \in Guests |-> IF p \in P THEN <<>> ELSE @[p]],
                       !.down = [p \in Guests |-> IF p \in P THEN <<>> ELSE @[p]]]

Quiet(s, p) == s.up[p] = <<>> /\ s.down[p] = <<>>
Ids(players) == {players[i].id : i \in DOMAIN players}
IndexOf(players, p) == CHOOSE i \in DOMAIN players : players[i].id = p

(* Players are kept in the order of their seats.                           *)
Seated(players, pl) ==
    LET before == SelectSeq(players, LAMBDA q : q.seat < pl.seat)
    IN  before \o <<pl>> \o SubSeq(players, Len(before) + 1, Len(players))
Without(players, p) == SelectSeq(players, LAMBDA q : q.id # p)
FreeSeat(players, n) ==
    LET free == (0..n) \ {players[i].seat : i \in DOMAIN players}
    IN  CHOOSE x \in free : \A y \in free : x <= y

(* A guest and a wire of the host: states of its own table replace the     *)
(* copy; a rejection, the end of the table or a kick end the session.      *)
GuestSees(s, p, w) ==
    LET v == s.cl[p]
        mine == v # None /\ v.gid = (IF w.wire \in {"state", "join_ok"} THEN w.pub.gid ELSE w.gid)
    IN  CASE w.wire = "state" /\ mine -> [s EXCEPT !.cl[p] = w.pub]
          [] w.wire = "join_ok" -> [s EXCEPT !.cl[p] = w.pub]
          [] w.wire \in {"join_reject", "leave", "kicked"} /\ mine -> [s EXCEPT !.cl[p] = None]
          [] OTHER -> s

(* The steps of ui.js and of the connection that are the same everywhere:  *)
(* the guest joins the table its host advertises, rejoins when the         *)
(* connection returns, sends an action of its page, leaves; the host       *)
(* closes the table, or its application ends and only the checkpoint stays.*)
Joins(s, p, blank) ==
    [sendToHost(s, p, [wire |-> "join", gid |-> s.h.gid]) EXCEPT !.cl[p] = blank]
CanJoin(s, p) == s.cl[p] = None /\ p \in s.conn /\ s.h # None /\ RoomUp(s, p)
Reconnects(s, p) ==
    LET t == [s EXCEPT !.conn = @ \cup {p}]
    IN  IF t.cl[p] = None THEN t ELSE sendToHost(t, p, [wire |-> "join", gid |-> t.cl[p].gid])
SendsAction(s, p, a) == sendToHost(s, p, [wire |-> "action", gid |-> s.cl[p].gid, action |-> a])
Leaves(s, p) == [sendToHost(s, p, [wire |-> "leave", gid |-> s.cl[p].gid]) EXCEPT !.cl[p] = None]
Closes(s) == [broadcastWire(s, [wire |-> "leave", gid |-> s.h.gid], Ids(s.h.players)) EXCEPT !.h = None]
Crashes(s) == [Cut(s, Guests) EXCEPT !.h = None]
=============================================================================
