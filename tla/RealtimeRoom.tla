---------------------------- MODULE RealtimeRoom ----------------------------
(***************************************************************************)
(* plugin-realtime.mjs, classes RealtimeManager and RealtimeRoom: one room *)
(* id, the manager of its host and the managers of its guests.  Wires of a *)
(* connection arrive in order; a connection that is cut takes them along,  *)
(* and neither side of a room hears of it.                                 *)
(*                                                                         *)
(* net.host is the host's room (None or [members, open, invited]), net.cl  *)
(* the room of each guest (None, "joining" until JOIN_OK, "joined"),       *)
(* net.known those that can name the room (from an invitation or from a    *)
(* presence), net.listed those that have it in discoveredRooms.  net.cut   *)
(* (those whose connection was ever cut) and net.twice (those that joined  *)
(* again with an earlier join not yet answered) are history variables.     *)
(***************************************************************************)
EXTENDS Integers, Sequences, FiniteSets, SequencesExt

CONSTANTS Guests, None, MaxPeers,
          MaxWire,    \* bound: wires under way on a connection, in one direction
          MaxRooms    \* bound: rooms created

VARIABLE net

(* _sendWire, _sendWireMany and peer.broadcast: what is sent to a peer     *)
(* that is not connected is lost.                                          *)
_sendWireMany(s, P, w) == [s EXCEPT !.down = [p \in Guests |-> IF p \in P \cap s.conn THEN Append(@[p], w) ELSE @[p]]]
_sendWire(s, p, w) == _sendWireMany(s, {p}, w)
SendToHost(s, p, w) == IF p \in s.conn THEN [s EXCEPT !.up[p] = Append(@, w)] ELSE s
_publishPresence(s) == IF s.host.open THEN _sendWireMany(s, Guests, "presence") ELSE s
_clearPresence(s) == _sendWireMany(s, Guests, "presence-clear")
Room(s) == \A p \in Guests : Len(s.down[p]) < MaxWire /\ Len(s.up[p]) < MaxWire

(* leave: of the host's room and of a guest's.                             *)
HostLeaves(s) == [_sendWireMany(_clearPresence(s), s.host.members, "closed") EXCEPT !.host = None]
(* Mutant: a room that was left before it was joined says nothing.         *)
leaveQuietly(s, p) ==
    IF s.cl[p] = "joining" THEN [s EXCEPT !.cl[p] = None] ELSE [SendToHost(s, p, "leave") EXCEPT !.cl[p] = None]
leave(s, p) == [SendToHost(s, p, "leave") EXCEPT !.cl[p] = None]

(* _handleHostWire: the room counts its host.                              *)
Admits(h, p) == Cardinality(h.members) + 1 < MaxPeers /\ (h.open \/ p \in h.invited)
_handleHostWire(s, p, w) ==
    IF s.host = None THEN s
    ELSE IF w = "join" /\ ~Admits(s.host, p) THEN _sendWire(s, p, "join-reject")
    ELSE IF w = "join"
    THEN _publishPresence(_sendWireMany(_sendWire([s EXCEPT !.host.members = @ \cup {p}], p, "join-ok"),
                                        s.host.members \ {p}, "msg"))
    ELSE IF w = "leave" /\ p \in s.host.members
    THEN _publishPresence(_sendWireMany([s EXCEPT !.host.members = @ \ {p}], s.host.members \ {p}, "msg"))
    ELSE s

(* _onPeerMessage and _handleClientWire: members' messages ("msg", with    *)
(* peer-joined and peer-left among them) end in _handleIncoming.           *)
_handleClientWire(s, p, w) ==
    CASE w = "presence" -> [s EXCEPT !.listed = @ \cup {p}, !.known = @ \cup {p}]
      [] w = "presence-clear" -> [s EXCEPT !.listed = @ \ {p}]
      [] w = "invite" -> [s EXCEPT !.known = @ \cup {p}]
      [] w = "join-ok" -> IF s.cl[p] = None THEN s ELSE [s EXCEPT !.cl[p] = "joined"]
      [] w \in {"join-reject", "closed"} -> IF s.cl[p] = None THEN s ELSE leave(s, p)
      [] w = "msg" -> s

createRoom ==
    /\ net.host = None /\ net.rooms < MaxRooms /\ Room(net)
    /\ \E open \in BOOLEAN :
         net' = _publishPresence([net EXCEPT !.host = [members |-> {}, open |-> open, invited |-> {}], !.rooms = @ + 1])
invite(p) ==
    /\ net.host # None /\ Room(net)
    /\ net' = _sendWire([net EXCEPT !.host.invited = @ \cup {p}], p, "invite")
CloseRoom == net.host # None /\ Room(net) /\ net' = HostLeaves(net)
HostReceives(p) ==
    /\ net.up[p] # <<>> /\ Room([net EXCEPT !.up[p] = <<>>])
    /\ net' = _handleHostWire([net EXCEPT !.up[p] = Tail(@)], p, Head(net.up[p]))

joinRoom(p) ==
    /\ p \in net.known /\ net.cl[p] = None /\ Len(net.up[p]) < MaxWire
    /\ net' = [SendToHost(net, p, "join") EXCEPT
                  !.cl[p] = "joining",
                  !.twice = IF Contains(net.up[p], "join") \/ Contains(net.down[p], "join-ok") THEN @ \cup {p} ELSE @]
JoinTimeout(p) == net.cl[p] = "joining" /\ Len(net.up[p]) < MaxWire /\ net' = leave(net, p)
LeaveRoom(p) == net.cl[p] = "joined" /\ Len(net.up[p]) < MaxWire /\ net' = leave(net, p)
GuestReceives(p) ==
    /\ net.down[p] # <<>> /\ Len(net.up[p]) < MaxWire
    /\ net' = _handleClientWire([net EXCEPT !.down[p] = Tail(@)], p, Head(net.down[p]))
dispose(p) ==
    LET s == IF net.cl[p] = None THEN net ELSE leave(net, p)
    IN  Len(net.up[p]) < MaxWire /\ net' = [s EXCEPT !.known = @ \ {p}, !.listed = @ \ {p}]

Connected(p) == p \notin net.conn /\ net' = [net EXCEPT !.conn = @ \cup {p}]
CutOff(p) == p \in net.conn /\ net' = [net EXCEPT !.conn = @ \ {p}, !.up[p] = <<>>, !.down[p] = <<>>, !.cut = @ \cup {p}]

Init == net = [host |-> None, rooms |-> 0, cl |-> [p \in Guests |-> None], known |-> {}, listed |-> {},
               up |-> [p \in Guests |-> <<>>], down |-> [p \in Guests |-> <<>>], conn |-> {}, cut |-> {}, twice |-> {}]
Next == \/ createRoom \/ CloseRoom
        \/ \E p \in Guests : \/ invite(p) \/ HostReceives(p) \/ joinRoom(p) \/ JoinTimeout(p) \/ LeaveRoom(p)
                             \/ GuestReceives(p) \/ dispose(p) \/ Connected(p) \/ CutOff(p)

(***************************************************************************)
(* Properties.                                                             *)
(***************************************************************************)
(* Joins, time-outs, answers that come late, rejections, rooms that are    *)
(* closed and opened again: once the wires of a connection that was never  *)
(* cut have arrived, the host counts a guest among its members exactly     *)
(* when the guest is in the room, and the guest lists no room that closed. *)
(* JOIN_OK does not say which join it answers: a guest that joined twice   *)
(* may take the answer of the first for that of the second.                *)
MembersHonest ==
    \A p \in net.conn \ net.cut :
        net.up[p] = <<>> /\ net.down[p] = <<>> =>
            /\ p \in net.twice \/ ((net.host # None /\ p \in net.host.members) <=> net.cl[p] = "joined")
            /\ p \in net.listed => net.host # None /\ net.host.open
=============================================================================
