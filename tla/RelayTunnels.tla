---------------------------- MODULE RelayTunnels ----------------------------
(***************************************************************************)
(* Live tunnels in the relay server: the tunnel table (relay/src/          *)
(* tunnel.rs), the hub operations that use it (hub.rs) and the WebSocket   *)
(* session that calls them (ws.rs).                                        *)
(*                                                                         *)
(* The hub holds one mutex.  Every operation changes the table under the   *)
(* lock and sends its control messages AFTER the lock is released, so the  *)
(* sends of two operations interleave.  A task - the reader task of a      *)
(* connection, or the 15 s timer of an open request - therefore keeps the  *)
(* list of steps it still has to take (todo); each step is one action.     *)
(*                                                                         *)
(* A connection is named by its generation.  A generation's session is     *)
(* "new" (not yet connected), "auth" (registered in the hub, `ready` not   *)
(* yet queued), "ready", or "gone".  A session that was replaced stays     *)
(* "ready" until its reader sees the cancel flag: slot[g] = NoDev is what   *)
(* stops it from touching the table (conn_matches).                        *)
(***************************************************************************)
EXTENDS Integers, Sequences, FiniteSets

CONSTANTS
    Devices,           \* the (peer, device) identities: pairs <<peer, device>>
    MaxGen,            \* connections in a behaviour (bounds next_gen)
    MaxId,             \* the largest tunnel id (u32::MAX in the code)
    MaxTunnels,        \* MAX_TUNNELS: tunnels per connection
    MaxPendingOpens,   \* MAX_PENDING_OPENS: open requests per connection
    MaxDevicesPerPeer, \* MAX_DEVICES_PER_PEER
    ControlCap,        \* OUTBOUND_CONTROL_CAP: length of a control queue
    MaxOpens,          \* open requests in a behaviour (bounds the timers)
    KeepMessages,      \* FALSE: control queues are not kept (see Room, Cancel)
    NoDev, NoEnd       \* absent HashMap entries

Gens == 1..MaxGen
Ids == 1..MaxId
Serials == 1..MaxOpens
End == [gen: Gens, id: Ids]

ASSUME ConstantsAssumption ==
    /\ MaxGen \in Nat /\ MaxId \in Nat /\ MaxOpens \in Nat
    /\ MaxTunnels \in Nat /\ MaxPendingOpens \in Nat
    /\ MaxDevicesPerPeer \in Nat \ {0} /\ ControlCap \in Nat
    /\ KeepMessages \in BOOLEAN
    /\ NoDev \notin Devices
    /\ NoEnd \notin End

VARIABLES
    nextGen, \* Inner.next_gen
    sess,    \* the WebSocket session of a generation
    slot,    \* Inner.conns and by_peer: generation -> its (peer, device)
    cancel,  \* ConnSlot.cancel
    est,     \* ConnTunnels.established
    pout,    \* ConnTunnels.pending_out
    pin,     \* ConnTunnels.pending_in
    hint,    \* ConnTunnels.next_hint
    serial,  \* open requests that were entered in the table so far
    timers,  \* running open timers
    ctl,     \* the control queue of a connection
    todo     \* task -> the steps it takes after the hub released the lock

tunnelVars == <<est, pout, pin, hint>>
vars == <<nextGen, sess, slot, cancel, est, pout, pin, hint, serial, timers, ctl, todo>>

(* Tasks: the reader of generation g, and the timer of the n-th open request. *)
Reader(g) == <<"reader", g>>
Timer(n) == <<"timer", n>>
Tasks == {Reader(g) : g \in Gens} \cup {Timer(n) : n \in Serials}

(***************************************************************************)
(* Control messages and the steps of a task.                               *)
(***************************************************************************)
Kinds == {"ready", "incoming", "opened", "open_failed", "closed", "error"}
Codes == {"", "limit", "timeout", "rejected", "offline", "self", "invalid",
          "remote", "overflow", "disconnect", "replaced"}
Msg == [t: Kinds, id: 0..MaxId, code: Codes, from: Devices \cup {NoDev}]

(* The relay never reads a message back: a run that is only about the      *)
(* relay need not tell messages apart.                                     *)
Kept(msg) == IF KeepMessages THEN msg ELSE [t |-> "error", id |-> 0, code |-> "", from |-> NoDev]
Message(t, id, code) == Kept([t |-> t, id |-> id, code |-> code, from |-> NoDev])
Incoming(id, d) == Kept([t |-> "incoming", id |-> id, code |-> "", from |-> d])

Steps ==
    [op: {"invite"}, gen: Gens, id: Ids, n: Serials, msg: Msg]
    \cup [op: {"fail_open", "forward"}, gen: Gens, id: Ids, n: {0}, msg: Msg]
    \cup [op: {"push", "reply", "ready", "end"}, gen: Gens, id: {0}, n: {0}, msg: Msg]

Step(op, g, id, msg) == [op |-> op, gen |-> g, id |-> id, n |-> 0, msg |-> msg]
Push(g, msg) == Step("push", g, 0, msg)     \* try_send_ctl to another connection
Reply(g, msg) == Step("reply", g, 0, msg)   \* enqueue to the task's own connection
EndStep(g) == Step("end", g, 0, Message("error", 0, ""))

(* control_of: the message is dropped when the connection is not registered. *)
PushIfLive(s, g, msg) == IF s[g] = NoDev THEN <<>> ELSE <<Push(g, msg)>>

(***************************************************************************)
(* tunnel.rs: the table.                                                   *)
(***************************************************************************)
Keys(f, g) == {i \in Ids : f[g][i] # NoEnd}
(* Mutant: ids of incoming requests are not looked at.                     *)
UsedByOwn(g, i) == est[g][i] # NoEnd \/ pout[g][i] # NoEnd
Used(g, i) == est[g][i] # NoEnd \/ pout[g][i] # NoEnd \/ pin[g][i] # NoEnd
Total(g) == Cardinality(Keys(est, g)) + Cardinality(Keys(pout, g)) + Cardinality(Keys(pin, g))

(* The distance alloc_id walks from its start, in u32 arithmetic, to reach i. *)
Distance(g, i) ==
    LET start == IF hint[g] = 0 THEN 1 ELSE hint[g]
    IN  (i - start) % (MaxId + 1)

(* alloc_id tries u32::MAX ids. *)
FreeIds(g) == {i \in Ids : ~Used(g, i) /\ Distance(g, i) < MaxId}
(* Mutant: the lowest free id instead of the next one.                     *)
AllocLowest(g) == CHOOSE i \in Ids : ~Used(g, i) /\ \A j \in Ids : ~Used(g, j) => i <= j
AllocId(g) == CHOOSE i \in FreeIds(g) : \A j \in FreeIds(g) : Distance(g, i) <= Distance(g, j)

(* The checks of Tunnels::open, in their order.                            *)
OpenCheck(g, i, h) ==
    IF Used(g, i) THEN "invalid"
    ELSE IF \/ Total(g) >= MaxTunnels \/ Cardinality(Keys(pout, g)) >= MaxPendingOpens
            \/ Total(h) >= MaxTunnels \/ Cardinality(Keys(pin, h)) >= MaxPendingOpens
            \/ FreeIds(h) = {}
    THEN "limit"
    ELSE "ok"

(* Mutant: next_hint is incremented without wrapping.                      *)
TableOpenNoWrap(g, i, h) ==
    LET j == AllocId(h)
    IN  /\ pout' = [pout EXCEPT ![g][i] = [gen |-> h, id |-> j]]
        /\ pin' = [pin EXCEPT ![h][j] = [gen |-> g, id |-> i]]
        /\ hint' = [hint EXCEPT ![h] = j + 1]
        /\ UNCHANGED est

TableOpen(g, i, h) ==
    LET j == AllocId(h)
    IN  /\ pout' = [pout EXCEPT ![g][i] = [gen |-> h, id |-> j]]
        /\ pin' = [pin EXCEPT ![h][j] = [gen |-> g, id |-> i]]
        /\ hint' = [hint EXCEPT ![h] = (j + 1) % (MaxId + 1)]
        /\ UNCHANGED est

(* Mutant: accept joins A's end to the id A chose, on B's side too.        *)
TableAcceptOtherId(g, i) ==
    LET e == pin[g][i]
    IN  /\ pin' = [pin EXCEPT ![g][i] = NoEnd]
        /\ pout' = [pout EXCEPT ![e.gen][e.id] = NoEnd]
        /\ est' = IF pout[e.gen][e.id] = NoEnd THEN est
                  ELSE [est EXCEPT ![g][i] = e, ![e.gen][e.id] = [gen |-> g, id |-> e.id]]
        /\ UNCHANGED hint

(* Tunnels::accept: B's pending_in and A's pending_out become one tunnel.  *)
TableAccept(g, i) ==
    LET e == pin[g][i]
    IN  /\ pin' = [pin EXCEPT ![g][i] = NoEnd]
        /\ pout' = [pout EXCEPT ![e.gen][e.id] = NoEnd]
        /\ est' = IF pout[e.gen][e.id] = NoEnd THEN est
                  ELSE [est EXCEPT ![g][i] = e, ![e.gen][e.id] = [gen |-> g, id |-> i]]
        /\ UNCHANGED hint

(* Tunnels::reject: the pending request disappears on both sides.          *)
TableReject(g, i) ==
    LET e == pin[g][i]
    IN  /\ pin' = [pin EXCEPT ![g][i] = NoEnd]
        /\ pout' = [pout EXCEPT ![e.gen][e.id] = NoEnd]
        /\ UNCHANGED <<est, hint>>

(* Mutant: the timeout withdraws the request on the target's side only.    *)
TableTimeoutTargetOnly(g, i) ==
    LET e == pout[g][i]
    IN  pin' = [pin EXCEPT ![e.gen][e.id] = NoEnd] /\ UNCHANGED <<est, pout, hint>>

TableTimeout(g, i) ==
    LET e == pout[g][i]
    IN  /\ pout' = [pout EXCEPT ![g][i] = NoEnd]
        /\ pin' = [pin EXCEPT ![e.gen][e.id] = NoEnd]
        /\ UNCHANGED <<est, hint>>

(* Tunnels::close: established first, then pending_out, then pending_in.   *)
CloseEnd(g, i) ==
    IF est[g][i] # NoEnd THEN est[g][i]
    ELSE IF pout[g][i] # NoEnd THEN pout[g][i]
    ELSE pin[g][i]

TableClose(g, i) ==
    IF est[g][i] # NoEnd
    THEN LET e == est[g][i]
         IN  /\ est' = [est EXCEPT ![g][i] = NoEnd, ![e.gen][e.id] = NoEnd]
             /\ UNCHANGED <<pout, pin, hint>>
    ELSE IF pout[g][i] # NoEnd THEN TableTimeout(g, i)
    ELSE TableReject(g, i)

(* Tunnels::drop_conn: g's entries and, for each of them, the other end.   *)
Ends(f, g) == {f[g][i] : i \in Ids} \ {NoEnd}
DropEnds(f, g, ends) ==
    [h \in Gens |-> [i \in Ids |->
        IF h = g \/ [gen |-> h, id |-> i] \in ends THEN NoEnd ELSE f[h][i]]]

Dropped(g) == Ends(est, g) \cup Ends(pout, g) \cup Ends(pin, g)
(* Mutants: the requests of others to g survive on their side; the other   *)
(* ends of g's tunnels survive.                                            *)
TableDropKeepsOpeners(g) ==
    /\ est' = DropEnds(est, g, Ends(est, g))
    /\ pin' = DropEnds(pin, g, Ends(pout, g))
    /\ pout' = DropEnds(pout, g, {})
    /\ hint' = [hint EXCEPT ![g] = 0]

TableDropOwnOnly(g) ==
    /\ est' = DropEnds(est, g, {})
    /\ pin' = DropEnds(pin, g, Ends(pout, g))
    /\ pout' = DropEnds(pout, g, Ends(pin, g))
    /\ hint' = [hint EXCEPT ![g] = 0]

TableDrop(g) ==
    /\ est' = DropEnds(est, g, Ends(est, g))
    /\ pin' = DropEnds(pin, g, Ends(pout, g))
    /\ pout' = DropEnds(pout, g, Ends(pin, g))
    /\ hint' = [hint EXCEPT ![g] = 0]

(***************************************************************************)
(* The steps of a task, taken after the lock is released.                  *)
(***************************************************************************)
(* Whether a message fits in the control queue of g.  When queues are not  *)
(* kept, the writer of a live session may or may not have kept up: the run *)
(* then covers every ControlCap.                                           *)
Room(g) ==
    IF sess[g] = "gone" THEN {FALSE}
    ELSE IF KeepMessages THEN {Len(ctl[g]) < ControlCap}
    ELSE BOOLEAN

Queue(g, msg) == ctl' = IF KeepMessages THEN [ctl EXCEPT ![g] = Append(@, msg)] ELSE ctl

(* The reader of a cancelled session ends it.  Any session may end at any  *)
(* time; the flag only makes it inevitable.                                *)
Cancel(g) == cancel' = IF KeepMessages /\ sess[g] # "gone" THEN [cancel EXCEPT ![g] = TRUE] ELSE cancel

(* try_send_ctl: a full queue cancels the connection behind it.            *)
TrySend(g, msg, room) ==
    IF room THEN Queue(g, msg) /\ UNCHANGED cancel ELSE Cancel(g) /\ UNCHANGED ctl

NextStep(a, op) == todo[a] # <<>> /\ Head(todo[a]).op = op
Then(a, steps) == todo' = [todo EXCEPT ![a] = steps \o Tail(@)]

PushStep(a) ==
    /\ NextStep(a, "push")
    /\ LET s == Head(todo[a])
       IN  \E room \in Room(s.gen) : TrySend(s.gen, s.msg, room)
    /\ Then(a, <<>>)
    /\ UNCHANGED <<nextGen, sess, slot, tunnelVars, serial, timers>>

(* enqueue: when the own queue is full the handler returns false.          *)
ReplyStep(a) ==
    LET s == Head(todo[a])
    IN  /\ NextStep(a, "reply")
        /\ \E room \in Room(s.gen) :
              IF room THEN Queue(s.gen, s.msg) /\ Then(a, <<>>)
              ELSE Then(a, <<EndStep(s.gen)>>) /\ UNCHANGED ctl
        /\ UNCHANGED <<nextGen, sess, slot, cancel, tunnelVars, serial, timers>>

(* handle_auth: `ready` waits for room in the own queue.                   *)
ReadyStep(a) ==
    LET s == Head(todo[a])
    IN  /\ NextStep(a, "ready")
        /\ TRUE \in Room(s.gen)
        /\ Queue(s.gen, s.msg)
        /\ sess' = [sess EXCEPT ![s.gen] = "ready"]
        /\ Then(a, <<>>)
        /\ UNCHANGED <<nextGen, slot, cancel, tunnelVars, serial, timers>>

(* open_tunnel after the lock: `incoming` goes to the target; on success   *)
(* handle_open spawns the timer, otherwise fail_open and an own reply.     *)
Invite(g, i, n, h, j) ==
    [op |-> "invite", gen |-> h, id |-> i, n |-> n,
     msg |-> Incoming(j, slot[g])]

FailOpenStep(g, i) == Step("fail_open", g, i, Message("open_failed", i, "limit"))

InviteStep(g) ==
    LET a == Reader(g)
        s == Head(todo[a])
    IN  /\ NextStep(a, "invite")
        /\ \E room \in Room(s.gen) :
              /\ TrySend(s.gen, s.msg, room)
              /\ IF room
                 THEN /\ timers' = timers \cup {[gen |-> g, id |-> s.id, n |-> s.n]}
                      /\ Then(a, <<>>)
                 ELSE /\ Then(a, <<FailOpenStep(g, s.id), Reply(g, Message("open_failed", s.id, "limit"))>>)
                      /\ UNCHANGED timers
        /\ UNCHANGED <<nextGen, sess, slot, tunnelVars, serial>>

(* Hub::fail_open, run by task a whose remaining steps are rest.           *)
FailOpen(a, g, i, code, rest) ==
    LET e == pout[g][i]
    IN  IF slot[g] = NoDev \/ e = NoEnd
        THEN todo' = [todo EXCEPT ![a] = rest] /\ UNCHANGED tunnelVars
        ELSE /\ TableTimeout(g, i)
             /\ todo' = [todo EXCEPT ![a] =
                    PushIfLive(slot, g, Message("open_failed", i, code))
                    \o PushIfLive(slot, e.gen, Message("closed", e.id, "remote")) \o rest]

FailOpenNow(a) ==
    LET s == Head(todo[a])
    IN  /\ NextStep(a, "fail_open")
        /\ FailOpen(a, s.gen, s.id, "limit", Tail(todo[a]))
        /\ UNCHANGED <<nextGen, sess, slot, cancel, serial, timers, ctl>>

(* The sleep of 15 s in handle_open ends.                                  *)
TimerFires(t) ==
    /\ t \in timers
    /\ timers' = timers \ {t}
    /\ FailOpen(Timer(t.n), t.gen, t.id, "timeout", <<>>)
    /\ UNCHANGED <<nextGen, sess, slot, cancel, serial, ctl>>

(***************************************************************************)
(* Registration (Hub::register, Hub::unregister, detach_conn).             *)
(***************************************************************************)
SamePeer(d) == {h \in Gens : slot[h] # NoDev /\ slot[h][1] = d[1]}
Oldest(S) == CHOOSE h \in S : \A k \in S : h <= k
Newest(S) == CHOOSE h \in S : \A k \in S : k <= h

(* The connection that registering d displaces, if any.                    *)
Displaced(d) ==
    LET same == {h \in Gens : slot[h] = d}
    IN  IF same # {} THEN same
        ELSE IF Cardinality(SamePeer(d)) >= MaxDevicesPerPeer THEN {Oldest(SamePeer(d))}
        ELSE {}

(* HashMaps are iterated in any order.                                     *)
Orders(S) == {s \in [1..Cardinality(S) -> S] : \A x, y \in DOMAIN s : s[x] = s[y] => x = y}

(* The `closed` messages of detach_conn, for ends whose connection is left. *)
Disconnects(g) ==
    {Push(e.gen, Message("closed", e.id, "disconnect")) :
        e \in {x \in Dropped(g) : x.gen # g /\ slot[x.gen] # NoDev}}

Register(d) ==
    LET g == nextGen
        ready == Step("ready", g, 0, Message("ready", 0, ""))
    IN  /\ nextGen <= MaxGen
        /\ nextGen' = nextGen + 1
        /\ sess' = [sess EXCEPT ![g] = "auth"]
        /\ \/ /\ Displaced(d) = {}
              /\ slot' = [slot EXCEPT ![g] = d]
              /\ todo' = [todo EXCEPT ![Reader(g)] = <<ready>>]
              /\ UNCHANGED <<tunnelVars, ctl, cancel>>
           \/ \E h \in Displaced(d) : \E out \in Orders(Disconnects(h)) :
              /\ TableDrop(h)
              /\ slot' = [slot EXCEPT ![h] = NoDev, ![g] = d]
              /\ IF TRUE \in Room(h) THEN Queue(h, Message("error", 0, "replaced")) ELSE UNCHANGED ctl
              /\ Cancel(h)
              /\ todo' = [todo EXCEPT ![Reader(g)] = out \o <<ready>>]
        /\ UNCHANGED <<serial, timers>>

(* The read loop ends - the client left, the socket failed, the idle limit *)
(* passed, the connection was cancelled or a handler returned false - and   *)
(* the connection is unregistered if the hub still holds it.               *)
MayEnd(g) ==
    \/ sess[g] = "ready" /\ todo[Reader(g)] = <<>>
    \/ sess[g] = "auth" /\ NextStep(Reader(g), "ready")
    \/ NextStep(Reader(g), "end")

SessionEnds(g) ==
    /\ MayEnd(g)
    /\ sess' = [sess EXCEPT ![g] = "gone"]
    /\ IF slot[g] = NoDev
       THEN todo' = [todo EXCEPT ![Reader(g)] = <<>>] /\ UNCHANGED <<tunnelVars, slot>>
       ELSE /\ TableDrop(g)
            /\ slot' = [slot EXCEPT ![g] = NoDev]
            /\ \E out \in Orders(Disconnects(g)) : todo' = [todo EXCEPT ![Reader(g)] = out]
    /\ ctl' = [ctl EXCEPT ![g] = <<>>]
    /\ cancel' = [cancel EXCEPT ![g] = FALSE]
    /\ UNCHANGED <<nextGen, serial, timers>>

(***************************************************************************)
(* The handlers of on_text and the binary frames.                          *)
(***************************************************************************)
Idle(g) == sess[g] = "ready" /\ todo[Reader(g)] = <<>>
ConnMatches(g) == slot[g] # NoDev
Answer(g, steps) == todo' = [todo EXCEPT ![Reader(g)] = steps]

(* A request that fails changes nothing under the lock; its answer goes to *)
(* the own queue, and a full queue ends the session (enqueue).             *)
Refuse(g, msg) ==
    \E room \in Room(g) :
        IF room THEN Queue(g, msg) /\ UNCHANGED todo
        ELSE Answer(g, <<EndStep(g)>>) /\ UNCHANGED ctl

(* handle_open and Hub::open_tunnel.  d names the target; without a device *)
(* in the request (~named) it is the peer's newest connection.             *)
Targets(d, named) == IF named THEN {h \in Gens : slot[h] = d} ELSE SamePeer(d)

OpenCode(g, i, d, named) ==
    IF ~ConnMatches(g) THEN "invalid"
    ELSE IF slot[g][1] = d[1] THEN "self"
    ELSE IF Targets(d, named) = {} THEN "offline"
    ELSE OpenCheck(g, i, Newest(Targets(d, named)))

HandleOpen(g, i, d, named) ==
    LET code == OpenCode(g, i, d, named)
        h == Newest(Targets(d, named))
    IN  /\ Idle(g)
        /\ IF code = "ok"
           THEN /\ serial < MaxOpens
                /\ serial' = serial + 1
                /\ TableOpen(g, i, h)
                /\ Answer(g, <<Invite(g, i, serial + 1, h, AllocId(h))>>)
                /\ UNCHANGED ctl
           ELSE /\ Refuse(g, Message("open_failed", i, code))
                /\ UNCHANGED <<serial, tunnelVars>>
        /\ UNCHANGED <<nextGen, sess, slot, cancel, timers>>

HandleAccept(g, i) ==
    LET e == pin[g][i]
    IN  /\ Idle(g)
        /\ IF ConnMatches(g) /\ e # NoEnd
           THEN /\ TableAccept(g, i)
                /\ IF pout[e.gen][e.id] = NoEnd THEN Refuse(g, Message("error", 0, "invalid"))
                   ELSE /\ Answer(g, PushIfLive(slot, e.gen, Message("opened", e.id, "")))
                        /\ UNCHANGED ctl
           ELSE Refuse(g, Message("error", 0, "invalid")) /\ UNCHANGED tunnelVars
        /\ UNCHANGED <<nextGen, sess, slot, cancel, serial, timers>>

HandleReject(g, i) ==
    LET e == pin[g][i]
    IN  /\ Idle(g)
        /\ IF ConnMatches(g) /\ e # NoEnd
           THEN /\ TableReject(g, i)
                /\ Answer(g, PushIfLive(slot, e.gen, Message("open_failed", e.id, "rejected")))
                /\ UNCHANGED ctl
           ELSE Refuse(g, Message("error", 0, "invalid")) /\ UNCHANGED tunnelVars
        /\ UNCHANGED <<nextGen, sess, slot, cancel, serial, timers>>

(* Hub::close_tunnel, then the steps of rest.                              *)
CloseTunnel(g, i, code, rest) ==
    LET e == CloseEnd(g, i)
    IN  IF ConnMatches(g) /\ e # NoEnd
        THEN TableClose(g, i) /\ Answer(g, PushIfLive(slot, e.gen, Message("closed", e.id, code)) \o rest)
        ELSE Answer(g, rest) /\ UNCHANGED tunnelVars

HandleClose(g, i) ==
    /\ Idle(g)
    /\ CloseTunnel(g, i, "remote", <<>>)
    /\ UNCHANGED <<nextGen, sess, slot, cancel, serial, timers, ctl>>

(* Hub::forward_binary looks the tunnel up and then waits, without the     *)
(* lock, for room in the data queue of the other side.                     *)
HandleBinary(g, i) ==
    /\ Idle(g)
    /\ ConnMatches(g) /\ est[g][i] # NoEnd /\ slot[est[g][i].gen] # NoDev
    /\ Answer(g, <<Step("forward", g, i, Message("closed", i, "overflow"))>>)
    /\ UNCHANGED <<nextGen, sess, slot, cancel, tunnelVars, serial, timers, ctl>>

Forwarded(g) ==
    /\ NextStep(Reader(g), "forward")
    /\ Answer(g, <<>>)
    /\ UNCHANGED <<nextGen, sess, slot, cancel, tunnelVars, serial, timers, ctl>>

ForwardTimeout(g) ==
    LET s == Head(todo[Reader(g)])
    IN  /\ NextStep(Reader(g), "forward")
        /\ CloseTunnel(g, s.id, "overflow", PushIfLive(slot, g, s.msg))
        /\ UNCHANGED <<nextGen, sess, slot, cancel, serial, timers, ctl>>

(* The writer task takes the next control message to the socket.  When     *)
(* queues are not kept it takes one that Room stands for.                  *)
Write(g) ==
    /\ IF KeepMessages THEN ctl[g] # <<>> ELSE sess[g] \in {"auth", "ready"}
    /\ ctl' = IF KeepMessages THEN [ctl EXCEPT ![g] = Tail(@)] ELSE ctl
    /\ UNCHANGED <<nextGen, sess, slot, cancel, tunnelVars, serial, timers, todo>>

(***************************************************************************)
(* The specification: any client may send any request at any time.         *)
(***************************************************************************)
Nothing == [g \in Gens |-> [i \in Ids |-> NoEnd]]

Init ==
    /\ nextGen = 1
    /\ sess = [g \in Gens |-> "new"]
    /\ slot = [g \in Gens |-> NoDev]
    /\ cancel = [g \in Gens |-> FALSE]
    /\ est = Nothing /\ pout = Nothing /\ pin = Nothing
    /\ hint = [g \in Gens |-> 0]
    /\ serial = 0
    /\ timers = {}
    /\ ctl = [g \in Gens |-> <<>>]
    /\ todo = [a \in Tasks |-> <<>>]

TaskStep(a) == PushStep(a) \/ ReplyStep(a) \/ ReadyStep(a) \/ FailOpenNow(a)
ReaderStep(g) == InviteStep(g) \/ Forwarded(g) \/ ForwardTimeout(g)

Request(g) ==
    \/ \E i \in Ids, d \in Devices, named \in BOOLEAN : HandleOpen(g, i, d, named)
    \/ \E i \in Ids : HandleAccept(g, i) \/ HandleReject(g, i) \/ HandleClose(g, i) \/ HandleBinary(g, i)

Next ==
    \/ \E d \in Devices : Register(d)
    \/ \E g \in Gens : SessionEnds(g) \/ Request(g) \/ Write(g) \/ ReaderStep(g)
    \/ \E a \in Tasks : TaskStep(a)
    \/ \E t \in timers : TimerFires(t)

(* A task that sleeps or holds a step to take is scheduled; clients owe    *)
(* nothing, and the socket may block the writer for ever.                  *)
ReaderRuns(g) == TaskStep(Reader(g)) \/ ReaderStep(g)
TimerRuns(n) == TaskStep(Timer(n)) \/ \E t \in timers : t.n = n /\ TimerFires(t)

Fairness ==
    /\ \A g \in Gens : WF_vars(ReaderRuns(g))
    /\ \A n \in Serials : WF_vars(TimerRuns(n))

Spec == Init /\ [][Next]_vars /\ Fairness

(***************************************************************************)
(* Properties.                                                             *)
(***************************************************************************)
(* Every variable keeps its type; in particular an end names a real slot.  *)
TypeOK ==
    /\ nextGen \in 1..(MaxGen + 1)
    /\ sess \in [Gens -> {"new", "auth", "ready", "gone"}]
    /\ slot \in [Gens -> Devices \cup {NoDev}]
    /\ cancel \in [Gens -> BOOLEAN]
    /\ est \in [Gens -> [Ids -> End \cup {NoEnd}]]
    /\ pout \in [Gens -> [Ids -> End \cup {NoEnd}]]
    /\ pin \in [Gens -> [Ids -> End \cup {NoEnd}]]
    /\ hint \in [Gens -> 0..MaxId]
    /\ serial \in 0..MaxOpens
    /\ timers \in SUBSET [gen: Gens, id: Ids, n: Serials]
    /\ ctl \in [Gens -> Seq(Msg)]
    /\ todo \in [Tasks -> Seq(Steps)]

(* The two halves of a tunnel always name each other, in the matching maps: *)
(* what accept, reject, timeout_open, close and drop_conn do on one side    *)
(* they do on the other, whatever order the operations come in.             *)
Mirrored(f, m) ==
    \A g \in Gens, i \in Ids : f[g][i] # NoEnd => m[f[g][i].gen][f[g][i].id] = [gen |-> g, id |-> i]
Paired == Mirrored(est, est) /\ Mirrored(pout, pin) /\ Mirrored(pin, pout)

(* "Tunnel-IDs sind pro Verbindung eindeutige u32 > 0" (PROTOCOL.md): one   *)
(* id of a connection names one tunnel or request, although the client and  *)
(* the relay both hand out ids.                                             *)
IdsUnique ==
    \A g \in Gens, i \in Ids :
        /\ est[g][i] = NoEnd \/ (pout[g][i] = NoEnd /\ pin[g][i] = NoEnd)
        /\ pout[g][i] = NoEnd \/ pin[g][i] = NoEnd

(* No tunnel outlives a connection, or joins two devices of one identity:   *)
(* detach_conn leaves nothing behind on either side, and a session that     *)
(* was replaced but still reads its socket cannot create an entry.          *)
EndsLive ==
    \A f \in {est, pout, pin} : \A g \in Gens, i \in Ids :
        f[g][i] # NoEnd => /\ slot[g] # NoDev
                           /\ slot[f[g][i].gen] # NoDev
                           /\ slot[f[g][i].gen][1] # slot[g][1]

(* A tunnel end never changes its partner: it appears, from the two pending *)
(* entries of the same pair, and disappears.                                *)
NoRewiring ==
    [][\A g \in Gens, i \in Ids : est'[g][i] # est[g][i] =>
         \/ est'[g][i] = NoEnd
         \/ est[g][i] = NoEnd /\ est'[g][i] \in {pout[g][i], pin[g][i]}]_vars

(* Every pending open ends: accepted, rejected, timed out or dropped.       *)
PendingResolved ==
    \A g \in Gens, i \in Ids : pout[g][i] # NoEnd ~> pout[g][i] = NoEnd
=============================================================================
