---------------------------- MODULE TunnelClient ----------------------------
(***************************************************************************)
(* The relay of RelayTunnels together with its clients: the session loop   *)
(* of src-tauri/src/cloud/connection.rs and the bridge task of             *)
(* cloud/tunnel.rs (bridge/webBridge/relayClient.js keeps the same maps).  *)
(*                                                                         *)
(* Everything a client keeps here is local to one session (run_session),   *)
(* so it is indexed by the generation of the connection.  The socket is    *)
(* FIFO in both directions: up[g] holds what the client sent, ctl[g] what  *)
(* the relay sends.  Bytes inside a tunnel are not modelled; the peer      *)
(* session on top of a bridge may end at any time.                         *)
(***************************************************************************)
EXTENDS RelayTunnels

CONSTANTS
    MaxClientOpens, \* ids the clients take in a behaviour (bounds next_tunnel_id)
    NoTunnel        \* absent entry of `tunnels`

VARIABLES
    me,      \* the device whose client runs session g
    online,  \* "wait" until `ready`, "on" in the select loop, "off" after it
    pending, \* pending_open: id -> target device (opening_peers is its range)
    tunnels, \* `tunnels`: id -> the device behind it and its bridge
    nextId,  \* next_tunnel_id
    bridges, \* the bridge tasks
    born,    \* number of bridges spawned so far
    up       \* client -> relay

clientVars == <<me, online, pending, tunnels, nextId, bridges, born, up>>
allVars == <<vars, clientVars>>

Requests == [t: {"open", "accept", "reject", "close"}, id: Ids, to: Devices \cup {NoDev}]
Bridges == [gen: Gens, id: Ids, b: Nat, st: {"run", "closing", "ended"}]

Ask(g, t, id, d) == up' = [up EXCEPT ![g] = Append(@, [t |-> t, id |-> id, to |-> d])]
Opening(g, d) == \E i \in Ids : pending[g][i] = d
Attached(g, d) == \E i \in Ids : tunnels[g][i] # NoTunnel /\ tunnels[g][i].dev = d

(* alloc_tunnel_id: the first id from next_tunnel_id on that is not in use. *)
ClientFree(g) == {i \in Ids : i >= nextId[g] /\ tunnels[g][i] = NoTunnel /\ pending[g][i] = NoDev}
ClientId(g) == Oldest(ClientFree(g))
TakenIds == {x \in Gens \X Ids : x[2] < nextId[x[1]]}

(* start_open, for presence (auto_targets) and for ConnCmd::Open.          *)
StartOpen(g, d) ==
    /\ online[g] = "on" /\ d[1] # me[g][1]
    /\ Cardinality(TakenIds) < MaxClientOpens /\ ClientFree(g) # {}
    /\ ~Opening(g, d) /\ ~Attached(g, d)
    /\ pending' = [pending EXCEPT ![g][ClientId(g)] = d]
    /\ nextId' = [nextId EXCEPT ![g] = ClientId(g) + 1]
    /\ Ask(g, "open", ClientId(g), d)
    /\ UNCHANGED <<vars, me, online, tunnels, bridges, born>>

(* attach_tunnel: tunnels.insert and spawn_bridge.                         *)
Attach(g, i, d) ==
    /\ born' = born + 1
    /\ tunnels' = [tunnels EXCEPT ![g][i] = [dev |-> d, b |-> born + 1]]
    /\ bridges' = bridges \cup {[gen |-> g, id |-> i, b |-> born + 1, st |-> "run"]}

(* close_local_tunnel: the entry goes and its bridge is told to close.     *)
Closing(g, i) ==
    {IF x.gen = g /\ tunnels[g][i] # NoTunnel /\ x.b = tunnels[g][i].b /\ x.st = "run"
     THEN [x EXCEPT !.st = "closing"] ELSE x : x \in bridges}

(* The client's loop ends: run_session drops all of its maps.              *)
Forget(g) ==
    /\ online' = [online EXCEPT ![g] = "off"]
    /\ pending' = [pending EXCEPT ![g] = [i \in Ids |-> NoDev]]
    /\ tunnels' = [tunnels EXCEPT ![g] = [i \in Ids |-> NoTunnel]]
    /\ bridges' = {x \in bridges : x.gen # g}
    /\ up' = [up EXCEPT ![g] = <<>>]
    /\ UNCHANGED <<me, nextId, born>>

(***************************************************************************)
(* Messages from the relay.                                                *)
(***************************************************************************)
OnReady(g, m) ==
    /\ m.t = "ready" /\ online[g] = "wait"
    /\ online' = [online EXCEPT ![g] = "on"]
    /\ UNCHANGED <<me, pending, tunnels, nextId, bridges, born, up>>

(* Any other first message is taken for a failed login; `replaced` ends    *)
(* the loop.                                                               *)
OnFatal(g, m) ==
    /\ \/ online[g] = "wait" /\ m.t # "ready"
       \/ m.t = "error" /\ m.code = "replaced"
    /\ Forget(g)

(* A second tunnel to a device is refused, and so is one of a peer that is *)
(* blocked or directly connected (any peer may be).                        *)
OnIncoming(g, m) ==
    /\ m.t = "incoming" /\ online[g] = "on"
    /\ \/ Ask(g, "reject", m.id, NoDev) /\ UNCHANGED <<tunnels, bridges, born>>
       \/ /\ ~Attached(g, m.from)
          /\ Ask(g, "accept", m.id, NoDev)
          /\ Attach(g, m.id, m.from)
    /\ UNCHANGED <<me, online, pending, nextId>>

OnOpened(g, m) ==
    /\ m.t = "opened" /\ online[g] = "on"
    /\ IF pending[g][m.id] = NoDev THEN UNCHANGED <<pending, tunnels, bridges, born>>
       ELSE /\ Attach(g, m.id, pending[g][m.id])
            /\ pending' = [pending EXCEPT ![g][m.id] = NoDev]
    /\ UNCHANGED <<me, online, nextId, up>>

OnOpenFailed(g, m) ==
    /\ m.t = "open_failed" /\ online[g] = "on"
    /\ pending' = [pending EXCEPT ![g][m.id] = NoDev]
    /\ UNCHANGED <<me, online, tunnels, nextId, bridges, born, up>>

OnClosed(g, m) ==
    /\ m.t = "closed" /\ online[g] = "on"
    /\ bridges' = Closing(g, m.id)
    /\ tunnels' = [tunnels EXCEPT ![g][m.id] = NoTunnel]
    /\ UNCHANGED <<me, online, pending, nextId, born, up>>

OnError(g, m) ==
    /\ m.t = "error" /\ m.code # "replaced" /\ online[g] = "on"
    /\ UNCHANGED clientVars

Receive(g) ==
    /\ online[g] # "off"
    /\ Write(g)
    /\ LET m == Head(ctl[g])
       IN  \/ OnReady(g, m) \/ OnFatal(g, m) \/ OnIncoming(g, m) \/ OnOpened(g, m)
           \/ OnOpenFailed(g, m) \/ OnClosed(g, m) \/ OnError(g, m)

(***************************************************************************)
(* spawn_bridge: when the peer session or the read loop ends, the bridge   *)
(* sends `close` for its id and then reports `ended`.                      *)
(***************************************************************************)
BridgeCloses(x) ==
    /\ x \in bridges /\ x.st # "ended"
    /\ bridges' = (bridges \ {x}) \cup {[x EXCEPT !.st = "ended"]}
    /\ Ask(x.gen, "close", x.id, NoDev)
    /\ UNCHANGED <<vars, me, online, pending, tunnels, nextId, born>>

(* Mutant: the end of a bridge leaves the entry in `tunnels`.              *)
BridgeEndedKeeps(x) ==
    /\ x \in bridges /\ x.st = "ended"
    /\ bridges' = bridges \ {x}
    /\ UNCHANGED <<vars, me, online, pending, tunnels, nextId, born, up>>

(* forget_local_tunnel: whatever tunnel now has the id is forgotten.       *)
BridgeEnded(x) ==
    /\ x \in bridges /\ x.st = "ended"
    /\ bridges' = bridges \ {x}
    /\ tunnels' = [tunnels EXCEPT ![x.gen][x.id] = NoTunnel]
    /\ UNCHANGED <<vars, me, online, pending, nextId, born, up>>

(***************************************************************************)
(* Both sides together.                                                    *)
(***************************************************************************)
(* A client connects again only after its previous loop ended; the relay   *)
(* may not have noticed yet and then replaces the old connection.          *)
Connect(d) ==
    /\ \A g \in Gens : me[g] = d => online[g] = "off"
    /\ Register(d)
    /\ me' = [me EXCEPT ![nextGen] = d]
    /\ online' = [online EXCEPT ![nextGen] = "wait"]
    /\ UNCHANGED <<pending, tunnels, nextId, bridges, born, up>>

(* The client's loop ends by itself: network loss, shutdown, Reconfigure.  *)
ClientLeaves(g) ==
    /\ online[g] \in {"wait", "on"}
    /\ Forget(g)
    /\ UNCHANGED vars

RelayEnds(g) ==
    /\ SessionEnds(g)
    /\ Forget(g)

RelayReads(g) ==
    /\ up[g] # <<>>
    /\ LET r == Head(up[g])
       IN  \/ r.t = "open" /\ HandleOpen(g, r.id, r.to, TRUE)
           \/ r.t = "accept" /\ HandleAccept(g, r.id)
           \/ r.t = "reject" /\ HandleReject(g, r.id)
           \/ r.t = "close" /\ HandleClose(g, r.id)
    /\ up' = [up EXCEPT ![g] = Tail(@)]
    /\ UNCHANGED <<me, online, pending, tunnels, nextId, bridges, born>>

RelayStep ==
    /\ \/ \E a \in Tasks : TaskStep(a)
       \/ \E g \in Gens : InviteStep(g)
       \/ \E t \in timers : TimerFires(t)
    /\ UNCHANGED clientVars

ClientInit ==
    /\ me = [g \in Gens |-> NoDev]
    /\ online = [g \in Gens |-> "off"]
    /\ pending = [g \in Gens |-> [i \in Ids |-> NoDev]]
    /\ tunnels = [g \in Gens |-> [i \in Ids |-> NoTunnel]]
    /\ nextId = [g \in Gens |-> 1]
    /\ bridges = {}
    /\ born = 0
    /\ up = [g \in Gens |-> <<>>]

SystemInit == Init /\ ClientInit

SystemNext ==
    \/ \E d \in Devices : Connect(d)
    \/ \E g \in Gens : ClientLeaves(g) \/ RelayEnds(g) \/ RelayReads(g) \/ Receive(g)
    \/ \E g \in Gens, d \in Devices : StartOpen(g, d)
    \/ \E x \in bridges : BridgeCloses(x) \/ BridgeEnded(x)
    \/ RelayStep

(* The relay's tasks and timers run; nothing is asked of the clients, and  *)
(* a socket may block its writer for ever.                                 *)
SystemSpec == SystemInit /\ [][SystemNext]_allVars /\ WF_allVars(RelayStep)

(* A cancelled or abandoned connection is noticed.                         *)
MustEnd(g) == RelayEnds(g) /\ (cancel[g] \/ online[g] = "off" \/ NextStep(Reader(g), "end"))

(* A bridge that was told to close does; over a tunnel the relay does not  *)
(* hold the peer handshake times out and the bridge closes as well.        *)
BridgeStep ==
    \E x \in bridges :
        \/ BridgeEnded(x)
        \/ BridgeCloses(x) /\ (x.st = "closing" \/ est[x.gen][x.id] = NoEnd)

(* What GhostsVanish needs besides: the sockets deliver in both directions *)
(* and the client's own tasks run.                                         *)
ClientFairness ==
    /\ \A g \in Gens : WF_allVars(RelayReads(g)) /\ WF_allVars(Receive(g)) /\ WF_allVars(MustEnd(g))
    /\ WF_allVars(BridgeStep)

(***************************************************************************)
(* Properties.                                                             *)
(***************************************************************************)

(* An answer always meets the request it answers: when the relay reads an   *)
(* `accept` or `reject`, the entry under that id is the one whose           *)
(* `incoming` the client saw, never a later request that got the same id    *)
(* while the answer travelled.  next_hint is what ensures it.               *)
Undelivered(g, i) ==
    \/ \E k \in DOMAIN ctl[g] : ctl[g][k].t = "incoming" /\ ctl[g][k].id = i
    \/ \E h \in Gens : \E k \in DOMAIN todo[Reader(h)] :
          LET s == todo[Reader(h)][k] IN s.op = "invite" /\ s.gen = g /\ s.msg.id = i

AnswersMatch ==
    \A g \in Gens : \A k \in DOMAIN up[g] :
        up[g][k].t \in {"accept", "reject"} /\ pin[g][up[g][k].id] # NoEnd
            => ~Undelivered(g, up[g][k].id)

(* A tunnel the relay no longer holds does not stay in the client's map:    *)
(* `closed` removes it, and if `closed` overtook `opened` or `incoming`,    *)
(* the handshake over the dead tunnel fails and the bridge ends.            *)
GhostsVanish ==
    ClientFairness =>
        \A g \in Gens, i \in Ids :
            tunnels[g][i] # NoTunnel /\ est[g][i] = NoEnd
                ~> tunnels[g][i] = NoTunnel \/ est[g][i] # NoEnd
=============================================================================
