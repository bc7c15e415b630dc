---------------------------- MODULE CallSignals ----------------------------
(***************************************************************************)
(* Calls: the state machine of callState.js (reduceCall), as CallManager   *)
(* drives it on every device, with callDevices.js.  A peer may have        *)
(* several devices; an offer and a signal without a device key go to all   *)
(* of them.  Wires between two devices arrive in order; a connection that  *)
(* breaks takes them along.                                                *)
(*                                                                         *)
(* call.dev[d]: phase, id, peer, rdev (the device the call is bound to),   *)
(* ring and busy (devices of the peer), the timers that are armed (ringT,  *)
(* watch), the tone that plays, accepting and starting (acceptAsync and    *)
(* startCall are at an await) and failed (the offer could not be sent).    *)
(* call.cut (a connection broke) is a history variable.                    *)
(***************************************************************************)
EXTENDS Integers, Sequences, FiniteSets

CONSTANTS Devices, Owner, None,   \* Owner: the peer each device belongs to
          Ids,                    \* bound: call ids, each used once; ordered as the strings are
          MaxWire, MaxCuts        \* bounds: wires under way from device to device, breaks

VARIABLE call

DevicesOf(p) == {d \in Devices : Owner[d] = p}
OthersOf(d) == {e \in Devices : Owner[e] # Owner[d]}
createIdleCallState == [phase |-> "idle", role |-> None, id |-> None, peer |-> None, rdev |-> None, ring |-> {}, busy |-> {},
                        ringT |-> FALSE, watch |-> FALSE, tone |-> None]
Quit == createIdleCallState    \* idleWith and clear-timers, which stops the tones
With(v, w) == [x \in DOMAIN v |-> IF x \in DOMAIN w THEN w[x] ELSE v[x]]
Put(s, d, w) == [s EXCEPT !.dev[d] = With(@, w)]

(* sendSignal: to one device, or to every device of the peer.              *)
Send(s, d, E, m) ==
    [s EXCEPT !.wire = [f \in DOMAIN @ |-> IF f[1] = d /\ f[2] \in E /\ f \notin s.down THEN Append(@[f], m) ELSE @[f]]]
Signal(op, id) == [op |-> op, id |-> id, why |-> None]
sendSignal(s, d, v, op) == Send(s, d, IF v.rdev # None THEN {v.rdev} ELSE DevicesOf(v.peer), Signal(op, v.id))

(* Mutant: a signal of an earlier call with the same peer is taken.        *)
sameCallOfPeer(v, e, m) == v.phase # "idle" /\ v.peer = Owner[e]
sameCall(v, e, m) == v.phase # "idle" /\ m.id = v.id /\ v.peer = Owner[e]

(***************************************************************************)
(* What the other side says: reduceRemote... for wire m of device e at d.  *)
(***************************************************************************)
Incoming(e, m) == With(createIdleCallState, [phase |-> "incoming", role |-> "callee", id |-> m.id, peer |-> Owner[e], rdev |-> e,
                                             ringT |-> TRUE, tone |-> "ringtone"])
beginIncoming(s, d, e, m) == Send(Put(s, d, Incoming(e, m)), d, {e}, Signal("ringing", m.id))

reduceGlare(s, d, e, m) ==
    LET v == s.dev[d]
    IN  IF m.id > v.id THEN s ELSE beginIncoming(sendSignal(s, d, v, "cancel"), d, e, m)
reduceRemoteOffer(s, d, e, m) ==
    LET v == s.dev[d]
    IN  IF v.phase = "outgoing" /\ v.peer = Owner[e] THEN reduceGlare(s, d, e, m)
        ELSE IF v.phase # "idle" THEN Send(s, d, {e}, Signal("busy", m.id))
        ELSE beginIncoming(s, d, e, m)
reduceRemoteRinging(s, d, e, m) == Put(s, d, [ring |-> s.dev[d].ring \cup {e}])
cancelOtherDevices(s, d, e) ==
    LET v == s.dev[d]
        m == [op |-> "cancel", id |-> v.id, why |-> "answered-elsewhere"]
    IN  Send(s, d, IF v.ring \ {e} # {} THEN v.ring \ {e} ELSE DevicesOf(v.peer), m)
reduceRemoteAccept(s, d, e, m) ==
    cancelOtherDevices(Put(s, d, [phase |-> "active", rdev |-> e, watch |-> TRUE, tone |-> None]), d, e)
reduceRemoteCancel(s, d, e, m) ==
    IF m.why # None /\ s.dev[d].phase # "incoming" THEN s ELSE Put(s, d, Quit)
reduceRemoteBusy(s, d, e, m) ==
    LET v == s.dev[d]
    IN  IF v.ring # {} /\ v.ring \subseteq v.busy \cup {e} THEN Put(s, d, Quit)
        ELSE Put(s, d, [busy |-> v.busy \cup {e}])

(* handleInbound and handleSignal: a bound call listens to one device.     *)
handleInbound(s, d, e, m) ==
    LET v == s.dev[d]
        mine == sameCall(v, e, m)
        out == mine /\ v.phase = "outgoing"
    IN  CASE v.rdev # None /\ v.rdev # e -> s
          [] m.op = "offer" -> reduceRemoteOffer(s, d, e, m)
          [] m.op = "ringing" /\ out -> reduceRemoteRinging(s, d, e, m)
          [] m.op = "accept" /\ out -> reduceRemoteAccept(s, d, e, m)
          [] m.op = "reject" /\ out -> Put(s, d, Quit)
          [] m.op = "busy" /\ out -> reduceRemoteBusy(s, d, e, m)
          [] m.op = "cancel" /\ mine -> reduceRemoteCancel(s, d, e, m)
          [] m.op = "end" /\ mine -> Put(s, d, Quit)
          [] OTHER -> s

Receive(e, d) ==
    /\ call.wire[<<e, d>>] # <<>>
    /\ LET m == Head(call.wire[<<e, d>>])
           s == [call EXCEPT !.wire[<<e, d>>] = Tail(@)]
       IN  \/ call' = handleInbound(s, d, e, m)
           \/ m.op = "offer" /\ call' = s    \* isStaleCallOffer, or the contact is blocked

(***************************************************************************)
(* What the user and the timers do.                                        *)
(***************************************************************************)
Room(d) == \A e \in Devices : Len(call.wire[<<d, e>>]) < MaxWire
startCall(d) ==
    /\ call.dev[d].phase = "idle" /\ call.starting[d] = None
    /\ \E e \in OthersOf(d) : call' = [call EXCEPT !.starting[d] = Owner[e]]
(* The awaits of startCall are over: local-start, and sendOffer.           *)
reduceLocalStart(d) ==
    /\ call.starting[d] # None /\ Room(d)
    /\ LET p == call.starting[d]
           s == [call EXCEPT !.starting[d] = None]
       IN  IF call.dev[d].phase # "idle" THEN call' = s
           ELSE \E id \in Ids \ call.used, ok \in BOOLEAN :
                LET t == Put([s EXCEPT !.used = @ \cup {id}, !.failed[d] = IF ok THEN None ELSE id], d,
                             With(createIdleCallState, [phase |-> "outgoing", role |-> "caller", id |-> id, peer |-> p, ringT |-> TRUE,
                                                        tone |-> "ringback"]))
                IN  call' = IF ok THEN Send(t, d, DevicesOf(p), Signal("offer", id)) ELSE t
reduceOfferFailed(d) ==
    /\ call.failed[d] # None
    /\ LET s == [call EXCEPT !.failed[d] = None]
       IN  call' = IF call.dev[d].phase = "outgoing" /\ call.dev[d].id = call.failed[d] THEN Put(s, d, Quit) ELSE s

accept(d) == /\ call.dev[d].phase = "incoming" /\ d \notin call.accepting
             /\ call' = [call EXCEPT !.accepting = @ \cup {d}]
reduceLocalAccept(d) ==
    /\ d \in call.accepting /\ Room(d)
    /\ LET s == [call EXCEPT !.accepting = @ \ {d}]
           v == call.dev[d]
       IN  call' = IF v.phase # "incoming" THEN s
                   ELSE sendSignal(Put(s, d, [phase |-> "active", watch |-> TRUE, tone |-> None]), d, v, "accept")

(* hangup: cancel, reject or end, after the state has become idle.         *)
hangup(d) ==
    LET v == call.dev[d]
    IN  /\ v.phase # "idle" /\ Room(d)
        /\ call' = sendSignal(Put(call, d, Quit), d, v,
                              CASE v.phase = "outgoing" -> "cancel" [] v.phase = "incoming" -> "reject" [] OTHER -> "end")
reduceRingTimeout(d) ==
    LET v == call.dev[d]
        off == Put(call, d, [ringT |-> FALSE])
    IN  /\ v.ringT /\ Room(d)
        /\ call' = CASE v.phase = "outgoing" -> sendSignal(Put(call, d, Quit), d, v, "cancel")
                     [] v.phase = "incoming" -> Put(call, d, Quit)
                     [] OTHER -> off
(* The watchdog: nothing was heard of the device the call is bound to.     *)
Bound(d) == call.dev[d].rdev # None /\ call.dev[call.dev[d].rdev].phase = "active"
            /\ call.dev[call.dev[d].rdev].id = call.dev[d].id /\ call.dev[call.dev[d].rdev].rdev = d
reduceConnectionLost(d) ==
    LET v == call.dev[d]
    IN  /\ v.watch /\ Room(d) /\ ~(Bound(d) /\ call.down \cap {<<d, v.rdev>>} = {})
        /\ call' = sendSignal(Put(call, d, Quit), d, v, "end")

(* A connection breaks or comes back; peers is told, an active call ends   *)
(* by handlePeerDisconnected when no device of the peer is left.           *)
Break(d, e) ==
    LET L == {<<d, e>>, <<e, d>>}
    IN  /\ Cardinality(call.cut) < MaxCuts /\ ~(L \subseteq call.down) /\ Owner[d] # Owner[e]
        /\ call' = [call EXCEPT !.down = @ \cup L, !.cut = @ \cup {L},
                                !.wire = [f \in DOMAIN @ |-> IF f \in L THEN <<>> ELSE @[f]]]
Mend(d, e) == <<d, e>> \in call.down /\ call' = [call EXCEPT !.down = @ \ {<<d, e>>, <<e, d>>}]
(* CallProvider goes away: destroy says nothing to the other side.         *)
destroy(d) ==
    /\ call.dev[d].phase # "idle" /\ Cardinality(call.cut) < MaxCuts
    /\ call' = [Put(call, d, Quit) EXCEPT !.cut = @ \cup {d}, !.accepting = @ \ {d}, !.starting[d] = None, !.failed[d] = None]

Init == call = [dev |-> [d \in Devices |-> createIdleCallState], used |-> {}, accepting |-> {}, down |-> {}, cut |-> {},
                starting |-> [d \in Devices |-> None], failed |-> [d \in Devices |-> None],
                wire |-> [f \in Devices \X Devices |-> <<>>]]
Next == \/ \E d \in Devices : \/ startCall(d) \/ reduceLocalStart(d) \/ reduceOfferFailed(d) \/ accept(d)
                              \/ reduceLocalAccept(d) \/ hangup(d) \/ reduceRingTimeout(d) \/ reduceConnectionLost(d)
                              \/ destroy(d)
        \/ \E d, e \in Devices : Receive(e, d) \/ Break(d, e) \/ Mend(d, e)

(***************************************************************************)
(* Properties.                                                             *)
(***************************************************************************)
(* Whoever called talks to somebody: a caller's active call is active, and *)
(* bound to the caller, on the device that accepted it, whatever crossed   *)
(* on the way: calls in both directions, answers on two devices, time-outs *)
(* and calls given up (with no wire under way and no connection broken).   *)
CallerHeard ==
    \A d, e \in Devices :
        /\ call.dev[d].phase = "active" /\ call.dev[d].role = "caller" /\ call.dev[d].rdev = e /\ call.cut = {}
        /\ call.wire[<<d, e>>] = <<>> /\ call.wire[<<e, d>>] = <<>>
        => call.dev[e].phase = "active" /\ call.dev[e].id = call.dev[d].id /\ call.dev[e].rdev = d

(* Nobody rings or waits for ever: whenever a device is ringing its ring   *)
(* timer is armed, whenever it is talking its watchdog is; and it plays    *)
(* the ring tone only while it rings, the dial tone only while it dials.   *)
CallSupervised ==
    \A d \in Devices :
        LET v == call.dev[d]
        IN  /\ v.phase \in {"outgoing", "incoming"} => v.ringT
            /\ v.phase = "active" => v.watch
            /\ v.tone # None => v.phase = IF v.tone = "ringtone" THEN "incoming" ELSE "outgoing"
=============================================================================
