---------------------------- MODULE ChatDelivery ----------------------------
(***************************************************************************)
(* Delivery of text messages from one contact (A) to another (B):          *)
(* useMessaging at A, peerMessageHandler and drainCloudMail at B.          *)
(*                                                                         *)
(* chat.msg[m] is A's message: its deliveryStatus, whether it has a        *)
(* delivery timer, and where the asynchronous send (task) or the retry is. *)
(* The E2EE session is E2eeSession's; here A has one or not (session), and *)
(* B can read a message or must hold it.  box is the relay's mailbox of B, *)
(* reading the messages B's handler works on: from the wire or the mail.   *)
(***************************************************************************)
EXTENDS Integers, Sequences, FiniteSets

CONSTANTS Ids                           \* messages A may write
CONSTANTS MaxWire, MaxCuts              \* bounds: wires under way, connections lost and restarts
VARIABLE chat

Status(s, m, x) == [s EXCEPT !.msg[m].status = x]
At(s, m, x) == [s EXCEPT !.msg[m].task = x]
Timer(s, m, on) == [s EXCEPT !.msg[m].timer = on]
failScheduled(s, m) == Status(At(s, m, "no"), m, "scheduled")
Put(s, to, kind, m) == IF s.conn THEN [s EXCEPT !.wire[to] = Append(@, [kind |-> kind, m |-> m])] ELSE s
Room == \A p \in {"A", "B"} : Len(chat.wire[p]) < MaxWire

(* sendMessage: shown as pending; without a session it asks for one and    *)
(* waits up to 8 s.                                                        *)
sendMessage(m) ==
    /\ chat.msg[m].status = "new" /\ ~chat.blockedByPeer
    /\ chat' = At(Status(chat, m, "pending"), m, IF chat.session THEN "deliver" ELSE "wait")
waitForE2eeSession(m) ==
    /\ chat.msg[m].task = "wait"
    /\ chat' = IF chat.session THEN At(chat, m, "deliver") ELSE failScheduled(chat, m)

(* deliverPeerPayload for the send or the retry (by) of m: the direct      *)
(* connection, else one made through the relay, else the mailbox, which    *)
(* hands the message to a device of B that is there or keeps it.           *)
deliverPeerPayload(m, by) ==
    LET Outcome(s, x) == [s EXCEPT !.msg[m][by] = x]
        Direct(s) == IF Room THEN {Outcome(Put([s EXCEPT !.conn = TRUE], "B", "msg", m), "direct")} ELSE {}
        Posted == {Outcome([chat EXCEPT !.box = @ \cup {m}], x) : x \in {"stored", "delivered"}}
        Failed == {Outcome(chat, "failed")}
    IN  CASE chat.conn -> Direct(chat)
          [] chat.cloud /\ ~chat.conn -> Direct(chat) \cup Posted \cup Failed
          [] OTHER -> Failed
Deliver(m) ==
    /\ chat.msg[m].task = "deliver"
    /\ \E s \in deliverPeerPayload(m, "task") :
        chat' = [(IF s.msg[m].task = "failed" THEN failScheduled(s, m) ELSE s) EXCEPT !.msg[m].kept = TRUE]
(* The message is in A's store too (kept): what the outcome means for it.  *)
Sent(m) ==
    LET how == chat.msg[m].task
        s == Timer(At(chat, m, "no"), m, FALSE)
    IN  \/ how = "direct" /\ chat' = Timer(s, m, TRUE)
        \/ how = "stored" /\ chat' = [Status(s, m, "sent") EXCEPT !.msg[m].cloudStored = TRUE]
        \/ how = "delivered" /\ chat' = Status(s, m, "delivered")
TimerFires(m) == chat.msg[m].timer /\ chat' = Status(Timer(chat, m, FALSE), m, "scheduled")

(* The cloud comes online: what is scheduled and not in a mailbox is sent  *)
(* once more, under the session at hand.                                   *)
CloudOnline ==
    /\ ~chat.cloud
    /\ chat' = [chat EXCEPT !.cloud = TRUE, !.msg = [m \in Ids |->
         IF @[m].status = "scheduled" /\ ~@[m].cloudStored /\ @[m].retry = "no" /\ chat.session
         THEN [@[m] EXCEPT !.retry = "deliver"] ELSE @[m]]]
CloudOffline == chat.cloud /\ chat' = [chat EXCEPT !.cloud = FALSE]
Retry(m) ==
    LET how == chat.msg[m].retry
        s == [chat EXCEPT !.msg[m].retry = "no"]
    IN  \/ how = "deliver" /\ chat' \in deliverPeerPayload(m, "retry")
        \/ how = "failed" /\ chat' = s
        \/ how = "direct" /\ chat' = Status(s, m, "pending")
        \/ how = "stored" /\ chat' = [Status(s, m, "sent") EXCEPT !.msg[m].cloudStored = TRUE]
        \/ how = "delivered" /\ chat' = Status(s, m, "delivered")

(* The peer:message handler of B, up to the wait for the session.          *)
ReceiveB ==
    /\ chat.wire["B"] # <<>> /\ Room
    /\ LET m == Head(chat.wire["B"]).m
           s == [chat EXCEPT !.wire["B"] = Tail(@)]
       IN  chat' = IF s.blocked THEN Put([s EXCEPT !.refused = @ \cup {m}], "A", "messaging-blocked", m)
                   ELSE [s EXCEPT !.reading = @ \cup {[m |-> m, mail |-> FALSE]}]
(* drainCloudMail runs the same handler and acknowledges what it handled.  *)
Ack(s, r) == IF r.mail THEN [s EXCEPT !.box = @ \ {r.m}] ELSE s
drainMail(m) ==
    /\ m \in chat.box /\ Room
    /\ LET r == [m |-> m, mail |-> TRUE]
       IN  chat' = IF chat.blocked THEN Put(Ack([chat EXCEPT !.refused = @ \cup {m}], r), "A", "messaging-blocked", m)
                   ELSE [chat EXCEPT !.reading = @ \cup {r}]
(* Decrypted: stored and confirmed, unless it was there; or held, which    *)
(* leaves the mail where it is.                                            *)
(* Mutant: mail that could not be read is acknowledged.                    *)
ReadAcks(r) ==
    /\ Room
    /\ LET s == Ack([chat EXCEPT !.reading = @ \ {r}], r)
       IN  \/ chat' = IF r.m \in s.stored THEN s ELSE Put([s EXCEPT !.stored = @ \cup {r.m}], "A", "delivery-receipt", r.m)
           \/ chat' = s
Read(r) ==
    /\ Room
    /\ LET s == [chat EXCEPT !.reading = @ \ {r}]
           t == Ack(s, r)
       IN  \/ chat' = IF r.m \in s.stored THEN t ELSE Put([t EXCEPT !.stored = @ \cup {r.m}], "A", "delivery-receipt", r.m)
           \/ chat' = s

(* The handler of A: receipts and refusals.                                *)
deliveryReceipt(s, m) ==
    IF s.msg[m].status = "delivered" THEN s ELSE [Status(s, m, "delivered") EXCEPT !.blockedByPeer = FALSE]
ReceiveA ==
    /\ chat.wire["A"] # <<>>
    /\ LET w == Head(chat.wire["A"])
           r == [chat EXCEPT !.wire["A"] = Tail(@)]
           s == Timer(r, w.m, FALSE)
       IN  chat' = CASE w.kind \in {"blocked", "unblocked"} -> [r EXCEPT !.blockedByPeer = w.kind = "blocked"]
                     [] w.kind = "messaging-blocked" -> [Status(s, w.m, "blocked") EXCEPT !.blockedByPeer = TRUE]
                     [] w.kind = "delivery-receipt" -> deliveryReceipt(s, w.m)

(* B blocks A or takes it back, and says so.                               *)
setContactBlocked ==
    /\ Room /\ chat.blocks < MaxCuts
    /\ chat' = Put([chat EXCEPT !.blocked = ~@, !.blocks = @ + 1], "A", IF chat.blocked THEN "unblocked" ELSE "blocked", 0)

(* Connections come and go; the session comes with a handshake and is not  *)
(* ready after either.                                                     *)
Connect == ~chat.conn /\ chat' = [chat EXCEPT !.conn = TRUE, !.session = FALSE]
Handshaken == chat.conn /\ ~chat.session /\ chat' = [chat EXCEPT !.session = TRUE]
Cut(s) == [s EXCEPT !.conn = FALSE, !.session = FALSE, !.wire = [p \in {"A", "B"} |-> <<>>], !.cuts = @ + 1]
Disconnect == chat.conn /\ chat.cuts < MaxCuts /\ chat' = Cut(chat)
(* A's page starts again: timers and sends are gone, and so is a message   *)
(* that never came to the store, having found no session.                  *)
RestartA ==
    /\ chat.cuts < MaxCuts
    /\ chat' = [Cut(chat) EXCEPT !.msg = [m \in Ids |->
         [chat.msg[m] EXCEPT !.status = IF chat.msg[m].kept \/ chat.msg[m].status = "new" THEN chat.msg[m].status ELSE "gone",
                             !.task = "no", !.retry = "no", !.timer = FALSE]]]
RestartB == chat.cuts < MaxCuts /\ chat' = [Cut(chat) EXCEPT !.reading = {}]

Init == chat = [msg |-> [m \in Ids |-> [status |-> "new", task |-> "no", retry |-> "no", timer |-> FALSE, cloudStored |-> FALSE, kept |-> FALSE]],
                wire |-> [p \in {"A", "B"} |-> <<>>], conn |-> TRUE, session |-> TRUE, cloud |-> TRUE, box |-> {},
                reading |-> {}, stored |-> {}, refused |-> {}, blocked |-> FALSE, blockedByPeer |-> FALSE, cuts |-> 0, blocks |-> 0]
Next == \/ CloudOnline \/ CloudOffline \/ ReceiveA \/ ReceiveB \/ setContactBlocked
        \/ Connect \/ Handshaken \/ Disconnect \/ RestartA \/ RestartB
        \/ \E m \in Ids : \/ sendMessage(m) \/ waitForE2eeSession(m) \/ Deliver(m) \/ Sent(m) \/ TimerFires(m)
                          \/ Retry(m) \/ drainMail(m)
        \/ \E r \in chat.reading : Read(r)

(***************************************************************************)
(* Properties.                                                             *)
(***************************************************************************)
(* A message shown as sent or delivered cannot be lost any more: B has     *)
(* stored it, or it lies in B's mailbox until B has, or B has blocked A    *)
(* and refused it.  This is so although connections break, either side     *)
(* starts again, B's handler cannot read every copy, and a message may go  *)
(* by wire and by mail, in both orders.                                    *)
DeliveredKept ==
    \A m \in Ids : chat.msg[m].status \in {"sent", "delivered"} => m \in chat.stored \cup chat.box \cup chat.refused
=============================================================================
