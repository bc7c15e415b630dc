---------------------------- MODULE RelayMailbox ----------------------------
(***************************************************************************)
(* The offline mailbox, end to end: the two tables of relay/src/mailbox.rs *)
(* (one database thread, so a job is one step), the handlers that use them *)
(* in relay/src/ws.rs, the mail queue of a client's session                *)
(* (src-tauri/src/cloud/mailbox.rs) and the renderer that drains, handles  *)
(* and acknowledges mail (renderer/app/hooks/usePeerEvents.js).            *)
(*                                                                         *)
(* All mail goes to the devices of one recipient.  A mail stands for its   *)
(* (sender, id) pair; ids are UUIDs, so two mails never share one.  Bodies *)
(* are encrypted and opaque.  Whether the handler can take a mail now (it  *)
(* needs the E2EE session of the sender) is nondeterministic.              *)
(***************************************************************************)
EXTENDS Naturals, Sequences, FiniteSets, SequencesExt

CONSTANTS
    Mails, Devices,
    Sender,          \* the sender of a mail
    MailPerRecipient, MailPerPair, ControlCap,
    MaxPosts,        \* bound on `post` requests, first ones and retries
    MaxRuns,         \* bound on drainCloudMail calls that run at the same time
    MaxFaults        \* bound on crashes, restarts and lost connections

\* Instance for TLC: the mails of one sender to one recipient.
OneSender == [m \in Mails |-> "sender"]

ASSUME MailboxAssumption ==
    /\ MailPerRecipient \in Nat /\ MailPerPair \in Nat
    /\ ControlCap \in Nat \ {0} /\ MaxPosts \in Nat /\ MaxRuns \in Nat \ {0} /\ MaxFaults \in Nat
    /\ "ready" \notin Mails

VARIABLES
    ids,     \* table mail_ids, in the order of ts
    rows,    \* table mail
    pushed,  \* mails whose row has pushed = 1
    post,    \* progress of handle_post for a mail
    conn,    \* progress of a device's connection at the relay
    kicked,  \* devices whose `cancel` is set
    todo,    \* rows that handle_auth still has to send
    q,       \* control queue of a device's connection
    online,  \* the device's client has seen `ready`
    items, flight,  \* MailQueue
    runs,    \* the drainCloudMail calls that are running
    acks,    \* acknowledged by the renderer, not yet read by the relay
    seen,    \* handled by a device: the message is on its disk
    told,    \* the best status `posted` has answered for a mail
    offered, \* mails that were put into some control queue
    torn,    \* mails whose post was cut off between its two INSERTs
    posts, faults

relay == <<ids, rows, pushed, post, told, offered, torn, posts>>
link == <<conn, kicked, todo, q>>
client == <<online, items, flight, runs, acks, seen>>
vars == <<relay, link, client, faults>>

-----------------------------------------------------------------------------
(* The database jobs.                                                      *)

Posting == [st: {"idle", "stored", "deliver", "answer"}, left: SUBSET Devices, any: BOOLEAN]
NotPosting == [st |-> "idle", left |-> {}, any |-> FALSE]

(* Mutant: a known id is looked up in `mail`, where an ack deletes it.     *)
KnownByRow(m) == m \in rows

(* The lookup in mail_ids with which post_sql starts.                      *)
Known(m) == m \in ToSet(ids)

(* Mutant: a known id counts as delivered.                                 *)
DuplicateDelivered(m) == "delivered"

(* The status post_sql answers for a known id.                             *)
Duplicate(m) == IF m \in rows /\ m \notin pushed THEN "stored" ELSE "delivered"

(* quota_ok (the byte quota is left out: bodies have no size here).        *)
QuotaOk(m) ==
    /\ Cardinality(rows) < MailPerRecipient
    /\ Cardinality({k \in rows : Sender[k] = Sender[m]}) < MailPerPair

(* Mutant: what was pushed to some connection is not listed again.         *)
ListUnpushed == SelectSeq(ids, LAMBDA m : m \in rows \ pushed)

(* list_sql: what waits for the recipient, oldest first.                   *)
List == SelectSeq(ids, LAMBDA m : m \in rows)

Told(m, status) ==
    told' = [told EXCEPT ![m] = IF @ = "delivered" THEN @ ELSE status]

Marked(m) == pushed' = IF m \in rows THEN pushed \cup {m} ELSE pushed

-----------------------------------------------------------------------------
(* Connections.                                                            *)

Registered == {d \in Devices : conn[d] # "off"}
Room(d) == Len(q[d]) < ControlCap

(* The connections of a set of devices end: their queues are dropped, and  *)
(* a handler that still holds one of their senders gets an error from it.  *)
End(D) ==
    /\ conn' = [d \in Devices |-> IF d \in D THEN "off" ELSE conn[d]]
    /\ kicked' = kicked \ D
    /\ todo' = [d \in Devices |-> IF d \in D THEN <<>> ELSE todo[d]]
    /\ q' = [d \in Devices |-> IF d \in D THEN <<>> ELSE q[d]]
    /\ online' = [d \in Devices |-> online[d] /\ d \notin D]
Cut(D) == post' = [m \in Mails |-> [post[m] EXCEPT !.left = @ \ D]]

(* register: from now on live mail reaches the connection.                 *)
Connect(d) ==
    /\ conn[d] = "off"
    /\ conn' = [conn EXCEPT ![d] = "hello"]
    /\ UNCHANGED <<relay, kicked, todo, q, client, faults>>

(* handle_auth after register: `ready`, the list, and for every row `mail` *)
(* and mark_pushed.  The reader does nothing else meanwhile.               *)
SendReady(d) ==
    /\ conn[d] = "hello" /\ Room(d)
    /\ q' = [q EXCEPT ![d] = Append(@, "ready")]
    /\ conn' = [conn EXCEPT ![d] = "list"]
    /\ UNCHANGED <<relay, kicked, todo, client, faults>>

ListMail(d) ==
    /\ conn[d] = "list"
    /\ todo' = [todo EXCEPT ![d] = List]
    /\ conn' = [conn EXCEPT ![d] = IF List = <<>> THEN "on" ELSE "send"]
    /\ UNCHANGED <<relay, kicked, q, client, faults>>

SendListed(d) ==
    /\ conn[d] = "send" /\ Room(d)
    /\ q' = [q EXCEPT ![d] = Append(@, Head(todo[d]))]
    /\ offered' = offered \cup {Head(todo[d])}
    /\ conn' = [conn EXCEPT ![d] = "mark"]
    /\ UNCHANGED <<ids, rows, pushed, post, told, torn, posts, kicked, todo, client, faults>>

MarkListed(d) ==
    /\ conn[d] = "mark"
    /\ Marked(Head(todo[d]))
    /\ todo' = [todo EXCEPT ![d] = Tail(@)]
    /\ conn' = [conn EXCEPT ![d] = IF Len(todo[d]) = 1 THEN "on" ELSE "send"]
    /\ UNCHANGED <<ids, rows, post, told, offered, torn, posts, kicked, q, client, faults>>

(* A cancelled connection ends once its reader is back in the select loop. *)
Kick(d) ==
    /\ d \in kicked /\ conn[d] = "on"
    /\ End({d}) /\ Cut({d})
    /\ UNCHANGED <<ids, rows, pushed, told, offered, torn, posts, items, flight, runs, acks, seen, faults>>

-----------------------------------------------------------------------------
(* handle_post.                                                            *)

(* A known id is answered at once, whatever became of the first request.   *)
Repost(m) ==
    /\ posts < MaxPosts /\ Known(m)
    /\ Told(m, Duplicate(m))
    /\ posts' = posts + 1
    /\ UNCHANGED <<ids, rows, pushed, post, offered, torn, link, client, faults>>

OverQuota(m) ==
    /\ posts < MaxPosts /\ ~Known(m) /\ ~QuotaOk(m)
    /\ posts' = posts + 1
    /\ UNCHANGED <<ids, rows, pushed, post, told, offered, torn, link, client, faults>>

(* post_sql, both INSERTs.  A mail that had expired starts anew.           *)
Store(m) ==
    /\ posts < MaxPosts /\ ~Known(m) /\ QuotaOk(m) /\ post[m].st = "idle"
    /\ ids' = Append(ids, m) /\ rows' = rows \cup {m} /\ pushed' = pushed \ {m}
    /\ post' = [post EXCEPT ![m] = [NotPosting EXCEPT !.st = "stored"]]
    /\ told' = [told EXCEPT ![m] = "none"]
    /\ posts' = posts + 1
    /\ UNCHANGED <<offered, torn, link, client, faults>>

(* deliver_control: the targets, under the lock of the hub ...             *)
Targets(m) ==
    /\ post[m].st = "stored"
    /\ post' = [post EXCEPT ![m].st = "deliver", ![m].left = Registered]
    /\ UNCHANGED <<ids, rows, pushed, told, offered, torn, posts, link, client, faults>>

(* ... then, without it, send_ctl_wait for each of them.                   *)
Deliver(m, d) ==
    /\ post[m].st = "deliver" /\ d \in post[m].left /\ Room(d)
    /\ q' = [q EXCEPT ![d] = Append(@, m)]
    /\ offered' = offered \cup {m}
    /\ post' = [post EXCEPT ![m].left = @ \ {d}, ![m].any = TRUE]
    /\ UNCHANGED <<ids, rows, pushed, told, torn, posts, conn, kicked, todo, client, faults>>

DeliverTimeout(m, d) ==
    /\ post[m].st = "deliver" /\ d \in post[m].left /\ ~Room(d)
    /\ kicked' = kicked \cup {d}
    /\ post' = [post EXCEPT ![m].left = @ \ {d}]
    /\ UNCHANGED <<ids, rows, pushed, told, offered, torn, posts, conn, todo, q, client, faults>>

MarkDelivered(m) ==
    /\ post[m].st = "deliver" /\ post[m].left = {} /\ post[m].any
    /\ Marked(m)
    /\ post' = [post EXCEPT ![m].st = "answer"]
    /\ UNCHANGED <<ids, rows, told, offered, torn, posts, link, client, faults>>

Answer(m) ==
    /\ \/ post[m].st = "answer"
       \/ post[m].st = "deliver" /\ post[m].left = {} /\ ~post[m].any
    /\ Told(m, IF post[m].any THEN "delivered" ELSE "stored")
    /\ post' = [post EXCEPT ![m] = NotPosting]
    /\ UNCHANGED <<ids, rows, pushed, offered, torn, posts, link, client, faults>>

(* The hourly Job::Cleanup: mail older than the retention time goes, in    *)
(* both tables.  No handler runs for 30 days.                              *)
Cleanup(n) ==
    /\ \A k \in 1 .. n : post[ids[k]].st = "idle"
    /\ LET old == ToSet(SubSeq(ids, 1, n)) IN
         /\ ids' = SubSeq(ids, n + 1, Len(ids))
         /\ rows' = rows \ old /\ pushed' = pushed \ old
         /\ told' = [m \in Mails |-> IF m \in old THEN "none" ELSE told[m]]
         /\ torn' = torn \ old
    /\ UNCHANGED <<post, offered, posts, link, client, faults>>

-----------------------------------------------------------------------------
(* The client: MailQueue and drainCloudMail.                               *)

(* run_session up to the select loop: the first message must be `ready`,   *)
(* anything else ends the session.                                         *)
ClientReady(d) ==
    /\ q[d] # <<>> /\ ~online[d] /\ Head(q[d]) = "ready"
    /\ online' = [online EXCEPT ![d] = TRUE]
    /\ flight' = [flight EXCEPT ![d] = {}]
    /\ q' = [q EXCEPT ![d] = Tail(@)]
    /\ UNCHANGED <<relay, conn, kicked, todo, items, runs, acks, seen, faults>>

ClientGivesUp(d) ==
    /\ q[d] # <<>> /\ ~online[d] /\ Head(q[d]) # "ready"
    /\ End({d}) /\ Cut({d})
    /\ UNCHANGED <<ids, rows, pushed, told, offered, torn, posts, items, flight, runs, acks, seen, faults>>

(* handle_mail: MailQueue::push.                                           *)
HandleMail(d) ==
    /\ q[d] # <<>> /\ online[d]
    /\ items' = [items EXCEPT ![d] = IF Head(q[d]) \in flight[d] THEN @ ELSE @ \cup {Head(q[d])}]
    /\ q' = [q EXCEPT ![d] = Tail(@)]
    /\ UNCHANGED <<relay, conn, kicked, todo, online, flight, runs, acks, seen, faults>>

(* MailQueue::drain, for a new call of drainCloudMail.                     *)
Drain(d) ==
    /\ items[d] # {} /\ Len(runs[d]) < MaxRuns
    /\ runs' = [runs EXCEPT ![d] = Append(@, [todo |-> items[d], done |-> {}])]
    /\ flight' = [flight EXCEPT ![d] = @ \cup items[d]]
    /\ items' = [items EXCEPT ![d] = {}]
    /\ UNCHANGED <<relay, link, online, acks, seen, faults>>

(* handlePeerMessage took the mail: it is on disk before the call returns. *)
Take(d, i, m) ==
    /\ m \in runs[d][i].todo
    /\ seen' = [seen EXCEPT ![d] = @ \cup {m}]
    /\ runs' = [runs EXCEPT ![d][i] = [todo |-> @.todo \ {m}, done |-> @.done \cup {m}]]
    /\ UNCHANGED <<relay, link, online, items, flight, acks, faults>>

(* It returned false or threw: the mail stays in flight, unacknowledged.   *)
Hold(d, i, m) ==
    /\ m \in runs[d][i].todo
    /\ runs' = [runs EXCEPT ![d][i].todo = @ \ {m}]
    /\ UNCHANGED <<relay, link, online, items, flight, acks, seen, faults>>

(* Mutant: everything in flight is acknowledged.                           *)
AckInFlight(d, i) ==
    /\ runs[d][i].todo = {}
    /\ items' = [items EXCEPT ![d] = @ \ runs[d][i].done]
    /\ flight' = [flight EXCEPT ![d] = {}]
    /\ acks' = [acks EXCEPT ![d] = @ \cup flight[d]]
    /\ runs' = [runs EXCEPT ![d] = RemoveAt(@, i)]
    /\ UNCHANGED <<relay, link, online, seen, faults>>

(* ackMail: MailQueue::ack and ConnCmd::Ack, for the mails taken.          *)
AckMail(d, i) ==
    /\ runs[d][i].todo = {}
    /\ items' = [items EXCEPT ![d] = @ \ runs[d][i].done]
    /\ flight' = [flight EXCEPT ![d] = @ \ runs[d][i].done]
    /\ acks' = [acks EXCEPT ![d] = @ \cup runs[d][i].done]
    /\ runs' = [runs EXCEPT ![d] = RemoveAt(@, i)]
    /\ UNCHANGED <<relay, link, online, seen, faults>>

(* The relay reads the `ack`: ack_sql.                                     *)
Ack(d, m) ==
    /\ m \in acks[d] /\ conn[d] = "on" /\ online[d]
    /\ acks' = [acks EXCEPT ![d] = @ \ {m}]
    /\ rows' = rows \ {m} /\ pushed' = pushed \ {m}
    /\ UNCHANGED <<ids, post, told, offered, torn, posts, link, online, items, flight, runs, seen, faults>>

(* The command queue was full, the client offline, the relay's rate limit  *)
(* reached or the socket lost: the ack is gone.                            *)
AckLost(d, m) ==
    /\ m \in acks[d]
    /\ acks' = [acks EXCEPT ![d] = @ \ {m}]
    /\ UNCHANGED <<relay, link, online, items, flight, runs, seen, faults>>

-----------------------------------------------------------------------------
(* Faults.                                                                 *)

Fault == faults < MaxFaults /\ faults' = faults + 1

Disconnect(d) ==
    /\ Fault /\ conn[d] # "off" /\ End({d}) /\ Cut({d})
    /\ UNCHANGED <<ids, rows, pushed, told, offered, torn, posts, items, flight, runs, acks, seen>>

(* The renderer restarts: its drainCloudMail calls are gone.               *)
Reload(d) ==
    /\ Fault /\ runs[d] # <<>>
    /\ runs' = [runs EXCEPT ![d] = <<>>]
    /\ UNCHANGED <<relay, link, online, items, flight, acks, seen>>

(* The app restarts: only its disk survives.                               *)
AppRestart(d) ==
    /\ Fault /\ End({d}) /\ Cut({d})
    /\ items' = [items EXCEPT ![d] = {}]
    /\ flight' = [flight EXCEPT ![d] = {}]
    /\ runs' = [runs EXCEPT ![d] = <<>>]
    /\ acks' = [acks EXCEPT ![d] = {}]
    /\ UNCHANGED <<ids, rows, pushed, told, offered, torn, posts, seen>>

(* The relay restarts: its database survives, handlers and connections not.*)
Crash ==
    /\ Fault /\ End(Devices)
    /\ post' = [m \in Mails |-> NotPosting]
    /\ UNCHANGED <<ids, rows, pushed, told, offered, torn, posts, items, flight, runs, acks, seen>>

(* ... and does so between the two INSERTs of post_sql, which are two      *)
(* transactions.                                                           *)
CrashInPost(m) ==
    /\ Fault /\ End(Devices)
    /\ posts < MaxPosts /\ ~Known(m) /\ QuotaOk(m) /\ post[m].st = "idle"
    /\ ids' = Append(ids, m) /\ torn' = torn \cup {m}
    /\ told' = [told EXCEPT ![m] = "none"]
    /\ posts' = posts + 1
    /\ post' = [k \in Mails |-> NotPosting]
    /\ UNCHANGED <<rows, pushed, offered, items, flight, runs, acks, seen>>

-----------------------------------------------------------------------------
Init ==
    /\ ids = <<>> /\ rows = {} /\ pushed = {} /\ offered = {} /\ torn = {}
    /\ post = [m \in Mails |-> NotPosting] /\ told = [m \in Mails |-> "none"]
    /\ conn = [d \in Devices |-> "off"] /\ kicked = {}
    /\ todo = [d \in Devices |-> <<>>] /\ q = [d \in Devices |-> <<>>]
    /\ online = [d \in Devices |-> FALSE]
    /\ items = [d \in Devices |-> {}] /\ flight = [d \in Devices |-> {}]
    /\ runs = [d \in Devices |-> <<>>] /\ acks = [d \in Devices |-> {}]
    /\ seen = [d \in Devices |-> {}]
    /\ posts = 0 /\ faults = 0

RelayStep ==
    \/ \E d \in Devices : SendReady(d) \/ ListMail(d) \/ SendListed(d) \/ MarkListed(d) \/ Kick(d)
    \/ \E m \in Mails : Targets(m) \/ MarkDelivered(m) \/ Answer(m)
    \/ \E m \in Mails, d \in Devices : Deliver(m, d) \/ DeliverTimeout(m, d)

ClientStep(d) ==
    \/ ClientReady(d) \/ ClientGivesUp(d) \/ HandleMail(d) \/ Drain(d)
    \/ \E i \in DOMAIN runs[d] :
         AckMail(d, i) \/ \E m \in runs[d][i].todo : Take(d, i, m) \/ Hold(d, i, m)

Request == \E m \in Mails : Repost(m) \/ OverQuota(m) \/ Store(m)

Faulty ==
    \/ Crash \/ \E m \in Mails : CrashInPost(m)
    \/ \E d \in Devices : Disconnect(d) \/ Reload(d) \/ AppRestart(d)

Next ==
    \/ Request \/ RelayStep \/ Faulty
    \/ \E n \in 1 .. Len(ids) : Cleanup(n)
    \/ \E d \in Devices : Connect(d) \/ ClientStep(d) \/ \E m \in Mails : Ack(d, m) \/ AckLost(d, m)

(* The relay's tasks and the clients run; a client that is offline comes   *)
(* back (the reconnect loop with its backoff).  Nothing is assumed of      *)
(* posts, acks, the cleanup job and faults.                                *)
Fairness ==
    /\ WF_vars(RelayStep)
    /\ \A d \in Devices : WF_vars(Connect(d)) /\ WF_vars(ClientStep(d))

Spec == Init /\ [][Next]_vars /\ Fairness

-----------------------------------------------------------------------------

SeenSomewhere(m) == \E d \in Devices : m \in seen[d]

(* A mail the relay answered with `posted` is not lost: until retention    *)
(* ends it is in the database or on the disk of a recipient's device,      *)
(* through crashes, restarts, lost acks and retries (post_sql, ack_sql,    *)
(* drainCloudMail), unless the relay died between the INSERTs of its post. *)
PostedKept ==
    \A m \in Mails : told[m] # "none" => m \in rows \/ SeenSomewhere(m) \/ m \in torn

(* PROTOCOL.md: every post is stored until the recipient acknowledges it.  *)
(* The same for every mail, the torn ones too.                             *)
EveryPostKept ==
    \A m \in Mails : told[m] # "none" => m \in rows \/ SeenSomewhere(m)

(* `delivered` means that the mail went to an active connection (handle_   *)
(* post, and the Duplicate answer derived from `pushed`).                  *)
DeliveredHonest ==
    \A m \in Mails : told[m] = "delivered" => m \in offered \/ m \in torn

(* An acknowledged mail is not stored again: a retry of its post that      *)
(* arrives after the ack finds the id in mail_ids.                         *)
AckedStaysGone ==
    [][\A m \in ToSet(ids) \ rows : m \in ToSet(ids') => m \notin rows']_vars

(* The mail is in flight at a client that is done with it for this         *)
(* session: its handler held the mail back, or its renderer restarted.     *)
Held(m) == \E d \in Devices :
    m \in flight[d] /\ \A i \in DOMAIN runs[d] : m \notin runs[d][i].todo \cup runs[d][i].done

(* A stored mail does not wait at the relay for ever: it is handled, it    *)
(* expires, or a client holds it back (ws.rs handle_auth and handle_post,  *)
(* drainCloudMail).                                                        *)
MailArrives ==
    \A m \in Mails : m \in rows ~> (m \notin rows \/ SeenSomewhere(m) \/ Held(m))
=============================================================================
