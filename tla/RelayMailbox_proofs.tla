------------------------ MODULE RelayMailbox_proofs ------------------------
(***************************************************************************)
(* No mail is lost and no answer lies, for any number of mails, devices,   *)
(* queue places, quotas, retries, crashes and restarts.                    *)
(***************************************************************************)
EXTENDS RelayMailbox, SequenceTheorems, TLAPS

(***************************************************************************)
(* The inductive invariant.                                                *)
(***************************************************************************)
Answers == {"none", "stored", "delivered"}

(* What a client may hold came out of a control queue.                     *)
Sendable == offered \cup {"ready"}
Run(d) == [todo: SUBSET Sendable, done: SUBSET seen[d]]

RelayTypes ==
    /\ ids \in Seq(Mails)
    /\ rows \in SUBSET Mails
    /\ post \in [Mails -> Posting]
    /\ told \in [Mails -> Answers]
    /\ conn \in [Devices -> {"off", "hello", "list", "send", "mark", "on"}]
    /\ DOMAIN todo = Devices /\ todo = [d \in Devices |-> todo[d]]

ClientTypes ==
    /\ q \in [Devices -> Seq(Sendable)]
    /\ items \in [Devices -> SUBSET Sendable]
    /\ flight \in [Devices -> SUBSET Sendable]
    /\ seen \in [Devices -> SUBSET Sendable]

(* What a client acknowledges, or is about to, is on its disk.             *)
RunsSeen ==
    /\ DOMAIN acks = Devices /\ acks = [d \in Devices |-> acks[d]]
    /\ DOMAIN runs = Devices /\ runs = [d \in Devices |-> runs[d]]
    /\ \A d \in Devices : acks[d] \in SUBSET seen[d] /\ runs[d] \in Seq(Run(d))

(* mail_ids has an id once, and the id of every post that is under way or  *)
(* was answered.                                                           *)
IdsOnce == \A i, j \in DOMAIN ids : ids[i] = ids[j] => i = j
IdsCover == \A m \in Mails : post[m].st # "idle" \/ told[m] # "none" => Known(m)

(* An id whose row is gone was handled by a device, or its post was torn.  *)
IdsKept == \A m \in Mails : Known(m) => m \in rows \/ SeenSomewhere(m) \/ m \in torn

(* Whatever counts as pushed was put into a control queue.                 *)
PushedOffered ==
    /\ pushed \in SUBSET offered
    /\ \A d \in Devices : conn[d] = "mark" => Head(todo[d]) \in offered
    /\ \A m \in Mails : post[m].any => m \in offered

MailInv ==
    /\ RelayTypes /\ ClientTypes /\ RunsSeen
    /\ IdsOnce /\ IdsCover /\ IdsKept
    /\ PushedOffered /\ DeliveredHonest

(***************************************************************************)
(* Sequences.                                                              *)
(***************************************************************************)
LEMMA Widen ==
    ASSUME NEW S, NEW T, S \subseteq T, NEW s \in Seq(S)
    PROVE  s \in Seq(T)
  BY SeqMonotonic

LEMMA AppendSet ==
    ASSUME NEW S, NEW s \in Seq(S), NEW e \in S
    PROVE  /\ Append(s, e) \in Seq(S)
           /\ ToSet(Append(s, e)) = ToSet(s) \cup {e}
<1>1. Append(s, e) \in Seq(S) /\ DOMAIN Append(s, e) = 1 .. Len(s) + 1 /\ DOMAIN s = 1 .. Len(s) /\ Len(s) \in Nat
  BY AppendProperties, LenProperties
<1>2. \A i \in DOMAIN s : Append(s, e)[i] = s[i]
  BY AppendProperties
<1>3. Append(s, e)[Len(s) + 1] = e
  BY AppendProperties
<1> QED
  BY <1>1, <1>2, <1>3 DEF ToSet

LEMMA RemoveAtType ==
    ASSUME NEW S, NEW s \in Seq(S), NEW i \in DOMAIN s
    PROVE  RemoveAt(s, i) \in Seq(S)
<1>1. i \in 1 .. Len(s) /\ Len(s) \in Nat
  BY LenProperties
<1>2. SubSeq(s, 1, i - 1) \in Seq(S)
  BY <1>1, SubSeqProperties
<1>3. SubSeq(s, i + 1, Len(s)) \in Seq(S)
  BY <1>1, SubSeqProperties
<1> QED
  BY <1>2, <1>3, ConcatProperties DEF RemoveAt

(***************************************************************************)
(* What End, Cut and the updates of a post keep.                           *)
(***************************************************************************)
LEMMA EndKeeps ==
    ASSUME RelayTypes, ClientTypes, NEW D \in SUBSET Devices, End(D), offered' = offered
    PROVE  /\ conn' \in [Devices -> {"off", "hello", "list", "send", "mark", "on"}]
           /\ DOMAIN todo' = Devices /\ todo' = [d \in Devices |-> todo'[d]]
           /\ q' \in [Devices -> Seq(Sendable')]
           /\ \A d \in Devices : conn'[d] = "mark" => conn[d] = "mark" /\ todo'[d] = todo[d]
<1>1. Sendable' = Sendable
  BY DEF Sendable
<1>2. <<>> \in Seq(Sendable)
  BY EmptySeq
<1>3. q' \in [Devices -> Seq(Sendable)]
  BY <1>2 DEF End, ClientTypes
<1> QED
  BY <1>1, <1>3 DEF End, RelayTypes

LEMMA CutKeeps ==
    ASSUME RelayTypes, NEW D, Cut(D)
    PROVE  /\ post' \in [Mails -> Posting]
           /\ \A m \in Mails : post'[m].st = post[m].st /\ post'[m].any = post[m].any
  BY DEF Cut, RelayTypes, Posting

LEMMA PostingRecords ==
    ASSUME NEW p \in Posting
    PROVE  /\ [p EXCEPT !.st = "answer"] \in Posting
           /\ \A R \in SUBSET Devices : [p EXCEPT !.st = "deliver", !.left = R] \in Posting
           /\ \A d : [p EXCEPT !.left = @ \ {d}] \in Posting
           /\ \A d : [p EXCEPT !.left = @ \ {d}, !.any = TRUE] \in Posting
           /\ [NotPosting EXCEPT !.st = "stored"] \in Posting /\ NotPosting \in Posting
<1>1. [p EXCEPT !.st = "answer"] \in Posting
  BY DEF Posting
<1>2. \A R \in SUBSET Devices : [p EXCEPT !.st = "deliver", !.left = R] \in Posting
  BY DEF Posting
<1>3. \A d : [p EXCEPT !.left = @ \ {d}] \in Posting
  BY DEF Posting
<1>4. \A d : [p EXCEPT !.left = @ \ {d}, !.any = TRUE] \in Posting
  BY DEF Posting
<1>5. [NotPosting EXCEPT !.st = "stored"] \in Posting /\ NotPosting \in Posting
  BY DEF Posting, NotPosting
<1> QED
  BY <1>1, <1>2, <1>3, <1>4, <1>5


LEMMA AppendOnce ==
    ASSUME RelayTypes, IdsOnce, NEW m \in Mails, ~Known(m), ids' = Append(ids, m)
    PROVE  IdsOnce' /\ ids' \in Seq(Mails) /\ ToSet(ids') = ToSet(ids) \cup {m}
<1>1. ids \in Seq(Mails)
  BY DEF RelayTypes
<1>2. /\ DOMAIN ids' = 1 .. Len(ids) + 1 /\ DOMAIN ids = 1 .. Len(ids) /\ Len(ids) \in Nat
      /\ ids'[Len(ids) + 1] = m
      /\ \A i \in DOMAIN ids : ids'[i] = ids[i]
  BY <1>1, AppendProperties, LenProperties
<1>3. \A i \in DOMAIN ids : ids[i] # m
  BY DEF Known, ToSet
<1>4. IdsOnce'
  BY <1>2, <1>3 DEF IdsOnce
<1> QED
  BY <1>1, <1>4, AppendSet

LEMMA SendableGrows ==
    ASSUME ClientTypes, RunsSeen, offered \subseteq offered', UNCHANGED <<items, flight, seen, acks, runs>>
    PROVE  /\ items' \in [Devices -> SUBSET Sendable'] /\ flight' \in [Devices -> SUBSET Sendable']
           /\ seen' \in [Devices -> SUBSET Sendable'] /\ q \in [Devices -> Seq(Sendable')]
           /\ RunsSeen'
<1>1. Sendable \subseteq Sendable'
  BY DEF Sendable
<1>2. q \in [Devices -> Seq(Sendable')]
  <2>1. \A d \in Devices : q[d] \in Seq(Sendable')
    BY <1>1, Widen DEF ClientTypes
  <2> QED
    BY <2>1 DEF ClientTypes
<1>3. RunsSeen'
  <2>1. \A d \in Devices : Run(d) \subseteq Run(d)'
    BY <1>1 DEF Run
  <2>2. \A d \in Devices : runs[d] \in Seq(Run(d)')
    BY <2>1, Widen DEF RunsSeen
  <2> QED
    BY <2>2 DEF RunsSeen
<1> QED
  BY <1>1, <1>2, <1>3 DEF ClientTypes

(***************************************************************************)
(* A connection ends: a step that ends connections and changes nothing of  *)
(* the database keeps everything but the types of the client's own state.  *)
(***************************************************************************)
LEMMA EndStep ==
    ASSUME MailInv, NEW D \in SUBSET Devices, End(D), Cut(D),
           UNCHANGED <<ids, rows, pushed, told, offered, torn, seen>>
    PROVE  /\ RelayTypes' /\ IdsOnce' /\ IdsCover' /\ IdsKept' /\ PushedOffered' /\ DeliveredHonest'
           /\ q' \in [Devices -> Seq(Sendable')]
<1> USE DEF MailInv
<1>1. RelayTypes'
  BY EndKeeps, CutKeeps DEF RelayTypes
<1>2. IdsCover' /\ IdsKept' /\ IdsOnce'
  BY CutKeeps DEF IdsCover, IdsKept, IdsOnce, Known, SeenSomewhere
<1>3. PushedOffered'
  BY EndKeeps, CutKeeps DEF PushedOffered
<1> QED
  BY <1>1, <1>2, <1>3, EndKeeps DEF DeliveredHonest

LEMMA CutOffStep ==
    ASSUME MailInv, NEW d \in Devices, Kick(d) \/ ClientGivesUp(d) \/ Disconnect(d)
    PROVE  MailInv'
<1>1. End({d}) /\ Cut({d}) /\ UNCHANGED <<ids, rows, pushed, told, offered, torn, items, flight, runs, acks, seen>>
  BY DEF Kick, ClientGivesUp, Disconnect
<1>2. /\ RelayTypes' /\ IdsOnce' /\ IdsCover' /\ IdsKept' /\ PushedOffered' /\ DeliveredHonest'
      /\ q' \in [Devices -> Seq(Sendable')]
  BY <1>1, EndStep
<1>3. ClientTypes' /\ RunsSeen'
  BY <1>1, <1>2, SendableGrows DEF MailInv, ClientTypes
<1> QED
  BY <1>2, <1>3 DEF MailInv

LEMMA AppRestartStep ==
    ASSUME MailInv, NEW d \in Devices, AppRestart(d)
    PROVE  MailInv'
<1>1. End({d}) /\ Cut({d}) /\ UNCHANGED <<ids, rows, pushed, told, offered, torn, seen>>
  BY DEF AppRestart
<1>2. /\ RelayTypes' /\ IdsOnce' /\ IdsCover' /\ IdsKept' /\ PushedOffered' /\ DeliveredHonest'
      /\ q' \in [Devices -> Seq(Sendable')]
  BY <1>1, EndStep
<1>3. ClientTypes'
  BY <1>1, <1>2 DEF MailInv, ClientTypes, AppRestart, Sendable
<1>4. RunsSeen'
  <2>1. \A e \in Devices : Run(e)' = Run(e)
    BY <1>1 DEF Run, Sendable
  <2>2. \A e \in Devices : runs'[e] \in Seq(Run(e))
    BY EmptySeq DEF MailInv, RunsSeen, AppRestart
  <2> QED
    BY <1>1, <2>1, <2>2 DEF MailInv, RunsSeen, AppRestart
<1> QED
  BY <1>2, <1>3, <1>4 DEF MailInv

LEMMA CrashStep ==
    ASSUME MailInv, Crash \/ \E m \in Mails : CrashInPost(m)
    PROVE  MailInv'
<1>1. /\ End(Devices) /\ post' = [k \in Mails |-> NotPosting]
      /\ UNCHANGED <<rows, pushed, offered, items, flight, runs, acks, seen>>
  BY DEF Crash, CrashInPost
<1>2. post' \in [Mails -> Posting] /\ \A k \in Mails : post'[k].st = "idle" /\ ~post'[k].any
  BY <1>1 DEF Posting, NotPosting
<1>3. ClientTypes' /\ RunsSeen' /\ PushedOffered'
  <2>1. q' \in [Devices -> Seq(Sendable')] /\ \A d \in Devices : conn'[d] # "mark"
    BY <1>1, EndKeeps DEF MailInv, End
  <2>2. ClientTypes' /\ RunsSeen'
    BY <1>1, <2>1, SendableGrows DEF MailInv, ClientTypes
  <2> QED
    BY <1>1, <1>2, <2>1, <2>2 DEF MailInv, PushedOffered
<1>4. CASE Crash
  <2>1. RelayTypes'
    BY <1>1, <1>2, <1>4, EndKeeps DEF MailInv, RelayTypes, Crash
  <2>2. IdsOnce' /\ IdsCover' /\ IdsKept' /\ DeliveredHonest'
    BY <1>2, <1>4 DEF MailInv, IdsOnce, IdsCover, IdsKept, DeliveredHonest, Known, SeenSomewhere, Crash
  <2> QED
    BY <1>3, <2>1, <2>2 DEF MailInv
<1>5. ASSUME NEW m \in Mails, CrashInPost(m) PROVE MailInv'
  <2>1. IdsOnce' /\ ids' \in Seq(Mails) /\ ToSet(ids') = ToSet(ids) \cup {m}
    BY <1>5, AppendOnce DEF MailInv, CrashInPost
  <2>2. RelayTypes'
    BY <1>1, <1>2, <1>5, <2>1, EndKeeps DEF MailInv, RelayTypes, CrashInPost, Answers
  <2>3. IdsCover' /\ IdsKept' /\ DeliveredHonest'
    BY <1>2, <1>5, <2>1 DEF MailInv, IdsCover, IdsKept, DeliveredHonest, Known, SeenSomewhere, CrashInPost, RelayTypes
  <2> QED
    BY <1>3, <2>1, <2>2, <2>3 DEF MailInv
<1> QED
  BY <1>4, <1>5


(***************************************************************************)
(* Connections: register, handle_auth.                                     *)
(***************************************************************************)
LEMMA ConnectStep ==
    ASSUME MailInv, NEW d \in Devices, Connect(d) \/ ListMail(d)
    PROVE  MailInv'
<1>1. UNCHANGED <<relay, q, client>>
  BY DEF Connect, ListMail
<1>2. RelayTypes' /\ PushedOffered'
  BY <1>1 DEF MailInv, RelayTypes, PushedOffered, Connect, ListMail, relay
<1>3. ClientTypes' /\ RunsSeen' /\ IdsOnce' /\ IdsCover' /\ IdsKept' /\ DeliveredHonest'
  BY <1>1 DEF MailInv, ClientTypes, RunsSeen, Sendable, Run, IdsOnce, IdsCover, IdsKept, DeliveredHonest,
              Known, SeenSomewhere, relay, client
<1> QED
  BY <1>2, <1>3 DEF MailInv

LEMMA SendReadyStep ==
    ASSUME MailInv, NEW d \in Devices, SendReady(d)
    PROVE  MailInv'
<1>1. UNCHANGED <<relay, todo, client>>
  BY DEF SendReady
<1>2. q' \in [Devices -> Seq(Sendable)]
  <2>1. q[d] \in Seq(Sendable) /\ "ready" \in Sendable
    BY DEF MailInv, ClientTypes, Sendable
  <2>2. Append(q[d], "ready") \in Seq(Sendable)
    BY <2>1, AppendProperties
  <2> QED
    BY <2>2 DEF MailInv, ClientTypes, SendReady
<1>3. RelayTypes' /\ PushedOffered'
  BY <1>1 DEF MailInv, RelayTypes, PushedOffered, SendReady, relay
<1>4. ClientTypes' /\ RunsSeen'
  BY <1>1, <1>2 DEF MailInv, ClientTypes, RunsSeen, Sendable, Run, relay, client
<1>5. IdsOnce' /\ IdsCover' /\ IdsKept' /\ DeliveredHonest'
  BY <1>1 DEF MailInv, IdsOnce, IdsCover, IdsKept, DeliveredHonest, Known, SeenSomewhere, relay, client
<1> QED
  BY <1>3, <1>4, <1>5 DEF MailInv

LEMMA SendListedStep ==
    ASSUME MailInv, NEW d \in Devices, SendListed(d)
    PROVE  MailInv'
<1>1. /\ UNCHANGED <<ids, rows, pushed, post, told, torn, todo, client>>
      /\ offered' = offered \cup {Head(todo[d])}
  BY DEF SendListed
<1>2. RelayTypes' /\ PushedOffered'
  BY <1>1 DEF MailInv, RelayTypes, PushedOffered, SendListed
<1>3. ClientTypes' /\ RunsSeen'
  <2>1. /\ items' \in [Devices -> SUBSET Sendable'] /\ flight' \in [Devices -> SUBSET Sendable']
        /\ seen' \in [Devices -> SUBSET Sendable'] /\ q \in [Devices -> Seq(Sendable')]
        /\ RunsSeen'
    BY <1>1, SendableGrows DEF MailInv, client
  <2>2. Head(todo[d]) \in Sendable'
    BY <1>1 DEF Sendable
  <2>3. Append(q[d], Head(todo[d])) \in Seq(Sendable')
    BY <2>1, <2>2, AppendProperties
  <2>4. q' \in [Devices -> Seq(Sendable')]
    BY <2>1, <2>3 DEF SendListed
  <2> QED
    BY <2>1, <2>4 DEF ClientTypes
<1>4. IdsOnce' /\ IdsCover' /\ IdsKept' /\ DeliveredHonest'
  BY <1>1 DEF MailInv, IdsOnce, IdsCover, IdsKept, DeliveredHonest, Known, SeenSomewhere, client
<1> QED
  BY <1>2, <1>3, <1>4 DEF MailInv

LEMMA MarkListedStep ==
    ASSUME MailInv, NEW d \in Devices, MarkListed(d)
    PROVE  MailInv'
<1>1. UNCHANGED <<ids, rows, post, told, offered, torn, q, client>>
  BY DEF MarkListed
<1>2. RelayTypes' /\ PushedOffered'
  BY <1>1 DEF MailInv, RelayTypes, PushedOffered, MarkListed, Marked
<1>3. ClientTypes' /\ RunsSeen' /\ IdsOnce' /\ IdsCover' /\ IdsKept' /\ DeliveredHonest'
  BY <1>1 DEF MailInv, ClientTypes, RunsSeen, Sendable, Run, IdsOnce, IdsCover, IdsKept, DeliveredHonest,
              Known, SeenSomewhere, client
<1> QED
  BY <1>2, <1>3 DEF MailInv

(***************************************************************************)
(* handle_post.                                                            *)
(***************************************************************************)
LEMMA RepostStep ==
    ASSUME MailInv, NEW m \in Mails, Repost(m) \/ OverQuota(m)
    PROVE  MailInv'
<1>1. UNCHANGED <<ids, rows, pushed, post, offered, torn, link, client>>
  BY DEF Repost, OverQuota
<1>2. \/ told' = told
      \/ Known(m) /\ told' = [told EXCEPT ![m] = IF @ = "delivered" THEN @ ELSE Duplicate(m)]
  BY DEF Repost, OverQuota, Told
<1>3. Duplicate(m) \in Answers
  BY DEF Duplicate, Answers
<1>4. RelayTypes' /\ IdsCover'
  BY <1>1, <1>2, <1>3 DEF MailInv, RelayTypes, IdsCover, Known, link
<1>5. DeliveredHonest'
  <2>1. Known(m) /\ Duplicate(m) = "delivered" => m \in offered \/ m \in torn
    BY MailboxAssumption DEF MailInv, ClientTypes, IdsKept, PushedOffered, Sendable, SeenSomewhere, Duplicate
  <2> QED
    BY <1>1, <1>2, <1>3, <2>1 DEF MailInv, RelayTypes, DeliveredHonest
<1>6. ClientTypes' /\ RunsSeen' /\ IdsOnce' /\ IdsKept' /\ PushedOffered'
  BY <1>1 DEF MailInv, ClientTypes, RunsSeen, Sendable, Run, IdsOnce, IdsKept, PushedOffered,
              Known, SeenSomewhere, link, client
<1> QED
  BY <1>4, <1>5, <1>6 DEF MailInv

LEMMA StoreStep ==
    ASSUME MailInv, NEW m \in Mails, Store(m)
    PROVE  MailInv'
<1>1. /\ UNCHANGED <<offered, torn, link, client>>
      /\ rows' = rows \cup {m} /\ pushed' = pushed \ {m} /\ told' = [told EXCEPT ![m] = "none"]
      /\ post' = [post EXCEPT ![m] = [NotPosting EXCEPT !.st = "stored"]]
  BY DEF Store
<1>2. IdsOnce' /\ ids' \in Seq(Mails) /\ ToSet(ids') = ToSet(ids) \cup {m}
  BY AppendOnce DEF MailInv, Store
<1>3. post' \in [Mails -> Posting] /\ ~post'[m].any
  BY <1>1, PostingRecords DEF MailInv, RelayTypes, NotPosting
<1>4. RelayTypes' /\ IdsCover' /\ IdsKept'
  BY <1>1, <1>2, <1>3 DEF MailInv, RelayTypes, IdsCover, IdsKept, Known, SeenSomewhere, Answers, link, client
<1>5. PushedOffered' /\ DeliveredHonest'
  BY <1>1, <1>3 DEF MailInv, RelayTypes, PushedOffered, DeliveredHonest, link
<1>6. ClientTypes' /\ RunsSeen'
  BY <1>1 DEF MailInv, ClientTypes, RunsSeen, Sendable, Run, link, client
<1> QED
  BY <1>2, <1>4, <1>5, <1>6 DEF MailInv

LEMMA TargetsStep ==
    ASSUME MailInv, NEW m \in Mails, Targets(m) \/ MarkDelivered(m)
    PROVE  MailInv'
<1>1. UNCHANGED <<ids, rows, told, offered, torn, link, client>>
  BY DEF Targets, MarkDelivered
<1>2. /\ post' \in [Mails -> Posting] /\ post[m].st # "idle"
      /\ \A k \in Mails : post'[k].any = post[k].any /\ (k # m => post'[k] = post[k])
  <2>1. post \in [Mails -> Posting] /\ Registered \in SUBSET Devices
    BY DEF MailInv, RelayTypes, Registered
  <2>2. CASE Targets(m)
    <3> DEFINE p == [post[m] EXCEPT !.st = "deliver", !.left = Registered]
    <3>1. p \in Posting /\ p.any = post[m].any
      <4>1. p \in Posting
        BY <2>1, PostingRecords
      <4>2. p.any = post[m].any
        BY <2>1 DEF Posting
      <4> QED
        BY <4>1, <4>2
    <3>2. post' = [post EXCEPT ![m] = p] /\ post[m].st # "idle"
      BY <2>1, <2>2 DEF Targets
    <3> HIDE DEF p
    <3> QED
      BY <2>1, <3>1, <3>2
  <2>3. CASE MarkDelivered(m)
    <3> DEFINE p == [post[m] EXCEPT !.st = "answer"]
    <3>1. p \in Posting /\ p.any = post[m].any
      <4>1. p \in Posting
        BY <2>1, PostingRecords
      <4>2. p.any = post[m].any
        BY <2>1 DEF Posting
      <4> QED
        BY <4>1, <4>2
    <3>2. post' = [post EXCEPT ![m] = p] /\ post[m].st # "idle"
      BY <2>1, <2>3 DEF MarkDelivered
    <3> HIDE DEF p
    <3> QED
      BY <2>1, <3>1, <3>2
  <2> QED
    BY <2>2, <2>3
<1>3. RelayTypes' /\ IdsCover'
  BY <1>1, <1>2 DEF MailInv, RelayTypes, IdsCover, Known, link
<1>4. PushedOffered'
  BY <1>1, <1>2 DEF MailInv, PushedOffered, Targets, MarkDelivered, Marked, link
<1>5. ClientTypes' /\ RunsSeen' /\ IdsOnce' /\ IdsKept' /\ DeliveredHonest'
  BY <1>1 DEF MailInv, ClientTypes, RunsSeen, Sendable, Run, IdsOnce, IdsKept, DeliveredHonest,
              Known, SeenSomewhere, link, client
<1> QED
  BY <1>3, <1>4, <1>5 DEF MailInv

LEMMA DeliverStep ==
    ASSUME MailInv, NEW m \in Mails, NEW d \in Devices, Deliver(m, d)
    PROVE  MailInv'
<1>1. UNCHANGED <<ids, rows, pushed, told, torn, conn, todo, client>> /\ offered' = offered \cup {m}
  BY DEF Deliver
<1>2. /\ post' \in [Mails -> Posting] /\ post[m].st # "idle"
      /\ \A k \in Mails : k # m => post'[k] = post[k]
  BY PostingRecords DEF MailInv, RelayTypes, Deliver
<1>3. RelayTypes' /\ IdsCover' /\ PushedOffered'
  BY <1>1, <1>2 DEF MailInv, RelayTypes, IdsCover, PushedOffered, Known
<1>4. ClientTypes' /\ RunsSeen'
  <2>1. /\ items' \in [Devices -> SUBSET Sendable'] /\ flight' \in [Devices -> SUBSET Sendable']
        /\ seen' \in [Devices -> SUBSET Sendable'] /\ q \in [Devices -> Seq(Sendable')]
        /\ RunsSeen'
    BY <1>1, SendableGrows DEF MailInv, client
  <2>2. Append(q[d], m) \in Seq(Sendable')
    BY <1>1, <2>1, AppendProperties DEF Sendable
  <2>3. q' \in [Devices -> Seq(Sendable')]
    BY <2>1, <2>2 DEF Deliver
  <2> QED
    BY <2>1, <2>3 DEF ClientTypes
<1>5. IdsOnce' /\ IdsKept' /\ DeliveredHonest'
  BY <1>1 DEF MailInv, IdsOnce, IdsKept, DeliveredHonest, Known, SeenSomewhere, client
<1> QED
  BY <1>3, <1>4, <1>5 DEF MailInv

LEMMA DeliverTimeoutStep ==
    ASSUME MailInv, NEW m \in Mails, NEW d \in Devices, DeliverTimeout(m, d)
    PROVE  MailInv'
<1>1. UNCHANGED <<ids, rows, pushed, told, offered, torn, conn, todo, q, client>>
  BY DEF DeliverTimeout
<1>2. /\ post' \in [Mails -> Posting] /\ post[m].st # "idle"
      /\ \A k \in Mails : post'[k].any = post[k].any /\ (k # m => post'[k] = post[k])
  <2> DEFINE p == [post[m] EXCEPT !.left = @ \ {d}]
  <2>1. post \in [Mails -> Posting]
    BY DEF MailInv, RelayTypes
  <2>2. p \in Posting /\ p.any = post[m].any
    <3>1. p \in Posting
      BY <2>1, PostingRecords
    <3>2. p.any = post[m].any
      BY <2>1 DEF Posting
    <3> QED
      BY <3>1, <3>2
  <2>3. post' = [post EXCEPT ![m] = p] /\ post[m].st # "idle"
    BY <2>1 DEF DeliverTimeout
  <2> HIDE DEF p
  <2> QED
    BY <2>1, <2>2, <2>3
<1>3. RelayTypes' /\ IdsCover' /\ PushedOffered'
  BY <1>1, <1>2 DEF MailInv, RelayTypes, IdsCover, PushedOffered, Known
<1>4. ClientTypes' /\ RunsSeen' /\ IdsOnce' /\ IdsKept' /\ DeliveredHonest'
  BY <1>1 DEF MailInv, ClientTypes, RunsSeen, Sendable, Run, IdsOnce, IdsKept, DeliveredHonest,
              Known, SeenSomewhere, client
<1> QED
  BY <1>3, <1>4 DEF MailInv

LEMMA AnswerStep ==
    ASSUME MailInv, NEW m \in Mails, Answer(m)
    PROVE  MailInv'
<1>1. UNCHANGED <<ids, rows, pushed, offered, torn, link, client>>
  BY DEF Answer
<1>2. post' \in [Mails -> Posting] /\ post[m].st # "idle" /\ post' = [post EXCEPT ![m] = NotPosting]
  BY PostingRecords DEF MailInv, RelayTypes, Answer
<1>3. /\ told' \in [Mails -> Answers]
      /\ \A k \in Mails : k # m => told'[k] = told[k]
      /\ told'[m] = "delivered" => told[m] = "delivered" \/ post[m].any
  BY DEF MailInv, RelayTypes, Answers, Answer, Told
<1>4. RelayTypes' /\ IdsCover' /\ PushedOffered' /\ DeliveredHonest'
  BY <1>1, <1>2, <1>3 DEF MailInv, RelayTypes, IdsCover, PushedOffered, DeliveredHonest, Known, NotPosting, link
<1>5. ClientTypes' /\ RunsSeen' /\ IdsOnce' /\ IdsKept'
  BY <1>1 DEF MailInv, ClientTypes, RunsSeen, Sendable, Run, IdsOnce, IdsKept, Known, SeenSomewhere, link, client
<1> QED
  BY <1>4, <1>5 DEF MailInv


LEMMA CleanupStep ==
    ASSUME MailInv, NEW n \in 1 .. Len(ids), Cleanup(n)
    PROVE  MailInv'
<1> DEFINE old == ToSet(SubSeq(ids, 1, n))
<1>1. /\ UNCHANGED <<post, offered, link, client>>
      /\ ids' = SubSeq(ids, n + 1, Len(ids))
      /\ rows' = rows \ old /\ pushed' = pushed \ old /\ torn' = torn \ old
      /\ told' = [m \in Mails |-> IF m \in old THEN "none" ELSE told[m]]
      /\ \A k \in 1 .. n : post[ids[k]].st = "idle"
  BY DEF Cleanup
<1>2. ids \in Seq(Mails) /\ Len(ids) \in Nat /\ DOMAIN ids = 1 .. Len(ids) /\ n \in Nat /\ n \leq Len(ids)
  BY LenProperties DEF MailInv, RelayTypes
<1>3. /\ ids' \in Seq(Mails) /\ DOMAIN ids' = 1 .. (Len(ids) - n)
      /\ \A i \in 1 .. (Len(ids) - n) : ids'[i] = ids[n + i]
  <2>1. n + 1 \in 1 .. Len(ids) + 1 /\ Len(ids) \in (n + 1) - 1 .. Len(ids)
    BY <1>2
  <2>2. /\ ids' \in Seq(Mails) /\ Len(ids') = Len(ids) - n
        /\ \A i \in 1 .. (Len(ids) - n) : ids'[i] = ids[n + i]
    <3>1. /\ ids' \in Seq(Mails)
          /\ Len(ids') = IF n + 1 <= Len(ids) THEN Len(ids) - (n + 1) + 1 ELSE 0
          /\ \A i \in 1 .. (Len(ids) - (n + 1) + 1) : ids'[i] = ids[n + 1 + i - 1]
      BY <1>1, <1>2, <2>1, SubSeqProperties
    <3>2. Len(ids) - (n + 1) + 1 = Len(ids) - n /\ Len(ids') = Len(ids) - n
      <4>1. \A k \in Nat : n \leq k => (IF n + 1 <= k THEN k - (n + 1) + 1 ELSE 0) = k - n /\ k - (n + 1) + 1 = k - n
        BY <1>2
      <4> QED
        BY <1>2, <3>1, <4>1
    <3>3. ASSUME NEW i \in 1 .. (Len(ids) - n) PROVE ids'[i] = ids[n + i]
      <4>1. n + 1 + i - 1 = n + i
        BY <1>2
      <4> QED
        BY <3>1, <3>2, <4>1
    <3> QED
      BY <3>1, <3>2, <3>3
  <2> QED
    BY <2>2, LenProperties
<1>4. old = {ids[k] : k \in 1 .. n}
  <2>1. /\ SubSeq(ids, 1, n) \in Seq(Mails) /\ Len(SubSeq(ids, 1, n)) = n
        /\ \A i \in 1 .. n : SubSeq(ids, 1, n)[i] = ids[i]
    BY <1>2, SubSeqProperties
  <2>2. DOMAIN SubSeq(ids, 1, n) = 1 .. n
    BY <2>1, LenProperties
  <2> QED
    BY <2>1, <2>2 DEF ToSet
<1> HIDE DEF old
<1>5. /\ \A m \in ToSet(ids) : m \in old \/ m \in ToSet(ids')
      /\ \A m \in ToSet(ids') : m \in ToSet(ids) /\ m \notin old
  <2>1. ASSUME NEW i \in DOMAIN ids, ids[i] \notin old PROVE ids[i] \in ToSet(ids')
    <3>1. i > n /\ i - n \in DOMAIN ids' /\ ids'[i - n] = ids[i]
      BY <1>2, <1>3, <1>4, <2>1
    <3> QED
      BY <3>1 DEF ToSet
  <2>2. ASSUME NEW i \in DOMAIN ids' PROVE ids'[i] \in ToSet(ids) /\ ids'[i] \notin old
    <3>1. n + i \in DOMAIN ids /\ ids'[i] = ids[n + i]
      BY <1>2, <1>3
    <3>2. \A k \in 1 .. n : ids[k] # ids[n + i]
      BY <1>2, <3>1 DEF MailInv, IdsOnce
    <3> QED
      BY <1>4, <3>1, <3>2 DEF ToSet
  <2> QED
    BY <2>1, <2>2 DEF ToSet
<1>6. IdsOnce'
  <2> SUFFICES ASSUME NEW i \in DOMAIN ids', NEW j \in DOMAIN ids', ids'[i] = ids'[j]
               PROVE  i = j
    BY DEF IdsOnce
  <2>1. n + i \in DOMAIN ids /\ n + j \in DOMAIN ids /\ ids[n + i] = ids[n + j]
    BY <1>2, <1>3
  <2> QED
    BY <1>2, <1>3, <2>1 DEF MailInv, IdsOnce
<1>7. RelayTypes'
  BY <1>1, <1>3 DEF MailInv, RelayTypes, Answers, link
<1>8. IdsCover'
  <2>1. \A m \in old : post[m].st = "idle"
    BY <1>1, <1>4
  <2> QED
    BY <1>1, <1>5, <2>1 DEF MailInv, IdsCover, Known
<1>9. IdsKept' /\ PushedOffered' /\ DeliveredHonest'
  BY <1>1, <1>5 DEF MailInv, IdsKept, PushedOffered, DeliveredHonest, Known, SeenSomewhere, link, client
<1>10. ClientTypes' /\ RunsSeen'
  BY <1>1 DEF MailInv, ClientTypes, RunsSeen, Sendable, Run, link, client
<1> QED
  BY <1>6, <1>7, <1>8, <1>9, <1>10 DEF MailInv

(***************************************************************************)
(* The client: MailQueue and drainCloudMail.                               *)
(***************************************************************************)
LEMMA ClientKeeps ==
    ASSUME MailInv, UNCHANGED <<relay, conn, todo>>, \A d \in Devices : seen[d] \subseteq seen'[d]
    PROVE  RelayTypes' /\ IdsOnce' /\ IdsCover' /\ IdsKept' /\ PushedOffered' /\ DeliveredHonest'
  BY DEF MailInv, RelayTypes, IdsOnce, IdsCover, IdsKept, PushedOffered, DeliveredHonest, Known, SeenSomewhere, relay

LEMMA ReceiveStep ==
    ASSUME MailInv, NEW d \in Devices, ClientReady(d) \/ HandleMail(d)
    PROVE  MailInv'
<1>1. UNCHANGED <<relay, conn, todo, runs, acks, seen>> /\ q' = [q EXCEPT ![d] = Tail(@)] /\ q[d] # <<>>
  BY DEF ClientReady, HandleMail
<1>2. q[d] \in Seq(Sendable) /\ Sendable' = Sendable
  BY <1>1 DEF MailInv, ClientTypes, Sendable, relay
<1>3. Head(q[d]) \in Sendable /\ Tail(q[d]) \in Seq(Sendable)
  BY <1>1, <1>2, HeadTailProperties
<1>4. ClientTypes'
  <2>1. items' \in [Devices -> SUBSET Sendable] /\ flight' \in [Devices -> SUBSET Sendable]
    <3>1. items \in [Devices -> SUBSET Sendable] /\ flight \in [Devices -> SUBSET Sendable]
      BY DEF MailInv, ClientTypes
    <3>2. CASE ClientReady(d)
      BY <3>1, <3>2 DEF ClientReady
    <3>3. CASE HandleMail(d)
      BY <1>3, <3>1, <3>3 DEF HandleMail
    <3> QED
      BY <3>2, <3>3
  <2>2. q' \in [Devices -> Seq(Sendable)]
    BY <1>1, <1>3 DEF MailInv, ClientTypes
  <2> QED
    BY <1>1, <1>2, <2>1, <2>2 DEF MailInv, ClientTypes
<1>5. RunsSeen'
  BY <1>1, <1>2 DEF MailInv, RunsSeen, Run
<1> QED
  BY <1>1, <1>4, <1>5, ClientKeeps DEF MailInv

LEMMA DrainStep ==
    ASSUME MailInv, NEW d \in Devices, Drain(d)
    PROVE  MailInv'
<1>1. UNCHANGED <<relay, link, acks, seen>>
  BY DEF Drain
<1>2. Sendable' = Sendable /\ \A e \in Devices : Run(e)' = Run(e)
  BY <1>1 DEF Sendable, Run, relay
<1>3. ClientTypes'
  BY <1>1, <1>2 DEF MailInv, ClientTypes, Drain, link
<1>4. RunsSeen'
  <2>1. [todo |-> items[d], done |-> {}] \in Run(d)
    BY DEF MailInv, ClientTypes, Run
  <2>2. Append(runs[d], [todo |-> items[d], done |-> {}]) \in Seq(Run(d))
    BY <2>1, AppendProperties DEF MailInv, RunsSeen
  <2> QED
    BY <1>1, <1>2, <2>2 DEF MailInv, RunsSeen, Drain
<1> QED
  BY <1>1, <1>3, <1>4, ClientKeeps DEF MailInv, link

LEMMA TakeStep ==
    ASSUME MailInv, NEW d \in Devices, NEW i \in DOMAIN runs[d], NEW m, Take(d, i, m)
    PROVE  MailInv'
<1>1. UNCHANGED <<relay, link, items, flight, acks>> /\ seen' = [seen EXCEPT ![d] = @ \cup {m}]
  BY DEF Take
<1>2. runs[d] \in Seq(Run(d)) /\ runs[d][i] \in Run(d) /\ m \in Sendable
  <2>1. runs[d] \in Seq(Run(d))
    BY DEF MailInv, RunsSeen
  <2>2. runs[d][i] \in Run(d)
    BY <2>1, ElementOfSeq, LenProperties
  <2> QED
    BY <2>1, <2>2 DEF Run, Take
<1>3. Sendable' = Sendable /\ \A e \in Devices : seen[e] \subseteq seen'[e]
  BY <1>1 DEF MailInv, ClientTypes, Sendable, relay
<1>4. ClientTypes'
  BY <1>1, <1>2, <1>3 DEF MailInv, ClientTypes, link
<1>5. RunsSeen'
  <2>1. \A e \in Devices : Run(e) \subseteq Run(e)'
    BY <1>3 DEF Run
  <2>2. \A e \in Devices : runs[e] \in Seq(Run(e)')
    BY <2>1, Widen DEF MailInv, RunsSeen
  <2> DEFINE r == [todo |-> runs[d][i].todo \ {m}, done |-> runs[d][i].done \cup {m}]
  <2>3. r \in Run(d)'
    BY <1>1, <1>2, <1>3 DEF MailInv, ClientTypes, Run
  <2>4. runs' = [runs EXCEPT ![d] = [@ EXCEPT ![i] = r]]
    BY DEF Take
  <2> HIDE DEF r
  <2>5. [runs[d] EXCEPT ![i] = r] \in Seq(Run(d)')
    BY <2>2, <2>3, ExceptSeq, LenProperties
  <2> QED
    BY <1>1, <1>3, <2>2, <2>4, <2>5 DEF MailInv, RunsSeen
<1> QED
  BY <1>1, <1>3, <1>4, <1>5, ClientKeeps DEF MailInv, link

LEMMA HoldStep ==
    ASSUME MailInv, NEW d \in Devices, NEW i \in DOMAIN runs[d], NEW m, Hold(d, i, m)
    PROVE  MailInv'
<1>1. UNCHANGED <<relay, link, items, flight, acks, seen>>
  BY DEF Hold
<1>2. Sendable' = Sendable /\ \A e \in Devices : Run(e)' = Run(e)
  BY <1>1 DEF Sendable, Run, relay
<1>3. ClientTypes'
  BY <1>1, <1>2 DEF MailInv, ClientTypes, link
<1>4. RunsSeen'
  <2>1. runs[d] \in Seq(Run(d))
    BY DEF MailInv, RunsSeen
  <2>2. runs[d][i] \in Run(d)
    BY <2>1, ElementOfSeq, LenProperties
  <2> DEFINE r == [runs[d][i] EXCEPT !.todo = @ \ {m}]
  <2>3. r \in Run(d)
    BY <2>2 DEF Run
  <2>4. runs' = [runs EXCEPT ![d] = [@ EXCEPT ![i] = r]]
    BY DEF Hold
  <2> HIDE DEF r
  <2>5. [runs[d] EXCEPT ![i] = r] \in Seq(Run(d))
    BY <2>1, <2>3, ExceptSeq, LenProperties
  <2> QED
    BY <1>1, <1>2, <2>4, <2>5 DEF MailInv, RunsSeen
<1> QED
  BY <1>1, <1>3, <1>4, ClientKeeps DEF MailInv, link

LEMMA AckMailStep ==
    ASSUME MailInv, NEW d \in Devices, NEW i \in DOMAIN runs[d], AckMail(d, i)
    PROVE  MailInv'
<1>1. UNCHANGED <<relay, link, seen>>
  BY DEF AckMail
<1>2. Sendable' = Sendable /\ \A e \in Devices : Run(e)' = Run(e)
  BY <1>1 DEF Sendable, Run, relay
<1>3. ClientTypes'
  BY <1>1, <1>2 DEF MailInv, ClientTypes, AckMail, link
<1>4. RunsSeen'
  <2>1. runs[d] \in Seq(Run(d))
    BY DEF MailInv, RunsSeen
  <2>2. runs[d][i].done \subseteq seen[d]
    <3>1. runs[d][i] \in Run(d)
      BY <2>1, ElementOfSeq, LenProperties
    <3> QED
      BY <3>1 DEF Run
  <2>3. RemoveAt(runs[d], i) \in Seq(Run(d))
    BY <2>1, RemoveAtType
  <2> QED
    BY <1>1, <1>2, <2>2, <2>3 DEF MailInv, RunsSeen, AckMail
<1> QED
  BY <1>1, <1>3, <1>4, ClientKeeps DEF MailInv, link

LEMMA ReloadStep ==
    ASSUME MailInv, NEW d \in Devices, Reload(d)
    PROVE  MailInv'
<1>1. UNCHANGED <<relay, link, items, flight, acks, seen>>
  BY DEF Reload
<1>2. Sendable' = Sendable /\ \A e \in Devices : Run(e)' = Run(e)
  BY <1>1 DEF Sendable, Run, relay
<1>3. ClientTypes'
  BY <1>1, <1>2 DEF MailInv, ClientTypes, link
<1>4. \A e \in Devices : runs'[e] \in Seq(Run(e))
  BY EmptySeq DEF MailInv, RunsSeen, Reload
<1>5. RunsSeen'
  BY <1>1, <1>2, <1>4 DEF MailInv, RunsSeen, Reload
<1> QED
  BY <1>1, <1>3, <1>5, ClientKeeps DEF MailInv, link

(* The row goes when the relay reads an ack, whose mail is on the disk of  *)
(* the device that sent it.                                                *)
LEMMA AckStep ==
    ASSUME MailInv, NEW d \in Devices, NEW m \in Mails, Ack(d, m)
    PROVE  MailInv'
<1>1. /\ UNCHANGED <<ids, post, told, offered, torn, link, items, flight, runs, seen>>
      /\ rows' = rows \ {m} /\ pushed' = pushed \ {m} /\ acks' = [acks EXCEPT ![d] = @ \ {m}]
  BY DEF Ack
<1>2. m \in seen[d]
  BY DEF MailInv, RunsSeen, Ack
<1>3. RelayTypes' /\ IdsOnce' /\ IdsCover' /\ PushedOffered' /\ DeliveredHonest'
  BY <1>1 DEF MailInv, RelayTypes, IdsOnce, IdsCover, PushedOffered, DeliveredHonest, Known, link
<1>4. IdsKept'
  BY <1>1, <1>2 DEF MailInv, IdsKept, Known, SeenSomewhere
<1>5. ClientTypes' /\ RunsSeen'
  BY <1>1 DEF MailInv, ClientTypes, RunsSeen, Sendable, Run, link
<1> QED
  BY <1>3, <1>4, <1>5 DEF MailInv

LEMMA AckLostStep ==
    ASSUME MailInv, NEW d \in Devices, NEW m \in Mails, AckLost(d, m)
    PROVE  MailInv'
<1>1. UNCHANGED <<relay, link, items, flight, runs, seen>> /\ acks' = [acks EXCEPT ![d] = @ \ {m}]
  BY DEF AckLost
<1>2. ClientTypes' /\ RunsSeen'
  BY <1>1 DEF MailInv, ClientTypes, RunsSeen, Sendable, Run, relay, link
<1> QED
  BY <1>1, <1>2, ClientKeeps DEF MailInv, link

(***************************************************************************)
(* The invariant.                                                          *)
(***************************************************************************)
LEMMA InitMailInv == Init => MailInv
<1> SUFFICES ASSUME Init PROVE MailInv
  OBVIOUS
<1>1. \A S : <<>> \in Seq(S)
  BY EmptySeq
<1>2. ids = <<>> /\ DOMAIN ids = {} /\ ToSet(ids) = {}
  BY DEF Init, ToSet
<1>3. RelayTypes /\ IdsOnce /\ IdsCover /\ IdsKept /\ PushedOffered /\ DeliveredHonest
  BY <1>1, <1>2 DEF Init, RelayTypes, IdsOnce, IdsCover, IdsKept, PushedOffered, DeliveredHonest, Known,
                    Answers, Posting, NotPosting
<1>4. ClientTypes /\ RunsSeen
  BY <1>1 DEF Init, ClientTypes, RunsSeen
<1> QED
  BY <1>3, <1>4 DEF MailInv

LEMMA NextMailInv == MailInv /\ [Next]_vars => MailInv'
<1> SUFFICES ASSUME MailInv, [Next]_vars PROVE MailInv'
  OBVIOUS
<1>1. CASE Request
  BY <1>1, RepostStep, StoreStep DEF Request
<1>2. CASE RelayStep
  BY <1>2, ConnectStep, SendReadyStep, SendListedStep, MarkListedStep, CutOffStep, TargetsStep, AnswerStep,
     DeliverStep, DeliverTimeoutStep DEF RelayStep
<1>3. CASE Faulty
  BY <1>3, CrashStep, CutOffStep, ReloadStep, AppRestartStep DEF Faulty
<1>4. CASE \E n \in 1 .. Len(ids) : Cleanup(n)
  BY <1>4, CleanupStep
<1>5. ASSUME NEW d \in Devices, ClientStep(d) PROVE MailInv'
  BY <1>5, ReceiveStep, CutOffStep, DrainStep, TakeStep, HoldStep, AckMailStep DEF ClientStep
<1>6. ASSUME NEW d \in Devices, Connect(d) \/ \E m \in Mails : Ack(d, m) \/ AckLost(d, m) PROVE MailInv'
  BY <1>6, ConnectStep, AckStep, AckLostStep
<1>7. CASE UNCHANGED vars
  BY <1>7 DEF vars, relay, link, client, MailInv, RelayTypes, ClientTypes, RunsSeen, Sendable, Run, IdsOnce,
              IdsCover, IdsKept, PushedOffered, DeliveredHonest, Known, SeenSomewhere
<1> QED
  BY <1>1, <1>2, <1>3, <1>4, <1>5, <1>6, <1>7 DEF Next

(* The invariant above holds in every state of the relay, the recipient's  *)
(* clients and the wire between them.                                      *)
THEOREM MailCorrect == Spec => []MailInv
<1>1. Spec => Init /\ [][Next]_vars
  BY DEF Spec
<1> QED
  BY <1>1, InitMailInv, NextMailInv, PTL

(* A mail that the relay answered with `posted` (post_sql, ack_sql,        *)
(* drainCloudMail) is in the database or on a recipient's disk until it    *)
(* expires, whatever crashes, unless its post was cut between its INSERTs. *)
THEOREM PostsAreKept == Spec => []PostedKept
<1>1. MailInv => PostedKept
  BY DEF MailInv, PostedKept, IdsCover, IdsKept
<1> QED
  BY <1>1, MailCorrect, PTL

(* `delivered` is answered (handle_post, Duplicate) only for a mail that   *)
(* was put into the control queue of a connection, or was torn.            *)
THEOREM DeliveredIsHonest == Spec => []DeliveredHonest
<1>1. MailInv => DeliveredHonest
  BY DEF MailInv
<1> QED
  BY <1>1, MailCorrect, PTL

(* A mail that was acknowledged is not stored again while its id is known: *)
(* a late retry of its post finds the id (post_sql, ack_sql, Cleanup).     *)
THEOREM AckedIsGone == Spec => AckedStaysGone
<1> DEFINE Gone == \A m \in ToSet(ids) \ rows : m \in ToSet(ids') => m \notin rows'
<1>1. [Next]_vars => [Gone]_vars
  <2> SUFFICES ASSUME Next PROVE Gone
    OBVIOUS
  <2>1. rows' \subseteq rows \/ \E m \in Mails : ~Known(m) /\ rows' = rows \cup {m}
    <3>1. CASE Request
      BY <3>1 DEF Request, Repost, OverQuota, Store
    <3>2. CASE RelayStep
      BY <3>2 DEF RelayStep, SendReady, ListMail, SendListed, MarkListed, Kick, Targets, MarkDelivered, Answer,
                  Deliver, DeliverTimeout, relay
    <3>3. CASE Faulty
      BY <3>3 DEF Faulty, Crash, CrashInPost, Disconnect, Reload, AppRestart, relay
    <3>4. CASE \E n \in 1 .. Len(ids) : Cleanup(n)
      BY <3>4 DEF Cleanup
    <3>5. ASSUME NEW d \in Devices, ClientStep(d) PROVE rows' \subseteq rows
      BY <3>5 DEF ClientStep, ClientReady, ClientGivesUp, HandleMail, Drain, Take, Hold, AckMail, relay
    <3>6. ASSUME NEW d \in Devices, Connect(d) \/ \E m \in Mails : Ack(d, m) \/ AckLost(d, m)
          PROVE  rows' \subseteq rows
      BY <3>6 DEF Connect, Ack, AckLost, relay
    <3> QED
      BY <3>1, <3>2, <3>3, <3>4, <3>5, <3>6 DEF Next
  <2> QED
    BY <2>1 DEF Known
<1>2. Spec => [][Next]_vars
  BY DEF Spec
<1>3. AckedStaysGone <=> [][Gone]_vars
  BY DEF AckedStaysGone
<1> QED
  BY <1>1, <1>2, <1>3, PTL
=============================================================================
