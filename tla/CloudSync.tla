------------------------------ MODULE CloudSync ------------------------------
(***************************************************************************)
(* The account synchronisation: the sync log of the relay (accounts.rs)    *)
(* and, on every device of the account, the sync engine of the renderer    *)
(* (syncEngine.js, syncLogic.js, session.js, syncLayer.js).                *)
(*                                                                         *)
(* Data.  Entries stand for the entries of one synchronised store key      *)
(* (contacts, settings, ...), Msgs for the messages of one chat, and Chat  *)
(* for the logical key of its deletion.  A value is the time of the edit   *)
(* that wrote it, 0 is absence.  Time advances with every edit; devices    *)
(* and server share the clock.  Encryption, sizes and texts are left out:  *)
(* Large holds the keys whose items never fit into a request.              *)
(***************************************************************************)
EXTENDS Naturals, Sequences, FiniteSets

CONSTANTS Devices, Entries, Msgs, Chat, Large,
          NoRow,
          PageLimit,      \* PULL_LIMIT
          PushBatch,      \* PUSH_BATCH
          MaxNow,         \* bound: edits
          MaxFaults,      \* bound: lost requests and answers, crashes, sign-outs
          Editors,        \* bound: devices whose user makes changes
          Faulty,         \* bound: devices that crash or are signed out
          Cycles          \* sync cycles a device runs at a time

ASSUME SyncAssumption ==
    /\ PageLimit \in Nat \ {0} /\ PushBatch \in Nat \ {0}
    /\ MaxNow \in Nat /\ MaxFaults \in Nat
    /\ Chat \notin Entries \cup Msgs /\ Entries \cap Msgs = {}

VARIABLES
    now, faults,
    rows, nextSeq,   \* sync_items and next_seq of the account
    born,            \* time stamp a message carries, 0 = not written yet
    local,           \* the stores of each device
    box, saved,      \* memoryOutbox, and its copy in the store
    meta,            \* META_KEY in the store: cloudSyncApplied
    pos,             \* lastSeq of the stored account
    on,              \* signed in and started
    told,            \* devices whose enqueue of a store change is running
    cyc,             \* the running sync cycles
    seen             \* history: sequence numbers a device has processed

vars == <<now, faults, rows, nextSeq, born, local, box, saved, meta, pos, on, told, cyc, seen>>

Data == Entries \cup Msgs
Keys == Data \cup {Chat}
Times == 0..MaxNow

Change == [key: Keys, del: BOOLEAN, ts: Times, val: Times]
Op == [key: Keys, del: BOOLEAN, ts: Times, val: Times, origin: Devices]
Meta == [ets: [Entries -> Times], snap: [Entries -> Times], tomb: Times]
EmptyMeta == [ets |-> [e \in Entries |-> 0], snap |-> [e \in Entries |-> 0], tomb |-> 0]

Idle == [pc |-> "idle", after |-> 0, meta |-> EmptyMeta, page |-> <<>>,
         latest |-> 0, more |-> FALSE, sent |-> <<>>]

(***************************************************************************)
(* The outbox (syncLogic.js).                                              *)
(***************************************************************************)
Range1(s) == {s[i] : i \in DOMAIN s}
Put(b, ch) ==
    IF \E i \in DOMAIN b : b[i].key = ch.key
    THEN [i \in DOMAIN b |-> IF b[i].key = ch.key THEN ch ELSE b[i]]
    ELSE Append(b, ch)

mergeOutbox(b, ch) ==
    IF ch.key = Chat
    THEN Append(SelectSeq(b, LAMBDA c : c.key \notin Msgs \cup {Chat}), ch)
    ELSE IF ch.key \in Msgs /\ ch.del
    THEN Put(SelectSeq(b, LAMBDA c : c.key # ch.key \/ c.del), ch)
    ELSE Put(b, ch)

dropIfRemoteNewer(b, k, ts) == SelectSeq(b, LAMBDA c : c.key # k \/ c.ts > ts)

(* Mutant: an entry is removed by its key, whatever its time stamp.        *)
removeSentByKey(b, sent) ==
    SelectSeq(b, LAMBDA c : ~\E i \in DOMAIN sent : sent[i].key = c.key)

removeSent(b, sent) ==
    SelectSeq(b, LAMBDA c : ~\E i \in DOMAIN sent : sent[i].key = c.key /\ sent[i].ts = c.ts)

pendingTsFor(b, k) == IF \E c \in Range1(b) : c.key = k
                      THEN (CHOOSE c \in Range1(b) : c.key = k).ts ELSE 0

(***************************************************************************)
(* The server: one transaction per request (push_sql, pull_sql).           *)
(***************************************************************************)

PushSql(ops) ==
    /\ nextSeq' = nextSeq + Len(ops)
    /\ rows' = [k \in Keys |->
          IF \E i \in DOMAIN ops : ops[i].key = k
          THEN LET i == CHOOSE i \in DOMAIN ops : ops[i].key = k
               IN  [seq |-> nextSeq + i, ts |-> now, op |-> ops[i]]
          ELSE rows[k]]

After(n) == {k \in Keys : rows[k] # NoRow /\ rows[k].seq > n}
InOrder(S) ==
    [i \in 1..Cardinality(S) |->
        rows[CHOOSE k \in S : Cardinality({j \in S : rows[j].seq <= rows[k].seq}) = i]]
PullSql(n) ==
    LET all == InOrder(After(n))
    IN  [page |-> SubSeq(all, 1, IF Len(all) > PageLimit THEN PageLimit ELSE Len(all)),
         latest |-> nextSeq, more |-> Len(all) > PageLimit]

(***************************************************************************)
(* Local changes.  The bridge reports every write of a synchronised store  *)
(* or message to the engine (syncLayer.js), which puts it into the outbox. *)
(***************************************************************************)
Tick == now < MaxNow /\ now' = now + 1
Report(d, ch) == box' = [box EXCEPT ![d] = IF on[d] THEN mergeOutbox(@, ch) ELSE @]

SetEntry(d, e, val) ==
    /\ Tick
    /\ local' = [local EXCEPT ![d][e] = val]
    /\ told' = IF on[d] THEN told \cup {d} ELSE told
    /\ UNCHANGED <<faults, rows, nextSeq, born, box, saved, meta, pos, on, cyc, seen>>

EditEntry(d, e) == SetEntry(d, e, now + 1)
DeleteEntry(d, e) == local[d][e] # 0 /\ SetEntry(d, e, 0)

(* enqueue of a store change, after its awaits: every entry that differs   *)
(* from the snapshot is put into the outbox with the present time.         *)
Differs(d, m) == {e \in Entries : local[d][e] # m.snap[e]}
PutAll(b, S, f(_)) ==
    LET Seqs == {s \in [1..Cardinality(S) -> S] : \A x, y \in DOMAIN s : s[x] = s[y] => x = y}
        s == CHOOSE s \in Seqs : TRUE
        go[i \in 0..Cardinality(S)] == IF i = 0 THEN b ELSE mergeOutbox(go[i - 1], f(s[i]))
    IN  go[Cardinality(S)]

Enqueue(d) ==
    LET change(e) == [key |-> e, del |-> local[d][e] = 0, ts |-> now, val |-> local[d][e]]
    IN  /\ d \in told
        /\ told' = told \ {d}
        /\ box' = [box EXCEPT ![d] = PutAll(@, Differs(d, meta[d]), change)]
        /\ UNCHANGED <<now, faults, rows, nextSeq, born, local, saved, meta, pos, on, cyc, seen>>

(* append and patch: a message is written once and may be changed.         *)
WriteMsg(d, m) ==
    /\ born[m] = 0 \/ local[d][m] # 0
    /\ Tick
    /\ born' = [born EXCEPT ![m] = IF @ = 0 THEN now + 1 ELSE @]
    /\ local' = [local EXCEPT ![d][m] = now + 1]
    /\ Report(d, [key |-> m, del |-> FALSE, ts |-> now + 1, val |-> 0])
    /\ UNCHANGED <<faults, rows, nextSeq, saved, meta, pos, on, told, cyc, seen>>

DeleteMsg(d, m) ==
    /\ local[d][m] # 0
    /\ Tick
    /\ local' = [local EXCEPT ![d][m] = 0]
    /\ Report(d, [key |-> m, del |-> TRUE, ts |-> now + 1, val |-> 0])
    /\ UNCHANGED <<faults, rows, nextSeq, born, saved, meta, pos, on, told, cyc, seen>>

NoMsgs(f) == [k \in Data |-> IF k \in Msgs THEN 0 ELSE f[k]]
DeleteChat(d) ==
    /\ \E m \in Msgs : local[d][m] # 0
    /\ Tick
    /\ local' = [local EXCEPT ![d] = NoMsgs(@)]
    /\ Report(d, [key |-> Chat, del |-> TRUE, ts |-> now + 1, val |-> 0])
    /\ UNCHANGED <<faults, rows, nextSeq, born, saved, meta, pos, on, told, cyc, seen>>

(* schedulePersist, flushPersist: the outbox is copied to the store 50 ms  *)
(* after the last change.                                                  *)
Persist(d) ==
    /\ saved[d] # box[d]
    /\ saved' = [saved EXCEPT ![d] = box[d]]
    /\ UNCHANGED <<now, faults, rows, nextSeq, born, local, box, meta, pos, on, told, cyc, seen>>

(***************************************************************************)
(* A sync cycle.  A timer, the focus, the network or a hint of the relay   *)
(* starts one.  runCycle waits for the cycle in flight and then does not   *)
(* look again, so that two waiters run together, and the first one to end  *)
(* clears `inflight` under the other: cycles overlap in any way.           *)
(***************************************************************************)
Set(d, c, r) == cyc' = [cyc EXCEPT ![d][c] = r]

(* pullRemote: position and meta are read once.                            *)
BeginPull(d, c) ==
    /\ on[d] /\ cyc[d][c].pc = "idle"
    /\ Set(d, c, [Idle EXCEPT !.pc = "pull", !.after = pos[d], !.meta = meta[d]])
    /\ UNCHANGED <<now, faults, rows, nextSeq, born, local, box, saved, meta, pos, on, told, seen>>

BeginPush(d, c) ==
    /\ on[d] /\ cyc[d][c].pc = "idle" /\ box[d] # <<>>
    /\ Set(d, c, [Idle EXCEPT !.pc = "push"])
    /\ UNCHANGED <<now, faults, rows, nextSeq, born, local, box, saved, meta, pos, on, told, seen>>

FetchPage(d, c) ==
    LET r == cyc[d][c]
        p == PullSql(r.after)
    IN  /\ r.pc = "pull"
        /\ Set(d, c, IF on[d]
                     THEN [r EXCEPT !.pc = "apply", !.page = p.page, !.latest = p.latest,
                                    !.more = p.more /\ p.page # <<>>]
                     ELSE [r EXCEPT !.pc = "meta"])
        /\ UNCHANGED <<now, faults, rows, nextSeq, born, local, box, saved, meta, pos, on, told, seen>>

(* applyOp: whether the operation is applied, and what it does.            *)
Applies(op, m, b) ==
    CASE op.key \in Entries -> pendingTsFor(b, op.key) <= op.ts /\ op.ts >= m.ets[op.key]
      [] op.key = Chat -> TRUE
      [] OTHER -> m.tomb = 0 \/ (IF op.del THEN op.ts ELSE born[op.key]) > m.tomb

appliedMetaAfterOp(m, op) ==
    CASE op.key \in Entries -> [m EXCEPT !.ets[op.key] = op.ts, !.snap[op.key] = op.val]
      [] op.key = Chat -> [m EXCEPT !.tomb = IF op.ts >= @ THEN op.ts ELSE @]
      [] OTHER -> IF op.del THEN m ELSE [m EXCEPT !.tomb = IF born[op.key] > @ THEN 0 ELSE @]

applyOp(f, op) == IF op.key = Chat THEN NoMsgs(f) ELSE [f EXCEPT ![op.key] = op.val]

Larger(a, b) == IF a > b THEN a ELSE b

ApplyItem(d, c) ==
    LET r == cyc[d][c]
        row == Head(r.page)
        op == row.op
        b == dropIfRemoteNewer(box[d], op.key, row.ts)
        ok == op.origin # d /\ Applies(op, r.meta, b)
    IN  /\ r.pc = "apply" /\ r.page # <<>>
        /\ box' = [box EXCEPT ![d] = b]
        /\ local' = IF ok THEN [local EXCEPT ![d] = applyOp(@, op)] ELSE local
        /\ seen' = [seen EXCEPT ![d] = @ \cup {row.seq}]
        /\ Set(d, c, [r EXCEPT !.page = Tail(@), !.after = Larger(@, row.seq),
                               !.meta = IF ok THEN appliedMetaAfterOp(@, op) ELSE @])
        /\ UNCHANGED <<now, faults, rows, nextSeq, born, saved, meta, pos, on, told>>

(* The end of a page: the position moves to latestSeq.                     *)
EndPage(d, c) ==
    LET r == cyc[d][c]
    IN  /\ r.pc = "apply" /\ r.page = <<>>
        /\ Set(d, c, [r EXCEPT !.after = Larger(@, r.latest),
                               !.pc = IF r.more /\ on[d] THEN "pull" ELSE "meta"])
        /\ UNCHANGED <<now, faults, rows, nextSeq, born, local, box, saved, meta, pos, on, told, seen>>

WriteMeta(d, c) ==
    LET r == cyc[d][c]
    IN  /\ r.pc = "meta"
        /\ meta' = [meta EXCEPT ![d] = r.meta]
        /\ Set(d, c, [r EXCEPT !.pc = "seq"])
        /\ UNCHANGED <<now, faults, rows, nextSeq, born, local, box, saved, pos, on, told, seen>>

(* Mutant: the position jumps to the end of the log as it is now.          *)
WriteSeqNow(d, c) ==
    /\ cyc[d][c].pc = "seq"
    /\ pos' = IF on[d] THEN [pos EXCEPT ![d] = nextSeq] ELSE pos
    /\ Set(d, c, [Idle EXCEPT !.pc = "push"])
    /\ UNCHANGED <<now, faults, rows, nextSeq, born, local, box, saved, meta, on, told, seen>>

(* updateAccountSeq does nothing when the account is gone.                 *)
WriteSeq(d, c) ==
    LET r == cyc[d][c]
    IN  /\ r.pc = "seq"
        /\ pos' = IF on[d] THEN [pos EXCEPT ![d] = r.after] ELSE pos
        /\ Set(d, c, [Idle EXCEPT !.pc = "push"])
        /\ UNCHANGED <<now, faults, rows, nextSeq, born, local, box, saved, meta, on, told, seen>>

(* pushOutbox.  Changes without a value any more, or too large, leave the  *)
(* outbox; the others are built from the present state of the stores.      *)
Gone(d, ch) == ch.key \in Large \/ (ch.key # Chat /\ ~ch.del /\ local[d][ch.key] = 0)
buildOp(d, ch) ==
    [key |-> ch.key, del |-> ch.del, ts |-> ch.ts, origin |-> d,
     val |-> IF ch.del THEN 0 ELSE local[d][ch.key]]

BuildBatch(d, c) ==
    LET keep == SelectSeq(box[d], LAMBDA ch : ~Gone(d, ch))
        sent == SubSeq(keep, 1, IF Len(keep) > PushBatch THEN PushBatch ELSE Len(keep))
    IN  /\ cyc[d][c].pc = "push"
        /\ box' = [box EXCEPT ![d] = keep]
        /\ Set(d, c, IF keep = <<>> \/ ~on[d] THEN Idle
                     ELSE [Idle EXCEPT !.pc = "request", !.sent = sent,
                                       !.page = [i \in DOMAIN sent |-> buildOp(d, sent[i])]])
        /\ UNCHANGED <<now, faults, rows, nextSeq, born, local, saved, meta, pos, on, told, seen>>

PushArrives(d, c) ==
    /\ cyc[d][c].pc = "request"
    /\ PushSql(cyc[d][c].page)
    /\ Set(d, c, [cyc[d][c] EXCEPT !.pc = "answer", !.page = <<>>])
    /\ UNCHANGED <<now, faults, born, local, box, saved, meta, pos, on, told, seen>>

(* The answer: what was sent leaves the outbox, and the entries are noted  *)
(* as applied, with the value the store holds now.                         *)
Noted(m, d, sent) ==
    LET of(e) == CHOOSE ch \in Range1(sent) : ch.key = e
        S == {ch.key : ch \in Range1(sent)} \cap Entries
    IN  [m EXCEPT !.ets = [e \in Entries |-> IF e \in S THEN of(e).ts ELSE m.ets[e]],
                  !.snap = [e \in Entries |-> 
                             IF e \notin S THEN m.snap[e]
                             ELSE IF of(e).del THEN 0
                             ELSE IF local[d][e] # 0 THEN local[d][e] ELSE of(e).val]]

PushAnswered(d, c) ==
    LET sent == cyc[d][c].sent
    IN  /\ cyc[d][c].pc = "answer"
        /\ box' = [box EXCEPT ![d] = removeSent(@, sent)]
        /\ meta' = [meta EXCEPT ![d] = Noted(@, d, sent)]
        /\ Set(d, c, [Idle EXCEPT !.pc = "push"])
        /\ UNCHANGED <<now, faults, rows, nextSeq, born, local, saved, pos, on, told, seen>>

(***************************************************************************)
(* Faults, sign-out and sign-in.                                           *)
(***************************************************************************)
Fault == faults < MaxFaults /\ faults' = faults + 1

(* A request or its answer is lost: the cycle ends in an error; a retry or *)
(* the next pull follows.                                                  *)
RequestLost(d, c) ==
    /\ cyc[d][c].pc \in {"pull", "request", "answer"}
    /\ Fault
    /\ Set(d, c, Idle)
    /\ UNCHANGED <<now, rows, nextSeq, born, local, box, saved, meta, pos, on, told, seen>>

(* The application dies: memory is lost, the stores stay.                  *)
Crash(d) ==
    /\ on[d] /\ Fault
    /\ box' = [box EXCEPT ![d] = saved[d]]
    /\ told' = told \ {d}
    /\ cyc' = [cyc EXCEPT ![d] = [c \in Cycles |-> Idle]]
    /\ UNCHANGED <<now, rows, nextSeq, born, local, saved, meta, pos, on, seen>>

(* logoutAccount, or a 401 (handleUnauthorized): outbox and meta are wiped; *)
(* cycles that are waiting for something go on.                            *)
SignOut(d) ==
    /\ on[d] /\ Fault
    /\ on' = [on EXCEPT ![d] = FALSE]
    /\ box' = [box EXCEPT ![d] = <<>>]
    /\ saved' = [saved EXCEPT ![d] = <<>>]
    /\ meta' = [meta EXCEPT ![d] = EmptyMeta]
    /\ UNCHANGED <<now, rows, nextSeq, born, local, pos, told, cyc, seen>>

(* loginAccount and startSync: the position starts at 0, and fullUpload,  *)
(* once per account and device, puts everything into the outbox.           *)
FullUpload(d) ==
    LET change(k) == [key |-> k, del |-> FALSE, ts |-> IF k \in Msgs THEN born[k] ELSE now,
                      val |-> IF k \in Entries THEN local[d][k] ELSE 0]
    IN  PutAll(<<>>, {k \in Data : local[d][k] # 0}, change)

SignIn(d) ==
    /\ ~on[d]
    /\ on' = [on EXCEPT ![d] = TRUE]
    /\ pos' = [pos EXCEPT ![d] = 0]
    /\ meta' = [meta EXCEPT ![d] = EmptyMeta]
    /\ \E b \in {<<>>, FullUpload(d)} : box' = [box EXCEPT ![d] = b]
    /\ saved' = [saved EXCEPT ![d] = <<>>]
    /\ UNCHANGED <<now, faults, rows, nextSeq, born, local, told, cyc, seen>>

(***************************************************************************)
(* The specification.                                                      *)
(***************************************************************************)
Init ==
    /\ now = 0 /\ faults = 0
    /\ rows = [k \in Keys |-> NoRow] /\ nextSeq = 0
    /\ born = [m \in Msgs |-> 0]
    /\ local = [d \in Devices |-> [k \in Data |-> 0]]
    /\ box = [d \in Devices |-> <<>>] /\ saved = [d \in Devices |-> <<>>]
    /\ meta = [d \in Devices |-> EmptyMeta]
    /\ pos = [d \in Devices |-> 0]
    /\ on = [d \in Devices |-> TRUE]
    /\ told = {}
    /\ cyc = [d \in Devices |-> [c \in Cycles |-> Idle]]
    /\ seen = [d \in Devices |-> {}]

Edit(d) ==
    \/ \E e \in Entries : EditEntry(d, e) \/ DeleteEntry(d, e)
    \/ \E m \in Msgs : WriteMsg(d, m) \/ DeleteMsg(d, m)
    \/ DeleteChat(d)

CycleStep(d, c) ==
    \/ FetchPage(d, c) \/ ApplyItem(d, c) \/ EndPage(d, c) \/ WriteMeta(d, c) \/ WriteSeq(d, c)
    \/ BuildBatch(d, c) \/ PushArrives(d, c) \/ PushAnswered(d, c)

Next ==
    \E d \in Devices :
        \/ d \in Editors /\ Edit(d)
        \/ Enqueue(d) \/ Persist(d) \/ SignIn(d)
        \/ d \in Faulty /\ (Crash(d) \/ SignOut(d))
        \/ \E c \in Cycles : BeginPull(d, c) \/ BeginPush(d, c) \/ CycleStep(d, c) \/ RequestLost(d, c)

Spec == Init /\ [][Next]_vars

(***************************************************************************)
(* Properties.                                                             *)
(***************************************************************************)

(* "Geräte pushen Änderungen und pullen alles nach ihrer letzten bekannten *)
(* Sequenz" (ACCOUNTS.md): the stored position of a device never passes an *)
(* item of the log that the device has not processed, although positions   *)
(* are written late, by overlapping cycles, and around crashes.            *)
PullsAll ==
    \A d \in Devices, k \in Keys :
        rows[k] # NoRow /\ rows[k].seq <= pos[d] => rows[k].seq \in seen[d]

(* A change that leaves the outbox of a signed-in device has reached the   *)
(* log, or a later change of the same key or chat took its place, or there *)
(* is nothing left to send: an edit made while the push of an earlier edit *)
(* is on its way is never dropped with it.                                 *)
ChangesReachLog ==
    [][\A d \in Devices : on[d] /\ on'[d] /\ faults' = faults =>
         \A ch \in Range1(box[d]) \ Range1(box'[d]) :
            \/ Gone(d, ch)
            \/ \E c \in Range1(box'[d]) : c.key \in {ch.key, Chat} /\ c.ts >= ch.ts
            \/ rows[ch.key] # NoRow /\ rows[ch.key].ts >= ch.ts]_vars
=============================================================================
