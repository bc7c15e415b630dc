--------------------------- MODULE SharedDocument ---------------------------
(***************************************************************************)
(* plugin-realtime.mjs, class SharedDocument: a text that the host of a    *)
(* room owns and its members edit.  A member sends an operation with the   *)
(* revision it was made on; the host transforms it over the operations in  *)
(* between, applies it once and answers with its text.  What a member's    *)
(* editor does (one operation at a time, sent again until it is            *)
(* acknowledged, replaced at most once by one made on a newer text) is     *)
(* external and follows what applyOp, op-ack and replacesOpId are for.     *)
(*                                                                         *)
(* Wires may be lost, repeated and overtake each other: doc.ops holds all  *)
(* that were sent and any may arrive at any time.  Every revision is sent  *)
(* to all members, so any one from a member's own to the host's may arrive *)
(* next; doc.acks are the operations answered.  A text is a sequence of    *)
(* characters, each typed only once.  doc.hist (the text of every          *)
(* revision), doc.typed, doc.gone and doc.made (the text and the position  *)
(* each character was typed at) are history variables.                     *)
(***************************************************************************)
EXTENDS Integers, Sequences, FiniteSets, SequencesExt

CONSTANTS Guests, Host, None,
          Initial,        \* the text of createDocument
          MaxOps,         \* bound: operations made
          LogLimit,       \* OP_LOG_LIMIT
          SeenLimit       \* SEEN_OPS_PER_PEER

VARIABLE doc

Insert(pos, c) == [type |-> "insert", pos |-> pos, len |-> 1, text |-> c]
Delete(pos, n) == [type |-> "delete", pos |-> pos, len |-> n, text |-> None]
Replace == [type |-> "replace"]
Conflict == [type |-> "conflict"]

applyTextOp(t, op) ==
    IF op.type = "insert" THEN SubSeq(t, 1, op.pos) \o <<op.text>> \o SubSeq(t, op.pos + 1, Len(t))
    ELSE SubSeq(t, 1, op.pos) \o SubSeq(t, op.pos + op.len + 1, Len(t))

transformTextOp(mine, other) ==
    CASE mine.type = "conflict" \/ other.type = "replace" -> Conflict
      [] other.type = "insert" /\ other.pos <= mine.pos -> [mine EXCEPT !.pos = @ + other.len]
      [] other.type = "insert" /\ mine.type = "delete" /\ other.pos < mine.pos + mine.len -> Conflict
      [] other.type = "insert" -> mine
      [] other.type = "delete" /\ mine.pos + (IF mine.type = "delete" THEN mine.len ELSE 0) <= other.pos -> mine
      [] other.type = "delete" /\ mine.pos >= other.pos + other.len -> [mine EXCEPT !.pos = @ - other.len]
      [] OTHER -> Conflict

(* The log holds what made each revision; older entries are cut off.       *)
LogOp(d, op) ==
    LET log == Append(d.log, [rev |-> d.rev, op |-> op])
    IN  [d EXCEPT !.log = IF Len(log) > LogLimit THEN Tail(log) ELSE log, !.hist = Append(@, d.text)]
rebaseOp(d, op, base) ==
    LET pending == SelectSeq(d.log, LAMBDA x : x.rev > base)
    IN  IF base > d.rev \/ Len(pending) # d.rev - base THEN Conflict
        ELSE FoldLeft(LAMBDA cur, x : transformTextOp(cur, x.op), op, pending)

Seen(d, p, id) == \E i \in DOMAIN d.seen[p] : d.seen[p][i][1] = id
WasApplied(d, p, id) == \E i \in DOMAIN d.seen[p] : d.seen[p][i] = <<id, TRUE>>
(* Mutant: only what was rejected is remembered.                           *)
rememberOpRejected(d, p, id, applied) ==
    IF applied THEN d ELSE [d EXCEPT !.seen[p] = Append(@, <<id, applied>>)]
rememberOp(d, p, id, applied) ==
    [d EXCEPT !.seen[p] = Append(IF Len(@) >= SeenLimit THEN Tail(@) ELSE @, <<id, applied>>)]

setState(d, t) ==
    LogOp([d EXCEPT !.text = t, !.rev = @ + 1, !.gone = @ \cup ToSet(d.text)], Replace)

Apply(d, p, m, op) ==
    rememberOp(LogOp([d EXCEPT !.text = applyTextOp(@, op), !.rev = @ + 1, !.gone = @ \cup m.names,
                               !.typed = @ \cup (IF op.type = "insert" THEN {op.text} ELSE {})], op), p, m.id, TRUE)
applyOpAsHost(d, p, m) ==   \* <<the document, whether it was applied>>
    LET op == IF m.base = d.rev THEN m.op ELSE rebaseOp(d, m.op, m.base)
        late == IF m.repl # None /\ ~Seen(d, p, m.repl) THEN rememberOp(d, p, m.repl, FALSE) ELSE d
    IN  IF Seen(d, p, m.id) THEN <<d, WasApplied(d, p, m.id)>>
        ELSE IF m.repl # None /\ WasApplied(d, p, m.repl) THEN <<rememberOp(d, p, m.id, FALSE), FALSE>>
        ELSE IF op = Conflict THEN <<rememberOp(late, p, m.id, FALSE), FALSE>>
        ELSE <<Apply(late, p, m, op), TRUE>>

(* An operation made on text t of revision base.                           *)
Msg(id, p, base, op, repl, t) ==
    [id |-> id, from |-> p, base |-> base, op |-> op, repl |-> repl,
     names |-> IF op.type = "delete" THEN ToSet(SubSeq(t, op.pos + 1, op.pos + op.len)) ELSE {}]
Edits(t, c) == {Insert(i, c) : i \in 0..Len(t)}
               \cup ({Delete(i, n) : i \in 0..(Len(t) - 1), n \in 1..2} \ {Delete(Len(t) - 1, 2)})
Made(d, op, t) ==
    [d EXCEPT !.n = @ + 1, !.made = IF op.type = "insert" THEN @ \cup {<<op.text, t, op.pos>>} ELSE @]

(* applyOp at the host and at a member.                                    *)
HostEdits ==
    /\ doc.n < MaxOps
    /\ \E op \in Edits(doc.text, doc.n + 1) :
         doc' = applyOpAsHost(Made(doc, op, doc.text), Host,
                              Msg(doc.n + 1, Host, doc.rev, op, None, doc.text))[1]
HostReplaces == doc.n < MaxOps /\ doc' = setState([doc EXCEPT !.n = @ + 1], <<>>)
MemberEdits(p) ==
    /\ doc.n < MaxOps /\ doc.cl[p].op = None
    /\ \E op \in Edits(doc.cl[p].text, doc.n + 1) :
         LET m == Msg(doc.n + 1, p, doc.cl[p].rev, op, None, doc.cl[p].text)
         IN  doc' = [Made(doc, op, doc.cl[p].text) EXCEPT !.ops = @ \cup {m}, !.cl[p].op = m]
(* No acknowledgement came: the same character, on the text known by now.  *)
MemberReplaces(p) ==
    /\ doc.n < MaxOps /\ doc.cl[p].op # None /\ doc.cl[p].op.repl = None /\ doc.cl[p].op.op.type = "insert"
    /\ \E i \in 0..Len(doc.cl[p].text) :
         LET op == Insert(i, doc.cl[p].op.op.text)
             m == Msg(doc.n + 1, p, doc.cl[p].rev, op, doc.cl[p].op.id, doc.cl[p].text)
         IN  /\ op.text \notin ToSet(doc.cl[p].text)
             /\ doc' = [Made(doc, op, doc.cl[p].text) EXCEPT !.ops = @ \cup {m}, !.cl[p].op = m]

(* _handleWire: an operation at the host; a text and an answer at a member. *)
HostHandleWire(m) == doc' = [applyOpAsHost(doc, m.from, m)[1] EXCEPT !.acks = @ \cup {m.id}]
MemberSyncs(p) ==
    \E r \in (doc.cl[p].rev + 1)..doc.rev : doc' = [doc EXCEPT !.cl[p].text = doc.hist[r], !.cl[p].rev = r]
OpAck(p) == doc.cl[p].op # None /\ doc.cl[p].op.id \in doc.acks /\ doc' = [doc EXCEPT !.cl[p].op = None]

Created == setState([text |-> <<>>, rev |-> 0, log |-> <<>>, seen |-> [p \in Guests \cup {Host} |-> <<>>], n |-> 0,
                     hist |-> <<>>, ops |-> {}, acks |-> {}, typed |-> ToSet(Initial), gone |-> {}, made |-> {},
                     cl |-> [p \in Guests |-> [text |-> Initial, rev |-> 1, op |-> None]]], Initial)
Init == doc = Created
Next == \/ HostEdits \/ HostReplaces
        \/ \E p \in Guests : MemberEdits(p) \/ MemberReplaces(p) \/ MemberSyncs(p) \/ OpAck(p)
        \/ \E m \in doc.ops : HostHandleWire(m)

(***************************************************************************)
(* Properties.                                                             *)
(***************************************************************************)
(* The text holds every character that was applied and not deleted, once:  *)
(* operations that are repeated, replaced or late are not applied twice,   *)
(* and a transformed deletion removes what its author had marked.          *)
TextExact == ToSet(doc.text) = doc.typed \ doc.gone /\ Len(doc.text) = Cardinality(ToSet(doc.text))

(* Concurrent edits merge in the place they were meant for: a character    *)
(* stands between those it was typed between, as far as they are there.    *)
OrderKept ==
    \A x \in doc.made : \A i \in DOMAIN doc.text :
        doc.text[i] = x[1] /\ Cardinality({y \in doc.made : y[1] = x[1]}) = 1 =>
            \A j \in DOMAIN doc.text : \A k \in DOMAIN x[2] : doc.text[j] = x[2][k] => (k <= x[3] <=> j < i)
=============================================================================
