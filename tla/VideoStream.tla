---------------------------- MODULE VideoStream ----------------------------
(***************************************************************************)
(* One picture stream of a call (camera or screen): videoPipeline.js with  *)
(* videoFragments.js, videoKeyframe.js and videoCongestion.js.  A frame    *)
(* that was encoded is split; handleEncoded numbers a fragment, encrypts   *)
(* it (asynchronously) and sends it, then the next one.  Several frames    *)
(* may be in handleEncoded at once, and they share the counter seq.        *)
(*                                                                         *)
(* pic.work: the frames in handleEncoded, each with the fragment it is at  *)
(* (frag, numbered seq); pic.wire: fragments under way, in order;          *)
(* pic.open: the reassembler's pending entries; pic.wait: the keyframe     *)
(* controller waits; pic.shown: frames given to the decoder.  pic.mixed    *)
(* (frames were in handleEncoded together) and pic.torn (fragments were    *)
(* lost, or expired) are history variables.                                *)
(***************************************************************************)
EXTENDS Integers, Sequences, FiniteSets, FiniteSetsExt

CONSTANTS Frags,                          \* fragments of a frame, at most
          MaxFrames, MaxStreams,          \* bounds: frames encoded, times the stream is started
          MaxInFlight, MaxOpen, MaxWire   \* 5 frames in work, 8 frames open; bound: fragments under way

VARIABLE pic

(* encodeFrame: nothing while too many frames are in work; a key frame at  *)
(* first, on request and every three seconds.                              *)
canSend == Cardinality(pic.work) < MaxInFlight
encodeFrame ==
    /\ pic.on /\ canSend /\ pic.frames < MaxFrames
    /\ \E n \in 1..Frags, due \in BOOLEAN :
         LET f == [id |-> pic.frames + 1, n |-> n, key |-> pic.forceKey \/ due, frag |-> 0, seq |-> pic.seq]
         IN  pic' = [pic EXCEPT !.frames = @ + 1, !.seq = @ + 1, !.work = @ \cup {f}, !.forceKey = FALSE,
                                !.mixed = @ \/ pic.work # {}]
(* The fragment is encrypted and sent, the next one is numbered.           *)
handleEncoded(f) ==
    /\ f \in pic.work /\ Len(pic.wire) < MaxWire
    /\ LET m == [id |-> f.id, n |-> f.n, key |-> f.key, frag |-> f.frag, seq |-> f.seq]
           s == [pic EXCEPT !.work = @ \ {f}, !.wire = IF pic.on THEN Append(@, m) ELSE @]
       IN  pic' = IF pic.on /\ f.frag + 1 < f.n
                  THEN [s EXCEPT !.work = @ \cup {[f EXCEPT !.frag = @ + 1, !.seq = s.seq]}, !.seq = @ + 1]
                  ELSE s
(* close, and startCapture of the next stream, which counts from 0 again.  *)
close == pic.on /\ pic' = [pic EXCEPT !.on = FALSE]
startCapture == /\ ~pic.on /\ pic.streams < MaxStreams /\ pic.work = {}
                /\ pic' = [pic EXCEPT !.on = TRUE, !.streams = @ + 1, !.seq = 0, !.forceKey = TRUE]
requestKeyNow == pic.asked /\ pic' = [pic EXCEPT !.asked = FALSE, !.forceKey = pic.on \/ @]

(* The reassembler: an entry per number of a first fragment; the oldest    *)
(* goes when there are too many, all go when their time is over.           *)
Entry(m) == [start |-> m.seq - m.frag, n |-> m.n, got |-> <<>>, key |-> m.key, born |-> pic.clock]
Fits(e, m) == e.start = m.seq - m.frag
Kept(m) == LET same == {e \in pic.open : Fits(e, m) /\ e.n = m.n}
               others == {e \in pic.open : ~Fits(e, m)}
               old == CHOOSE e \in others : \A x \in others : e.born <= x.born
           IN  [entry |-> IF same # {} THEN CHOOSE e \in same : TRUE ELSE Entry(m),
                rest |-> IF same = {} /\ Cardinality(pic.open) >= MaxOpen /\ others # {} THEN others \ {old} ELSE others]
ReassemblerPush(m) ==
    LET k == Kept(m)
        e == [k.entry EXCEPT !.got = [i \in DOMAIN @ \cup {m.frag} |-> IF i = m.frag THEN m.id ELSE @[i]], !.key = @ \/ m.key]
    IN  IF m.n = 1 THEN [open |-> pic.open, frame |-> {[key |-> m.key, parts |-> [i \in {0} |-> m.id], n |-> 1]}]
        ELSE IF DOMAIN e.got = 0..(m.n - 1) THEN [open |-> k.rest, frame |-> {[key |-> e.key, parts |-> e.got, n |-> e.n]}]
        ELSE [open |-> k.rest \cup {e}, frame |-> {}]
gc == pic.open # {} /\ \E E \in {{e \in pic.open : e.born <= b} : b \in 0..pic.clock} : pic' = [pic EXCEPT !.open = @ \ E, !.torn = @ \/ E # {}]

(* pushRemotePacket: delta frames are dropped while a key frame is awaited; *)
(* a frame the decoder refuses asks for one (at most once a second).       *)
Decode(s, f) ==
    IF ~f.key /\ s.wait THEN {s}
    ELSE LET t == [s EXCEPT !.shown = f, !.wait = FALSE]
         IN  {t} \cup {[t EXCEPT !.wait = TRUE, !.asked = ask] : ask \in BOOLEAN}
pushRemotePacket ==
    /\ pic.wire # <<>>
    /\ LET m == Head(pic.wire)
           r == ReassemblerPush(m)
           s == [pic EXCEPT !.wire = Tail(@), !.open = r.open, !.clock = @ + 1]
       IN  IF r.frame = {} THEN pic' = s ELSE \E f \in r.frame : pic' \in Decode(s, f)
LineLoses == pic.wire # <<>> /\ pic' = [pic EXCEPT !.wire = Tail(@), !.torn = TRUE]

NoFrame == [key |-> TRUE, parts |-> [i \in {0} |-> 0], n |-> 1]
Init == pic = [on |-> TRUE, streams |-> 1, frames |-> 0, seq |-> 0, forceKey |-> TRUE, work |-> {}, wire |-> <<>>, open |-> {},
               clock |-> 0, wait |-> FALSE, asked |-> FALSE, shown |-> NoFrame, mixed |-> FALSE, torn |-> FALSE]
Next == encodeFrame \/ close \/ startCapture \/ requestKeyNow \/ gc \/ pushRemotePacket \/ LineLoses
        \/ \E f \in pic.work : handleEncoded(f)

(* A picture is one picture: the fragments of a frame given to the decoder *)
(* are all the fragments of one frame that was encoded: when fragments are *)
(* lost or expire, and also when a frame ends in the middle because the    *)
(* stream is closed and the stream starts again with the same numbers.  It *)
(* needs that frames are encrypted one after the other, and that not both  *)
(* happens: otherwise start numbers collide.                               *)
FrameWhole ==
    ~pic.mixed /\ (~pic.torn \/ pic.streams = 1) =>
        /\ DOMAIN pic.shown.parts = 0..(pic.shown.n - 1)
        /\ \A i, j \in DOMAIN pic.shown.parts : pic.shown.parts[i] = pic.shown.parts[j]
=============================================================================
