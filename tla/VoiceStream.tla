---------------------------- MODULE VoiceStream ----------------------------
(***************************************************************************)
(* The sound of a call in one direction: audioPipeline.js with the reorder *)
(* buffer (jitterBuffer.js) and the ring of samples that is played         *)
(* (playbackBuffer.js and playback.worklet.js).  Time is counted in        *)
(* packets of 60 ms.  Packets are encrypted and decrypted asynchronously,  *)
(* so they overtake each other; the line may lose and repeat them.         *)
(*                                                                         *)
(* voice.enc, voice.net and voice.dec hold the packets being encrypted,    *)
(* under way and being decrypted; queue, nextSeq and gap ("no", "wait",    *)
(* "over") are the reorder buffer; fill is lastFillMs, the pipeline's idea *)
(* of the ring, ring the true one; out is what was handed to the ring.     *)
(***************************************************************************)
EXTENDS Integers, Sequences, FiniteSets, SequencesExt, FiniteSetsExt

CONSTANTS None, MaxSeq,          \* bound: packets spoken
          MaxQueued, MaxBehind,  \* 16 packets kept, 8 packets late at most
          WantFill, Target, MaxRing, MaxLine    \* 160 ms, 80 ms, 300 ms; bound: packets on the line

VARIABLE voice

(* sendPacked: numbered at once, sent when it is encrypted.                *)
sendPacked == /\ voice.next < MaxSeq /\ ~voice.muted /\ ~voice.closed
              /\ voice' = [voice EXCEPT !.enc = @ \cup {voice.next}, !.next = @ + 1]
SendAudio(n) == /\ n \in voice.enc /\ Cardinality(voice.net) < MaxLine
                /\ voice' = [voice EXCEPT !.enc = @ \ {n}, !.net = @ \cup {n}]
LineLoses(n) == n \in voice.net /\ voice' = [voice EXCEPT !.net = @ \ {n}]

(* The reorder buffer.                                                     *)
(* Mutant: a packet whose turn is over is kept.                            *)
pushAnyAge(s, n) ==
    IF n \in ToSet(s.queue) THEN s
    ELSE LET q == SetToSortSeq(ToSet(s.queue) \cup {n}, <)
         IN  [s EXCEPT !.queue = SubSeq(q, 1, Min({Len(q), MaxQueued}))]
push(s, n) ==
    IF (s.nextSeq # None /\ n < s.nextSeq) \/ n \in ToSet(s.queue) THEN s
    ELSE LET q == SetToSortSeq(ToSet(s.queue) \cup {n}, <)
         IN  [s EXCEPT !.queue = SubSeq(q, 1, Min({Len(q), MaxQueued}))]

(* The ring: the oldest samples go, playing begins when enough are there.  *)
enqueuePlayback(s, item) == [s EXCEPT !.out = Append(@, item), !.ring = Min({@ + 1, MaxRing}), !.fill = @ + 1]
Took(s) == [s EXCEPT !.nextSeq = @ + 1, !.gap = "no"]
First(s) == IF s.nextSeq = None /\ s.queue # <<>> THEN [s EXCEPT !.nextSeq = Head(s.queue)] ELSE s
(* pull: the packet, a loss, or nothing yet.                               *)
pull(s) ==
    LET t == First(s)
    IN  IF t.nextSeq = None THEN t
        ELSE IF t.nextSeq \in ToSet(t.queue)
        THEN enqueuePlayback(Took([t EXCEPT !.queue = SelectSeq(@, LAMBDA n : n # t.nextSeq)]), [seq |-> t.nextSeq, lost |-> FALSE])
        ELSE IF t.queue = <<>> \/ Head(t.queue) < t.nextSeq THEN t
        ELSE IF t.gap = "over" THEN enqueuePlayback(Took(t), [seq |-> t.nextSeq, lost |-> TRUE])
        ELSE [t EXCEPT !.gap = "wait"]
Wants(s) == ~s.closed /\ s.fill < WantFill + 1
(* pumpFromJitter: as far as it goes, then armGapTimer.                    *)
pumpFromJitter(s) ==
    LET t == FoldLeft(LAMBDA v, k : IF Wants(v) THEN pull(v) ELSE v, s, [k \in 1..(MaxSeq + 1) |-> k])
    IN  [t EXCEPT !.timer = @ \/ (Wants(t) /\ t.gap = "wait")]

(* pushRemotePacket: seen, or too far behind; decrypted; queued.           *)
pushRemotePacket(n) ==
    /\ n \in voice.net
    /\ \E again \in BOOLEAN :
         LET s == [voice EXCEPT !.net = IF again THEN @ ELSE @ \ {n}]
         IN  voice' = IF voice.closed \/ n \in voice.seen \/ (voice.last # None /\ n < voice.last - MaxBehind) THEN s
                      ELSE [s EXCEPT !.seen = @ \cup {n}, !.dec = @ \cup {n}, !.last = IF @ = None \/ n > @ THEN n ELSE @]
Decrypted(n) == n \in voice.dec /\ voice' = pumpFromJitter(push([voice EXCEPT !.dec = @ \ {n}], n))
GapTimer == /\ voice.timer
            /\ voice' = pumpFromJitter([voice EXCEPT !.timer = FALSE, !.gap = IF @ = "wait" THEN "over" ELSE @])

(* The worklet plays a packet's time of samples; it reports how many are   *)
(* left, and the pipeline hands over more when they are few.               *)
process == /\ voice.playing \/ voice.ring >= Target
           /\ voice' = [voice EXCEPT !.playing = voice.ring > 0, !.ring = Max({@ - 1, 0})]
report == LET s == [voice EXCEPT !.fill = voice.ring]
          IN  voice' = IF s.fill < WantFill THEN pumpFromJitter(s) ELSE s
setMuted == voice' = [voice EXCEPT !.muted = ~@]
close == ~voice.closed /\ voice' = [voice EXCEPT !.closed = TRUE, !.timer = FALSE]

Init == voice = [next |-> 0, enc |-> {}, net |-> {}, dec |-> {}, seen |-> {}, last |-> None, queue |-> <<>>, nextSeq |-> None,
                 gap |-> "no", timer |-> FALSE, fill |-> 0, ring |-> 0, playing |-> FALSE, out |-> <<>>, muted |-> FALSE,
                 closed |-> FALSE]
Next == \/ sendPacked \/ GapTimer \/ process \/ report \/ setMuted \/ close
        \/ \E n \in 0..(MaxSeq - 1) : SendAudio(n) \/ LineLoses(n) \/ pushRemotePacket(n) \/ Decrypted(n)

(***************************************************************************)
(* Properties.                                                             *)
(***************************************************************************)
(* The listener hears every moment once and in order: whatever is lost,    *)
(* repeated or overtaken, what pull hands over counts up without a gap,    *)
(* each number a packet or a loss; and sound that has arrived is not left  *)
(* behind a missing packet: its turn can still come, and when the ring     *)
(* is short of sound and it waits for a missing one the gap timer is set.  *)
VoiceFlows ==
    /\ \A i \in 1..(Len(voice.out) - 1) : voice.out[i + 1].seq = voice.out[i].seq + 1
    /\ \A i \in DOMAIN voice.queue : voice.nextSeq # None => voice.queue[i] >= voice.nextSeq
    /\ voice.queue # <<>> /\ ~voice.closed /\ voice.fill < WantFill => voice.timer
=============================================================================
