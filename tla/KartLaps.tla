------------------------------ MODULE KartLaps ------------------------------
(***************************************************************************)
(* The laps of one kart as its own client counts them: KartGame.js (start, *)
(* update, lap logic, time trial) and the progress part of physics.js.     *)
(*                                                                         *)
(* The track is a ring of N samples; idx is the sample nearest to the kart *)
(* and a step of the physics moves it by a few of them, in either          *)
(* direction.  far is the way really driven, in samples from the line, and *)
(* counts a step back to a checkpoint as a way back: it is what the lap    *)
(* counter is compared with.  Time is in ticks.                            *)
(*                                                                         *)
(* goal is the way driven when the finish was reported to the host.        *)
(* back: a reset of the time trial has set the kart back over the line.    *)
(***************************************************************************)
EXTENDS Integers

CONSTANTS N,             \* track.N, samples of the ring
          Grid,          \* samples behind the line at which the kart starts
          Checkpoints,   \* cpM, sectors of the time trial
          Laps, Trials   \* laps of a race; modes: {TRUE} time trial, {FALSE} race
CONSTANTS MaxStep, MaxTime, MaxRaces, Behind    \* bounds; Behind: samples driven backwards from the line
VARIABLE kart

createKartState(s) == [s EXCEPT !.idx = N - Grid, !.lap = 0, !.far = 0 - Grid]
FreshLap(s) == [s EXCEPT !.lapStart = s.time, !.cpSeen = 0]

(* startRace: the same race again only moves the start.                    *)
startRace(trial) ==
    /\ kart.race < MaxRaces /\ kart.phase # "racing"
    /\ kart' = [createKartState(kart) EXCEPT !.race = @ + 1, !.trial = trial, !.phase = "countdown", !.finished = FALSE,
                                             !.goal = 0, !.cpSeen = 0, !.lastCp = N - Grid, !.best = 0, !.back = FALSE]
Go ==
    /\ kart.phase = "countdown"
    /\ kart' = [kart EXCEPT !.phase = "racing", !.lapStart = kart.time]
endRace ==
    /\ kart.phase = "racing" /\ kart.finished
    /\ kart' = [kart EXCEPT !.phase = "ended"]

(* stepKart: the lap follows from the jump of idx over the line.           *)
(* Mutant: only the way forward is counted.                                *)
LapCrossedForward(from, to) == IF 2 * (to - from) < -N THEN 1 ELSE 0
LapCrossed(from, to) ==
    IF 2 * (to - from) < -N THEN 1 ELSE IF 2 * (to - from) > N THEN -1 ELSE 0

(* completeLap keeps the best of the laps (short ones are not counted).    *)
completeLap(s) ==
    LET time == s.time - s.lapStart
    IN  IF time < 1 THEN s ELSE FreshLap([s EXCEPT !.best = IF @ = 0 \/ time < @ THEN time ELSE @])
(* The lap logic of update, for a kart that crossed the line forwards.     *)
Crossed(s) ==
    CASE s.lap > Laps -> completeLap([s EXCEPT !.finished = TRUE, !.goal = s.far])
      [] s.lap <= Laps /\ s.lap >= 2 -> completeLap(s)
      [] s.lap = 1 -> FreshLap(s)
      [] OTHER -> s
updateCheckpoints(s) ==
    LET j == (s.idx * Checkpoints) \div N
    IN  IF s.trial /\ ~s.finished /\ s.lap >= 1 /\ j = s.cpSeen + 1
        THEN [s EXCEPT !.cpSeen = j, !.lastCp = ((j * N) \div Checkpoints) % N] ELSE s
update(d) ==
    /\ kart.phase = "racing" /\ kart.time < MaxTime
    /\ kart.far + d >= 0 - Grid - Behind
    /\ LET to == (kart.idx + d) % N
           crossed == LapCrossed(kart.idx, to)
           s == [kart EXCEPT !.idx = to, !.lap = @ + crossed, !.far = @ + d, !.time = @ + 1]
       IN  kart' = updateCheckpoints(IF crossed = 1 /\ ~s.finished THEN Crossed(s) ELSE s)

(* resetToTrack: onto the middle of the track, in a time trial back to the *)
(* last checkpoint.  The lap stays what it was.                            *)
resetToTrack ==
    /\ kart.phase = "racing" /\ ~kart.finished
    /\ LET idx == IF kart.trial THEN kart.lastCp ELSE kart.idx
           way == (kart.idx - idx) % N
       IN  kart' = [kart EXCEPT !.idx = idx, !.far = @ - way, !.back = @ \/ idx > kart.idx]
(* restartRun, with Enter in a time trial.                                 *)
restartRun ==
    /\ kart.phase = "racing" /\ ~kart.finished /\ kart.trial
    /\ kart' = FreshLap([createKartState(kart) EXCEPT !.lastCp = N - Grid, !.back = FALSE])

Init == kart = createKartState([idx |-> 0, lap |-> 0, far |-> 0, race |-> 0, trial |-> FALSE, phase |-> "idle",
                                finished |-> FALSE, goal |-> 0, cpSeen |-> 0, lastCp |-> 0, lapStart |-> 0,
                                best |-> 0, time |-> 0, back |-> FALSE])
Next == \/ \E t \in Trials : startRace(t)
        \/ Go \/ endRace \/ resetToTrack \/ restartRun
        \/ \E d \in (0 - MaxStep)..MaxStep : update(d)

(***************************************************************************)
(* Properties.                                                             *)
(***************************************************************************)
(* The lap counter tells the way driven, also for a kart that turns round  *)
(* and shuttles over the line; so a finish that is reported to the host    *)
(* has the laps of the race behind it.  (Not so after a reset of the time  *)
(* trial that sets the kart back over the line.)                           *)
LapsEarned ==
    kart.phase \in {"racing", "ended"} /\ ~kart.back =>
        /\ (kart.lap - 1) * N + kart.idx = kart.far
        /\ kart.finished => kart.goal >= Laps * N
=============================================================================
