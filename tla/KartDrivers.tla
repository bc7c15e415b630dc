---------------------------- MODULE KartDrivers ----------------------------
(***************************************************************************)
(* A kart race in the windows of its drivers: the laps one of them counts, *)
(* the board of those who have finished, and bananas and rockets.  The     *)
(* parts share no state, so each has its own variable and its own          *)
(* specification.                                                          *)
(***************************************************************************)
EXTENDS Integers

CONSTANTS N, Grid, Checkpoints, Laps, Trials        \* KartLaps: the track, the race
CONSTANTS MaxStep, MaxTime, Behind                  \* KartLaps: bounds
CONSTANTS Host, Guests, Bot                         \* KartBoard, KartItems: the drivers
CONSTANTS MaxRaces, BoardWire                       \* KartBoard: bounds; MaxRaces: KartLaps too
CONSTANTS Linger, MaxItems, RaceWire                \* KartItems: rounds of an ignored item, bounds

\* A kart starts behind the line, and a step is shorter than half of the ring.
ASSUME LapsAssumption ==
    /\ N \in Nat \ {0} /\ Grid \in 1..N /\ MaxStep \in Nat /\ 2 * MaxStep < N
    /\ Checkpoints \in Nat \ {0} /\ Laps \in Nat \ {0} /\ Trials \subseteq BOOLEAN
ASSUME BoardAssumption == Host \notin Guests
\* Six seconds in which an item is ignored are at least three rounds.
ASSUME ItemsAssumption ==
    Host \notin Guests /\ Bot \notin Guests \cup {Host} /\ Linger \in Nat /\ Linger >= 3 /\ MaxItems \in Nat

VARIABLES kart, board, race

LapCount == INSTANCE KartLaps
Board == INSTANCE KartBoard WITH MaxWire <- BoardWire
Race == INSTANCE KartItems WITH MaxWire <- RaceWire

LapCountSpec == LapCount!Init /\ [][LapCount!Next]_kart
BoardSpec == Board!Init /\ [][Board!Next]_board
ItemsSpec == Race!Init /\ [][Race!Next]_race

(* Kart race: a lap counted is a lap driven, the board shows who finished  *)
(* this race, and an item hits a kart once (KartGame, kart/ui.js).         *)
KartHonest == LapCount!LapsEarned /\ Board!BoardTrue /\ Race!HitOnce
=============================================================================
