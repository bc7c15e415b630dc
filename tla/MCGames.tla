------------------------------ MODULE MCGames ------------------------------
(***************************************************************************)
(* The bundled games, one small instance of each in one run: part names    *)
(* the game an execution is about and st is its state (the windows of a    *)
(* kart race have the variables of KartDrivers).                           *)
(***************************************************************************)
EXTENDS KartDrivers, Sequences

CONSTANTS HostPeer, GuestPeer, BotPlayer, None
VARIABLES part, st
drivers == <<kart, board, race>>

Connect == INSTANCE ConnectFour WITH game <- st, Host <- HostPeer, Guests <- {GuestPeer}, MaxWire <- 1, MaxGames <- 2,
                Rows <- 2, Cols <- 3, Win <- 3
Ttt == INSTANCE TicTacToe WITH game <- st, Host <- HostPeer, Guests <- {GuestPeer}, MaxWire <- 1, MaxGames <- 1,
                Size <- 2, WinLength <- 2, MaxSeats <- 2, Ai <- BotPlayer
TttAi == INSTANCE TicTacToeAi WITH solo <- st, Size <- 3, WinLength <- 3, Levels <- {"easy", "medium", "hard"}
ChessGame == INSTANCE Chess WITH game <- st, Host <- HostPeer, Guests <- {GuestPeer}, MaxWire <- 1, MaxGames <- 1, MaxPlies <- 2
PokerGame == INSTANCE Poker WITH game <- st, Host <- HostPeer, Guests <- {GuestPeer}, Bot <- BotPlayer, Start <- 2, SmallBlind <- 1,
                BigBlind <- 1, Settings <- {[ante |-> 1, timed |-> TRUE, open |-> TRUE]},
                MaxHands <- 1, MaxTables <- 1, MaxGrants <- 0
KartRace == INSTANCE Kart WITH game <- st, Host <- HostPeer, Guests <- {GuestPeer}, Bot <- BotPlayer, Colors <- {1, 2},
                Settings <- {[bots |-> 1, open |-> TRUE]}, MaxRaces <- 2, MaxTables <- 1

Card(c, v) == [color |-> c, value |-> v]
UnoGame == INSTANCE Uno WITH game <- st, Host <- HostPeer, Guests <- {GuestPeer}, Colors <- {"red", "blue"},
                Deck <- {Card("red", "1"), Card("blue", "1"), Card("red", "draw2"), Card("blue", "reverse"),
                         Card("wild", "wild4")},
                HandSize <- 1, Penalty <- 1, MaxRounds <- 1, MaxTables <- 1,
                Settings <- {[casual |-> TRUE, points |-> TRUE, timed |-> TRUE, open |-> TRUE]}

(* Two positions: castling with every right, pawns about to pass, to be    *)
(* taken en passant and to promote.  The fifty-move rule is near.          *)
Squares(S) == [s \in {x[1] : x \in S} |-> LET x == CHOOSE x \in S : x[1] = s IN [color |-> x[2], type |-> x[3]]]
Position(S, rights, turn) == [board |-> Squares(S), turn |-> turn, castling |-> rights, ep |-> None, half |-> 98,
                              plies |-> 0, result |-> None]
Castles == {<<<<7, 4>>, "w", "K">>, <<<<7, 7>>, "w", "R">>, <<<<7, 0>>, "w", "R">>, <<<<0, 4>>, "b", "K">>,
            <<<<0, 7>>, "b", "R">>}
Pawns == {<<<<7, 4>>, "w", "K">>, <<<<3, 4>>, "w", "P">>, <<<<1, 0>>, "w", "P">>, <<<<0, 4>>, "b", "K">>,
          <<<<1, 3>>, "b", "P">>, <<<<6, 7>>, "b", "P">>}
Moves == INSTANCE ChessRules WITH pos <- st, MaxPlies <- 3,
                Positions <- {Position(Castles, {<<"w", "K">>, <<"w", "Q">>, <<"b", "K">>}, "w"),
                              Position(Pawns, {}, "b")}

Init ==
    /\ LapCount!Init /\ Board!Init /\ Race!Init
    /\ \/ part = "connect" /\ Connect!Init
       \/ part = "ttt" /\ Ttt!Init
       \/ part = "ai" /\ TttAi!Init
       \/ part = "chess" /\ ChessGame!Init
       \/ part = "moves" /\ Moves!Init
       \/ part = "poker" /\ PokerGame!Init
       \/ part = "uno" /\ UnoGame!Init
       \/ part = "kart" /\ KartRace!Init
       \/ part \in {"laps", "board", "items"} /\ st = None
ConnectNext == part = "connect" /\ Connect!Next /\ UNCHANGED <<part, drivers>>
TttNext == part = "ttt" /\ Ttt!Next /\ UNCHANGED <<part, drivers>>
TttAiNext == part = "ai" /\ TttAi!Next /\ UNCHANGED <<part, drivers>>
ChessNext == part = "chess" /\ ChessGame!Next /\ UNCHANGED <<part, drivers>>
MovesNext == part = "moves" /\ Moves!Next /\ UNCHANGED <<part, drivers>>
PokerNext == part = "poker" /\ PokerGame!Next /\ UNCHANGED <<part, drivers>>
UnoNext == part = "uno" /\ UnoGame!Next /\ UNCHANGED <<part, drivers>>
KartNext == part = "kart" /\ KartRace!Next /\ UNCHANGED <<part, drivers>>
LapsNext == part = "laps" /\ LapCount!Next /\ UNCHANGED <<part, st, board, race>>
BoardNext == part = "board" /\ Board!Next /\ UNCHANGED <<part, st, kart, race>>
ItemsNext == part = "items" /\ Race!Next /\ UNCHANGED <<part, st, kart, board>>
Next == \/ ConnectNext \/ TttNext \/ TttAiNext \/ ChessNext \/ MovesNext \/ PokerNext \/ UnoNext
        \/ KartNext \/ LapsNext \/ BoardNext \/ ItemsNext
Spec == Init /\ [][Next]_<<part, st, drivers>>

(* Connect Four: a guest without wires on their way shows the host's state, *)
(* and a winner is declared exactly when a line stands (ConnectFour).       *)
ConnectAgreed == part = "connect" => Connect!ViewsMatch /\ Connect!WinDecided
(* Tic-tac-toe: the algorithm at level hard never loses (chooseAiMove).     *)
HardNeverLoses == part = "ai" => TttAi!HardNeverLoses
(* Chess: a right to castle has its king and its rook at home (applyMove),  *)
(* and a draw offer belongs to the position on the board (acceptDraw).      *)
ChessHonest ==
    /\ part = "moves" => Moves!RightsHonest
    /\ part = "chess" => ChessGame!OfferFresh
(* Poker: chips are neither made nor lost.                                  *)
ChipsConserved == part = "poker" => PokerGame!ChipsConserved
(* UNO: every card is in exactly one place.                                 *)
CardsConserved == part = "uno" => UnoGame!CardsConserved
(* Every running game waits for somebody who can act: leaving, kicking and  *)
(* losing players never leaves the turn with nobody (the turn order of the  *)
(* poker, UNO and tic-tac-toe engines).                                     *)
SomeoneToAct ==
    /\ part = "poker" => PokerGame!HandWaitsForLive
    /\ part = "uno" => UnoGame!DebtOfActor
    /\ part = "ttt" => Ttt!SomeoneToMove
(* Kart: a race that can end has a timer that ends it, and positions are    *)
(* relayed during every race.                                               *)
RaceRuns == part = "kart" => KartRace!RaceCloses /\ KartRace!RelayRuns
(* Chess: a guest whose turn it is can choose a figure.                     *)
GuestCanMove == part = "chess" => ChessGame!GuestCanMove
=============================================================================
