---------------------------- MODULE TicTacToeAi ----------------------------
(***************************************************************************)
(* The algorithm of the Tic-Tac-Toe plugin (ai.js, rules.js, board.js) in  *)
(* a solo game: the human moves first, then the algorithm answers.  Cells  *)
(* are numbered row by row; 1 marks the human, 2 the algorithm.            *)
(***************************************************************************)
EXTENDS Integers, Sequences

CONSTANTS Size, WinLength, Levels

VARIABLE solo    \* [board, level, turn, won]

Cells == 0..(Size * Size - 1)
At(b, r, c) == IF r \in 0..(Size - 1) /\ c \in 0..(Size - 1) THEN b[r * Size + c] ELSE -1
Directions == {<<0, 1>>, <<1, 0>>, <<1, 1>>, <<1, -1>>}
RowOf(x) == x \div Size
ColOf(x) == x % Size

(* board.js: row-major lists, as the loops of the code visit them.         *)
listEmptyCells(b) == SelectSeq([i \in 1..(Size * Size) |-> i - 1], LAMBDA x : b[x] = 0)
isBoardFull(b) == \A x \in Cells : b[x] # 0
applyMove(b, x, d) == [b EXCEPT ![x] = d]

Run(b, x, v, s) ==
    CHOOSE n \in 0..Size :
        /\ \A i \in 1..n : At(b, RowOf(x) + s * i * v[1], ColOf(x) + s * i * v[2]) = b[x]
        /\ At(b, RowOf(x) + s * (n + 1) * v[1], ColOf(x) + s * (n + 1) * v[2]) # b[x]
checkWin(b, x) == \E v \in Directions : 1 + Run(b, x, v, 1) + Run(b, x, v, -1) >= WinLength

findWinningMove(b, d) == SelectSeq(listEmptyCells(b), LAMBDA x : checkWin(applyMove(b, x, d), x))

(* scoreLine: lines without a disc of the other side count by powers of 10. *)
Lines == {l \in {[i \in 1..WinLength |-> <<r + (i - 1) * v[1], c + (i - 1) * v[2]>>] :
                    r \in 0..(Size - 1), c \in 0..(Size - 1), v \in Directions} :
            \A i \in 1..WinLength : l[i][1] \in 0..(Size - 1) /\ l[i][2] \in 0..(Size - 1)}
CountIn(b, l, d) == Len(SelectSeq(l, LAMBDA rc : At(b, rc[1], rc[2]) = d))

RECURSIVE SumScore(_, _)
SumScore(b, S) ==
    IF S = {} THEN 0
    ELSE LET l == CHOOSE l \in S : TRUE
             mine == CountIn(b, l, 2)
             theirs == CountIn(b, l, 1)
         IN  SumScore(b, S \ {l})
             + (IF theirs = 0 /\ mine > 0 THEN 10^mine
                ELSE IF mine = 0 /\ theirs > 0 THEN -(10^theirs) ELSE 0)
scoreLine(b) == SumScore(b, Lines)

Infinity == 1000000
Better(max, x, y) == IF max THEN x > y ELSE x < y

(* minimax with alpha-beta; scan is its loop over the empty cells.         *)
RECURSIVE minimax(_, _, _, _, _, _), scan(_, _, _, _, _, _, _, _)
scan(b, cells, depth, max, alpha, beta, maxDepth, best) ==
    IF cells = <<>> THEN best
    ELSE LET x == Head(cells)
             next == applyMove(b, x, IF max THEN 2 ELSE 1)
             score == minimax(next, depth + 1, ~max, alpha, beta, maxDepth).score
             b2 == IF Better(max, score, best.score) THEN [score |-> score, move |-> x] ELSE best
             a2 == IF max /\ score > alpha THEN score ELSE alpha
             be2 == IF ~max /\ score < beta THEN score ELSE beta
         IN  IF checkWin(next, x)
             THEN [score |-> IF max THEN 100000 - depth ELSE depth - 100000, move |-> x]
             ELSE IF be2 <= a2 THEN b2
             ELSE scan(b, Tail(cells), depth, max, a2, be2, maxDepth, b2)
minimax(b, depth, max, alpha, beta, maxDepth) ==
    IF depth >= maxDepth \/ isBoardFull(b) THEN [score |-> scoreLine(b), move |-> -1]
    ELSE scan(b, listEmptyCells(b), depth, max, alpha, beta, maxDepth,
              [score |-> IF max THEN -Infinity ELSE Infinity, move |-> -1])

aiSearchDepth(level) ==
    CASE level = "hard" -> IF Size = 3 THEN 9 ELSE IF Size = 5 THEN 4 ELSE 3
      [] level = "medium" -> IF Size = 3 THEN 3 ELSE 2
      [] OTHER -> 1

(* Mutant: hard, too, may take any cell when there is nothing to block.    *)
chooseAiMoveCasual(b, level) ==
    LET win == findWinningMove(b, 2)
        block == findWinningMove(b, 1)
    IN  IF level # "easy" /\ win # <<>> THEN {Head(win)}
        ELSE IF level # "easy" /\ block # <<>> THEN {Head(block)}
        ELSE {x \in Cells : b[x] = 0}

(* chooseAiMove: the moves it may return; Math.random leaves a choice.     *)
chooseAiMove(b, level) ==
    LET empties == {x \in Cells : b[x] = 0}
        win == findWinningMove(b, 2)
        block == findWinningMove(b, 1)
        found == minimax(b, 0, TRUE, -Infinity, Infinity, aiSearchDepth(level)).move
    IN  IF level = "easy" THEN empties
        ELSE IF win # <<>> THEN {Head(win)}
        ELSE IF block # <<>> THEN {Head(block)}
        ELSE IF level = "medium" THEN empties \cup {found} ELSE {found}

(* place and maybeAiMove of the engine, for a solo game.                   *)
Place(x, d) ==
    LET b == applyMove(solo.board, x, d)
    IN  solo' = [solo EXCEPT !.board = b, !.turn = 3 - d,
                             !.won = IF checkWin(b, x) THEN d ELSE IF isBoardFull(b) THEN 3 ELSE 0]

HumanMoves == /\ solo.won = 0 /\ solo.turn = 1
              /\ \E x \in Cells : solo.board[x] = 0 /\ Place(x, 1)
AiMoves == /\ solo.won = 0 /\ solo.turn = 2
           /\ \E x \in chooseAiMove(solo.board, solo.level) : Place(x, 2)

Init == \E l \in Levels : solo = [board |-> [x \in Cells |-> 0], level |-> l, turn |-> 1, won |-> 0]
Next == HumanMoves \/ AiMoves

(* "'hard' spielt auf 3x3 perfekt" (ai.js): the human never gets a line    *)
(* against the hard algorithm, whatever the human plays.                   *)
HardNeverLoses ==
    solo.level = "hard" =>
        ~\E l \in Lines : \A i \in 1..WinLength : At(solo.board, l[i][1], l[i][2]) = 1
=============================================================================
