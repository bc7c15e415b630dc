----------------------------- MODULE ChessRules -----------------------------
(***************************************************************************)
(* The rules of the chess plugin: moves.js, rules.js and the parts of      *)
(* board.js they use.  A board maps the occupied squares <<row, column>>   *)
(* to pieces; row 0 is Black's home rank.  The steps are the moves the     *)
(* engine accepts (makeMove): any legal move of the side to move.          *)
(***************************************************************************)
EXTENDS Integers, FiniteSets

CONSTANTS None,
          Positions,    \* where the games begin
          MaxPlies      \* bound: moves per game

VARIABLE pos  \* [board, turn, castling, ep, half, plies, result]

Squares == (0..7) \X (0..7)
opponent(c) == IF c = "w" THEN "b" ELSE "w"
Step(s, d, n) == <<s[1] + n * d[1], s[2] + n * d[2]>>
Orthogonal == {<<1, 0>>, <<-1, 0>>, <<0, 1>>, <<0, -1>>}
Diagonal == {<<1, 1>>, <<1, -1>>, <<-1, 1>>, <<-1, -1>>}
Knight == {<<x, y>> \in (-2..2) \X (-2..2) : x * x + y * y = 5}
Rights == {"w", "b"} \X {"K", "Q"}
Forward(c) == IF c = "w" THEN -1 ELSE 1
Home(c) == IF c = "w" THEN 7 ELSE 0

Is(b, s, c, t) == s \in DOMAIN b /\ b[s] = [color |-> c, type |-> t]
Free(b, s) == s \in Squares \ DOMAIN b
Hostile(b, s, c) == s \in DOMAIN b /\ b[s].color # c
May(b, s, c) == Free(b, s) \/ Hostile(b, s, c)

(***************************************************************************)
(* moves.js.                                                               *)
(***************************************************************************)
Slides(b, f, dirs) ==
    {s \in Squares : \E d \in dirs, n \in 1..7 :
        s = Step(f, d, n) /\ \A i \in 1..(n - 1) : Free(b, Step(f, d, i))}
Reach(b, f) ==
    LET t == b[f].type
    IN  {s \in CASE t = "N" -> {Step(f, d, 1) : d \in Knight}
                 [] t = "K" -> {Step(f, d, 1) : d \in Orthogonal \cup Diagonal}
                 [] t = "B" -> Slides(b, f, Diagonal)
                 [] t = "R" -> Slides(b, f, Orthogonal)
                 [] t = "Q" -> Slides(b, f, Orthogonal \cup Diagonal)
                 [] OTHER -> {} : May(b, s, b[f].color)}

isSquareAttacked(b, s, by) ==
    \E f \in DOMAIN b : /\ b[f].color = by
                        /\ CASE b[f].type = "P" -> s \in {Step(f, <<Forward(by), d>>, 1) : d \in {-1, 1}}
                             [] b[f].type = "K" -> s \in {Step(f, d, 1) : d \in Orthogonal \cup Diagonal}
                             [] OTHER -> s \in Reach(b, f)

Move(f, s) == [from |-> f, to |-> s, promotion |-> None, ep |-> FALSE, castle |-> None]
pawnMoves(p, f) ==
    LET b == p.board
        c == b[f].color
        one == Step(f, <<Forward(c), 0>>, 1)
        two == Step(f, <<Forward(c), 0>>, 2)
        caps == {Step(f, <<Forward(c), d>>, 1) : d \in {-1, 1}}
        start == IF c = "w" THEN 6 ELSE 1
        to == ({one} \cap {s \in Squares : Free(b, s)}) \cup {s \in caps : Hostile(b, s, c)}
        long == IF Free(b, one) /\ f[1] = start /\ Free(b, two) THEN {Move(f, two)} ELSE {}
    IN  {m \in {[Move(f, s) EXCEPT !.promotion = k] : s \in to, k \in {"Q", "R", "B", "N", None}} :
            (m.promotion = None) <=> (m.to[1] # Home(opponent(c)))}
        \cup long
        \cup {[Move(f, s) EXCEPT !.ep = TRUE] : s \in {x \in caps : x = p.ep /\ Free(b, x)}}

castleMoves(p, f) ==
    LET b == p.board
        c == b[f].color
        r == Home(c)
        safe(k) == ~isSquareAttacked(b, <<r, k>>, opponent(c))
        able(side, rook, between, crossed) ==
            /\ <<c, side>> \in p.castling /\ Is(b, <<r, rook>>, c, "R")
            /\ \A k \in between : Free(b, <<r, k>>)
            /\ \A k \in crossed : safe(k)
    IN  IF f # <<r, 4>> \/ ~safe(4) THEN {}
        ELSE {m \in {[Move(f, <<r, 6>>) EXCEPT !.castle = "K"], [Move(f, <<r, 2>>) EXCEPT !.castle = "Q"]} :
                IF m.castle = "K" THEN able("K", 7, {5, 6}, {5, 6}) ELSE able("Q", 0, {1, 2, 3}, {2, 3})}

pieceMoves(p, f) ==
    CASE p.board[f].type = "P" -> pawnMoves(p, f)
      [] p.board[f].type = "K" -> {Move(f, s) : s \in Reach(p.board, f)} \cup castleMoves(p, f)
      [] OTHER -> {Move(f, s) : s \in Reach(p.board, f)}

(***************************************************************************)
(* rules.js.                                                               *)
(***************************************************************************)
isInCheck(b, c) == \E k \in DOMAIN b : Is(b, k, c, "K") /\ isSquareAttacked(b, k, opponent(c))

Lost(p, m, captureToo) ==   \* the castling rights a move ends
    LET piece == p.board[m.from]
        corner == [x \in Rights |-> <<Home(x[1]), IF x[2] = "K" THEN 7 ELSE 0>>]
    IN  {x \in Rights : \/ piece.type = "K" /\ x[1] = piece.color
                        \/ piece.type = "R" /\ x[1] = piece.color /\ corner[x][2] = m.from[2]
                        \/ captureToo /\ m.to = corner[x]}

Placed(p, m) ==
    LET b == p.board
        piece == IF m.promotion # None THEN [b[m.from] EXCEPT !.type = m.promotion] ELSE b[m.from]
        r == m.from[1]
        gone == {m.from} \cup (IF m.ep THEN {<<r, m.to[2]>>} ELSE {})
                \cup (IF m.castle = "K" THEN {<<r, 7>>} ELSE IF m.castle = "Q" THEN {<<r, 0>>} ELSE {})
        rook == IF m.castle = "K" THEN {<<r, 5>>} ELSE IF m.castle = "Q" THEN {<<r, 3>>} ELSE {}
    IN  [s \in ((DOMAIN b) \ gone) \cup {m.to} \cup rook |->
            IF s = m.to THEN piece
            ELSE IF s \in rook THEN [color |-> piece.color, type |-> "R"] ELSE b[s]]

After(p, m, captureToo) ==
    LET piece == p.board[m.from]
    IN  [p EXCEPT !.board = Placed(p, m),
                  !.turn = opponent(@),
                  !.castling = @ \ Lost(p, m, captureToo),
                  !.ep = IF piece.type = "P" /\ m.to[1] - m.from[1] \in {-2, 2}
                         THEN <<(m.from[1] + m.to[1]) \div 2, m.from[2]>> ELSE None,
                  !.half = IF piece.type = "P" \/ m.to \in DOMAIN p.board THEN 0 ELSE @ + 1,
                  !.plies = @ + 1]

(* Mutant: the capture of a rook on its home square keeps the right.       *)
applyMoveKeepsRight(p, m) == After(p, m, FALSE)
applyMove(p, m) == After(p, m, TRUE)

getLegalMoves(p, c) ==
    {m \in UNION {pieceMoves(p, f) : f \in {s \in DOMAIN p.board : p.board[s].color = c}} :
        ~isInCheck(applyMove(p, m).board, c)}

isInsufficientMaterial(b) ==
    LET rest == {s \in DOMAIN b : b[s].type # "K"}
        two == \E s, t \in rest : s # t /\ b[s].color # b[t].color /\ (s[1] + s[2] + t[1] + t[2]) % 2 = 0
    IN  \/ rest = {}
        \/ Cardinality(rest) = 1 /\ \A s \in rest : b[s].type \in {"B", "N"}
        \/ Cardinality(rest) = 2 /\ (\A s \in rest : b[s].type = "B") /\ two

Outcome(p) ==   \* the end of makeMove: mate and stalemate before the draws
    LET stuck == getLegalMoves(p, p.turn) = {}
    IN  CASE stuck /\ isInCheck(p.board, p.turn) -> "checkmate"
          [] stuck -> "stalemate"
          [] p.half >= 100 \/ isInsufficientMaterial(p.board) -> "draw"
          [] OTHER -> None

makeMove ==
    /\ pos.result = None /\ pos.plies < MaxPlies
    /\ \E m \in getLegalMoves(pos, pos.turn) :
          LET p == applyMove(pos, m) IN pos' = [p EXCEPT !.result = Outcome(p)]

Init == pos \in Positions
Next == makeMove

(* Rights in the position are true: whoever may still castle has king and  *)
(* rook at home, and the en-passant square lies behind a pawn that has     *)
(* just moved two squares.  getLegalMoves trusts both when it moves a      *)
(* second piece or takes a pawn beside the target.                         *)
RightsHonest ==
    /\ \A c \in {"w", "b"}, side \in {"K", "Q"} :
          <<c, side>> \in pos.castling =>
              /\ Is(pos.board, <<Home(c), 4>>, c, "K")
              /\ Is(pos.board, <<Home(c), IF side = "K" THEN 7 ELSE 0>>, c, "R")
    /\ pos.ep # None =>
          /\ Free(pos.board, pos.ep)
          /\ Is(pos.board, Step(pos.ep, <<Forward(opponent(pos.turn)), 0>>, 1), opponent(pos.turn), "P")
=============================================================================
