----------------------------- MODULE TicTacToe -----------------------------
(***************************************************************************)
(* The Tic-Tac-Toe plugin: engine.js and board.js (the host), ui.js (the   *)
(* session) and the game page.  A solo table seats the algorithm beside    *)
(* the host; an online table has 2 to 4 players, and with aiAutoplay the   *)
(* algorithm moves for the host.  The moves of the algorithm are those of  *)
(* its easiest level, any empty cell; TicTacToeAi has the levels.  An      *)
(* engine operation that may end with a move of the algorithm yields the   *)
(* set of its outcomes.                                                    *)
(***************************************************************************)
EXTENDS GameTable, SequencesExt

CONSTANTS Size, WinLength, MaxSeats,
          Ai           \* AI_PEER_ID

VARIABLE game

Cells == (1..Size) \X (1..Size)
createEmptyBoard == [x \in Cells |-> 0]
applyMove(b, x, d) == [b EXCEPT ![x] = d]
isBoardFull(b) == \A x \in Cells : b[x] # 0
Directions == {<<0, 1>>, <<1, 0>>, <<1, 1>>, <<1, -1>>}
Step(x, v, i) == <<x[1] + i * v[1], x[2] + i * v[2]>>
Holds(b, x, d) == x \in Cells /\ b[x] = d
RunLength(b, x, v, s) ==
    CHOOSE n \in 0..Size : /\ \A i \in 1..n : Holds(b, Step(x, v, s * i), b[x])
                           /\ ~Holds(b, Step(x, v, s * (n + 1)), b[x])
checkWin(b, x) ==
    \E v \in Directions : 1 + RunLength(b, x, v, 1) + RunLength(b, x, v, -1) >= WinLength

(***************************************************************************)
(* createHost.                                                             *)
(***************************************************************************)
Settings == [mode: {"solo"}, max: {2}, auto: {FALSE}, open: {FALSE}]
            \cup [mode: {"online"}, max: 2..MaxSeats, auto: {FALSE}, open: BOOLEAN]
            \cup [mode: {"online"}, max: {2}, auto: {TRUE}, open: {TRUE}]   \* sanitizeSettings
NewHost(gid) == [gid |-> gid, phase |-> "lobby", board |-> createEmptyBoard, toAct |-> 0,
                 winner |-> None, players |-> <<>>, invited |-> {},
                 cfg |-> [mode |-> "solo", max |-> 2, auto |-> FALSE, open |-> FALSE]]

publicState(h) ==
    [gid |-> h.gid, phase |-> h.phase, board |-> h.board, winner |-> h.winner, mode |-> h.cfg.mode,
     toAct |-> IF h.toAct < Len(h.players) THEN h.players[h.toAct + 1].id ELSE None,
     players |-> h.players]

Humans(players) == Ids(players) \ {Ai}
checkpoint(s) == [s EXCEPT !.saved = s.h]
pushState(s) == broadcastWire(s, [wire |-> "state", pub |-> publicState(s.h)], Humans(s.h.players))
Publish(s) == pushState(checkpoint(s))

ensureAiPlayer(s) ==
    IF s.h.cfg.mode # "solo" \/ Ai \in Ids(s.h.players) THEN s
    ELSE [s EXCEPT !.h.players =
            Seated(@, [id |-> Ai, seat |-> IF Len(@) > 0 THEN 1 ELSE 0])]

CanAdd(h, p) == /\ h.cfg.mode = "online" \/ p = Host
                /\ p \in Ids(h.players) \/ Len(h.players) < h.cfg.max
addPlayer(s, p) ==
    IF ~CanAdd(s.h, p) THEN s
    ELSE IF p \in Ids(s.h.players) THEN pushState(s)
    ELSE Publish([s EXCEPT !.h.players = Seated(@, [id |-> p, seat |-> FreeSeat(@, 4)])])

removePlayer(s, p) ==
    LET h == s.h
        i == IndexOf(h.players, p) - 1
        left == Without(h.players, p)
        turn == IF i < h.toAct THEN h.toAct - 1 ELSE h.toAct
        over == h.phase = "playing" /\ h.cfg.mode = "online" /\ Cardinality(Humans(left)) < 2
    IN  IF p \notin Ids(h.players) \/ p \in {Host, Ai} THEN s
        ELSE Publish([s EXCEPT !.h = [h EXCEPT
                !.players = left,
                !.toAct = IF turn >= Len(left) THEN 0 ELSE turn,
                !.phase = IF over THEN "lobby" ELSE @,
                !.board = IF over THEN createEmptyBoard ELSE @,
                !.winner = IF over THEN None ELSE @]])

kickPlayer(s, p) ==
    IF p \notin Ids(s.h.players) THEN s
    ELSE Publish(removePlayer(sendWire(s, p, [wire |-> "kicked", gid |-> s.h.gid]), p))

(* place, finishWithWin, finishDraw and advanceTurn.                       *)
PlaceDisc(s, p, x) ==
    LET h == s.h
        b == applyMove(h.board, x, h.players[h.toAct + 1].seat + 1)
        won == checkWin(b, x)
    IN  Publish([s EXCEPT !.h = [h EXCEPT
            !.board = b,
            !.winner = IF won THEN p ELSE @,
            !.phase = IF won \/ isBoardFull(b) THEN "finished" ELSE @,
            !.toAct = IF won \/ isBoardFull(b) THEN @ ELSE (@ + 1) % Len(h.players)]])
MayPlace(h, p, x) ==
    /\ p \in Ids(h.players) /\ h.phase = "playing" /\ h.board[x] = 0
    /\ h.toAct + 1 = IndexOf(h.players, p)

(* maybeAiMove: a microtask, so that nothing happens in between.           *)
maybeAiMove(s) ==
    LET h == s.h
        actor == h.players[h.toAct + 1].id
        moves == /\ h.phase = "playing" /\ h.toAct < Len(h.players)
                 /\ \/ h.cfg.mode = "solo" /\ actor = Ai
                    \/ h.cfg.auto /\ actor = Host /\ Len(h.players) = 2
    IN  IF moves THEN {PlaceDisc(s, actor, x) : x \in {y \in Cells : h.board[y] = 0}} ELSE {s}

place(s, p, x) == IF MayPlace(s.h, p, x) THEN maybeAiMove(PlaceDisc(s, p, x)) ELSE {s}

Begin(s) == maybeAiMove(Publish([s EXCEPT !.h.board = createEmptyBoard, !.h.toAct = 0,
                                          !.h.winner = None, !.h.phase = "playing"]))
startGame(s) ==
    LET t == ensureAiPlayer(s)
    IN  IF s.h.phase # "lobby" THEN {s}
        ELSE IF s.h.cfg.mode = "online" /\ Cardinality(Humans(t.h.players)) < 2 THEN {pushState(t)}
        ELSE Begin(t)
rematch(s) == IF s.h.phase # "finished" THEN {s} ELSE Begin(s)

applyAction(s, p, a) == IF a.type = "place" THEN place(s, p, a.cell) ELSE rematch(s)

onWire(s, p, w) ==
    LET h == s.h
        reject == [wire |-> "join_reject", gid |-> h.gid]
    IN  CASE w.wire = "join" /\ w.gid = h.gid ->
                IF \/ h.cfg.mode = "solo" \/ h.phase # "lobby" \/ (~h.cfg.open /\ p \notin h.invited)
                   \/ ~CanAdd(h, p)
                THEN {sendWire(s, p, reject)}
                ELSE LET t == addPlayer(s, p)
                     IN  {sendWire(t, p, [wire |-> "join_ok", pub |-> publicState(t.h)])}
          [] w.wire = "leave" -> {removePlayer(s, p)}
          [] w.wire = "action" /\ w.gid = h.gid -> applyAction(s, p, w.action)
          [] OTHER -> {s}

(* updateSettings: in the lobby; a solo table has no guests, an online one *)
(* no algorithm.                                                           *)
updateSettings(s, cfg) ==
    LET t == [s EXCEPT !.h.cfg = cfg]
        solo == FoldLeft(LAMBDA u, pl : removePlayer(u, pl.id), ensureAiPlayer(t), t.h.players)
        online == [t EXCEPT !.h.players = Without(@, Ai)]
    IN  IF s.h.phase # "lobby" THEN pushState(s)
        ELSE Publish([(IF cfg.mode = "solo" THEN solo ELSE online)
                        EXCEPT !.h.board = createEmptyBoard])
invitePeer(s, p) ==
    IF s.h.cfg.mode = "solo" \/ p \in Ids(s.h.players) \/ p \notin s.conn THEN s
    ELSE pushState([s EXCEPT !.h.invited = @ \cup {p}])
saveNow(s) == IF s.h.phase = "playing" THEN pushState(s) ELSE Publish(s)
bootstrapHost(s) == checkpoint(ensureAiPlayer(addPlayer(s, Host)))

(***************************************************************************)
(* ui.js and the page.                                                     *)
(***************************************************************************)
launchHostGame(s, saved) ==
    bootstrapHost([s EXCEPT !.h = IF saved = None THEN NewHost(s.gids + 1) ELSE saved,
                            !.gids = IF saved = None THEN @ + 1 ELSE @])
Launch == /\ game.h = None /\ Room(game)
          /\ \/ game.gids < MaxGames /\ game' = launchHostGame(game, None)
             \/ game.saved # None /\ game' = launchHostGame(game, game.saved)

HostReceives(p) ==
    /\ game.up[p] # <<>> /\ Room(game)
    /\ game' \in IF game.h = None THEN {TakeUp(game, p)}
                 ELSE onWire(TakeUp(game, p), p, Head(game.up[p]))
PeerDisconnected(p) ==
    /\ p \in game.conn /\ Room(Cut(game, {p}))
    /\ game' = IF game.h = None THEN Cut(game, {p}) ELSE removePlayer(Cut(game, {p}), p)
PeerConnected(p) == p \notin game.conn /\ game' = Reconnects(game, p)

(* The state a page shows, and what it offers in it: the empty cells to    *)
(* the player whose turn it is, the lobby, the panels of the host.         *)
tryPump(s, p) == IF p = Host THEN publicState(s.h) ELSE s.cl[p]
BoardView(v, p) == {x \in Cells : v.phase = "playing" /\ v.toAct = p /\ v.board[x] = 0}
LobbyView(s) == IF s.h.phase = "lobby" THEN startGame(s) ELSE {}
SettingsPanel(s) == IF s.h.phase = "lobby" THEN {updateSettings(s, cfg) : cfg \in Settings \ {s.h.cfg}} ELSE {}
PlayerManagement(s) == {kickPlayer(s, p) : p \in Guests} \cup {invitePeer(s, p) : p \in Guests}

HostChild ==
    /\ game.h # None /\ Room(game)
    /\ \/ \E x \in BoardView(tryPump(game, Host), Host) : game' \in place(game, Host, x)
       \/ game.h.phase = "finished" /\ game' \in rematch(game)
       \/ game' \in LobbyView(game) \cup SettingsPanel(game) \cup PlayerManagement(game)
       \/ game' = saveNow(game)
       \/ game' = Closes(game)
HostCrash == game.h # None /\ game' = Crashes(game)

handleWire(s, p, w) == GuestSees(s, p, w)
GuestReceives(p) ==
    /\ game.down[p] # <<>>
    /\ game' = handleWire(TakeDown(game, p), p, Head(game.down[p]))
joinGame(p) == CanJoin(game, p) /\ game' = Joins(game, p, publicState(NewHost(game.h.gid)))
GuestChild(p) ==
    /\ game.cl[p] # None /\ RoomUp(game, p)
    /\ \/ \E x \in BoardView(tryPump(game, p), p) :
            game' = SendsAction(game, p, [type |-> "place", cell |-> x])
       \/ game' = Leaves(game, p)

Init == game = NoTable
Next ==
    \/ Launch \/ HostChild \/ HostCrash
    \/ \E p \in Guests : \/ HostReceives(p) \/ PeerDisconnected(p) \/ PeerConnected(p)
                         \/ GuestReceives(p) \/ joinGame(p) \/ GuestChild(p)

(***************************************************************************)
(* Properties.                                                             *)
(***************************************************************************)
(* A running solo game always waits for its human, and a running online    *)
(* game for a seated player: guests who leave or are cut off, a change of  *)
(* the mode, rematches and resumed games never leave the turn with a seat  *)
(* nobody holds or with the algorithm, which no event would ask to move.   *)
SomeoneToMove ==
    game.h # None /\ game.h.phase = "playing" =>
        /\ game.h.toAct < Len(game.h.players)
        /\ game.h.cfg.mode = "solo" => game.h.players[game.h.toAct + 1].id = Host
=============================================================================
