---------------------------- MODULE ConnectFour ----------------------------
(***************************************************************************)
(* The Connect Four plugin: engine.js with board.js and rules.js (the host *)
(* of the table), ui.js (the session of host and guests) and the game      *)
(* page.  A column is the sequence of its discs from the bottom up.        *)
(***************************************************************************)
EXTENDS GameTable

CONSTANTS Rows, Cols, Win

VARIABLE game

(***************************************************************************)
(* board.js and rules.js.                                                  *)
(***************************************************************************)
createEmptyBoard == [c \in 1..Cols |-> <<>>]
isColumnFull(b, c) == Len(b[c]) = Rows
isBoardFull(b) == \A c \in 1..Cols : isColumnFull(b, c)
dropDisc(b, c, d) == [b EXCEPT ![c] = Append(@, d)]
At(b, c, r) == IF c \in 1..Cols /\ r \in 1..Rows THEN IF r <= Len(b[c]) THEN b[c][r] ELSE 0 ELSE 0

Directions == {<<1, 0>>, <<0, 1>>, <<1, 1>>, <<1, -1>>}
RunLength(b, c, r, d, dc, dr) ==
    CHOOSE n \in 0..(Rows + Cols) : /\ \A i \in 1..n : At(b, c + i * dc, r + i * dr) = d
                                    /\ At(b, c + (n + 1) * dc, r + (n + 1) * dr) # d

checkWin(b, c, r, d) ==
    \E v \in Directions :
        1 + RunLength(b, c, r, d, v[1], v[2]) + RunLength(b, c, r, d, -v[1], -v[2]) >= Win

(***************************************************************************)
(* createHost: the engine.                                                 *)
(***************************************************************************)
NewHost(gid) == [gid |-> gid, phase |-> "lobby", board |-> createEmptyBoard, toAct |-> 0,
                 winner |-> None, players |-> <<>>, invited |-> {}, open |-> FALSE]

publicState(h) ==
    [gid |-> h.gid, phase |-> h.phase, board |-> h.board, winner |-> h.winner,
     toAct |-> IF h.toAct < Len(h.players) THEN h.players[h.toAct + 1].id ELSE None,
     players |-> h.players]

checkpoint(s) == [s EXCEPT !.saved = s.h]
pushState(s) == broadcastWire(s, [wire |-> "state", pub |-> publicState(s.h)], Ids(s.h.players))
Publish(s) == pushState(checkpoint(s))

addPlayer(s, p) ==
    IF p \in Ids(s.h.players) THEN pushState(s)
    ELSE IF Len(s.h.players) >= 2 THEN s
    ELSE Publish([s EXCEPT !.h.players = Seated(@, [id |-> p, seat |-> FreeSeat(@, 2)])])

removePlayer(s, p) ==
    LET h == s.h
        i == IndexOf(h.players, p) - 1
        left == Without(h.players, p)
        turn == IF i < h.toAct THEN h.toAct - 1 ELSE h.toAct
        over == h.phase = "playing" /\ Len(left) < 2
    IN  IF p \notin Ids(h.players) \/ p = Host THEN s
        ELSE Publish([s EXCEPT !.h = [h EXCEPT
                !.players = left,
                !.toAct = IF turn >= Len(left) THEN 0 ELSE turn,
                !.phase = IF over THEN "lobby" ELSE @,
                !.board = IF over THEN createEmptyBoard ELSE @,
                !.winner = IF over THEN None ELSE @]])

kickPlayer(s, p) ==
    IF p \notin Ids(s.h.players) THEN s
    ELSE Publish(removePlayer(sendWire(s, p, [wire |-> "kicked", gid |-> s.h.gid]), p))

Begin(s) == Publish([s EXCEPT !.h.board = createEmptyBoard, !.h.toAct = 0,
                              !.h.winner = None, !.h.phase = "playing"])

(* Mutant: the new game is not sent to the players.                        *)
startGameSilent(s) ==
    IF s.h.phase # "lobby" \/ Len(s.h.players) < 2 THEN s
    ELSE checkpoint([s EXCEPT !.h.board = createEmptyBoard, !.h.toAct = 0, !.h.phase = "playing"])

startGame(s) ==
    IF s.h.phase # "lobby" THEN s
    ELSE IF Len(s.h.players) < 2 THEN pushState(s) ELSE Begin(s)

rematch(s) == IF s.h.phase # "finished" THEN s ELSE Begin(s)

drop(s, p, c) ==
    LET h == s.h
        disc == h.players[h.toAct + 1].seat + 1
        b == dropDisc(h.board, c, disc)
        won == checkWin(b, c, Len(b[c]), disc)
    IN  IF \/ p \notin Ids(h.players) \/ h.phase # "playing"
           \/ h.toAct + 1 # IndexOf(h.players, p) \/ isColumnFull(h.board, c)
        THEN s
        ELSE Publish([s EXCEPT !.h = [h EXCEPT
                !.board = b,
                !.winner = IF won THEN p ELSE @,
                !.phase = IF won \/ isBoardFull(b) THEN "finished" ELSE @,
                !.toAct = IF won \/ isBoardFull(b) THEN @ ELSE IF @ = 0 THEN 1 ELSE 0]])

applyAction(s, p, a) == IF a.type = "drop" THEN drop(s, p, a.col) ELSE rematch(s)

onWire(s, p, w) ==
    LET h == s.h
        reject == [wire |-> "join_reject", gid |-> h.gid]
        t == addPlayer(s, p)
    IN  CASE w.wire = "join" /\ w.gid = h.gid ->
                IF h.phase # "lobby" \/ (~h.open /\ p \notin h.invited) THEN sendWire(s, p, reject)
                ELSE sendWire(t, p, IF p \in Ids(t.h.players)
                                    THEN [wire |-> "join_ok", pub |-> publicState(t.h)]
                                    ELSE reject)
          [] w.wire = "leave" -> removePlayer(s, p)
          [] w.wire = "action" /\ w.gid = h.gid -> applyAction(s, p, w.action)
          [] OTHER -> s

updateSettings(s, open) == Publish([s EXCEPT !.h.open = open])
invitePeer(s, p) ==
    IF p \in Ids(s.h.players) \/ p \notin s.conn THEN s
    ELSE pushState([s EXCEPT !.h.invited = @ \cup {p}])
saveNow(s) == IF s.h.phase = "playing" THEN pushState(s) ELSE Publish(s)

(***************************************************************************)
(* ui.js: the plugin of the host.                                          *)
(***************************************************************************)
(* launchNew and launchResume.                                             *)
launchHostGame(s, saved) ==
    checkpoint(addPlayer([s EXCEPT !.h = IF saved = None THEN NewHost(s.gids + 1) ELSE saved,
                                   !.gids = IF saved = None THEN @ + 1 ELSE @], Host))

Launch ==
    /\ game.h = None /\ Room(game)
    /\ \/ game.gids < MaxGames /\ game' = launchHostGame(game, None)
       \/ game.saved # None /\ game' = launchHostGame(game, game.saved)

(* offMessage, offDisconnect and offConnect: the peer events.              *)
HostReceives(p) ==
    /\ game.up[p] # <<>> /\ Room(game)
    /\ game' = IF game.h = None THEN TakeUp(game, p)
               ELSE onWire(TakeUp(game, p), p, Head(game.up[p]))

PeerDisconnected(p) ==
    /\ p \in game.conn /\ Room(Cut(game, {p}))
    /\ game' = IF game.h = None THEN Cut(game, {p}) ELSE removePlayer(Cut(game, {p}), p)

PeerConnected(p) == p \notin game.conn /\ game' = Reconnects(game, p)

(* The state a page shows, and what it offers in it: the columns that can  *)
(* be played, the button of the lobby, the panels of the host.             *)
tryPump(s, p) == IF p = Host THEN publicState(s.h) ELSE s.cl[p]
BoardView(v, p) == {c \in 1..Cols : v.phase = "playing" /\ v.toAct = p /\ ~isColumnFull(v.board, c)}
LobbyView(s) == IF s.h.phase = "lobby" /\ Len(s.h.players) >= 2 THEN {startGame(s)} ELSE {}
SettingsPanel(s) == {updateSettings(s, open) : open \in BOOLEAN \ {s.h.open}}
PlayerManagement(s) == {kickPlayer(s, p) : p \in Guests} \cup {invitePeer(s, p) : p \in Guests}

(* onFromChild at the host.                                                *)
HostChild ==
    /\ game.h # None /\ Room(game)
    /\ \/ \E c \in BoardView(tryPump(game, Host), Host) : game' = drop(game, Host, c)
       \/ game.h.phase = "finished" /\ game' = rematch(game)
       \/ game' \in LobbyView(game) \cup SettingsPanel(game) \cup PlayerManagement(game)
       \/ game' = saveNow(game)
       \/ game' = Closes(game)

(* The host's application ends: the engine is gone, the checkpoint stays.  *)
HostCrash == game.h # None /\ game' = Crashes(game)

(***************************************************************************)
(* ui.js and the page of a guest.                                          *)
(***************************************************************************)
handleWire(s, p, w) == GuestSees(s, p, w)

GuestReceives(p) ==
    /\ game.down[p] # <<>>
    /\ game' = handleWire(TakeDown(game, p), p, Head(game.down[p]))

(* joinGame, from an invitation or the advertised lobby.                   *)
joinGame(p) == CanJoin(game, p) /\ game' = Joins(game, p, publicState(NewHost(game.h.gid)))

GuestChild(p) ==
    /\ game.cl[p] # None /\ RoomUp(game, p)
    /\ \/ \E c \in BoardView(tryPump(game, p), p) :
            game' = SendsAction(game, p, [type |-> "drop", col |-> c])
       \/ game' = Leaves(game, p)

Init == game = NoTable
Next ==
    \/ Launch \/ HostChild \/ HostCrash
    \/ \E p \in Guests : \/ HostReceives(p) \/ PeerDisconnected(p) \/ PeerConnected(p)
                         \/ GuestReceives(p) \/ joinGame(p) \/ GuestChild(p)

Spec == Init /\ [][Next]_game

(***************************************************************************)
(* Properties.                                                             *)
(***************************************************************************)
Line(b, d) == \E c \in 1..Cols, r \in 1..Rows, v \in Directions :
                  \A i \in 0..(Win - 1) : At(b, c + i * v[1], r + i * v[2]) = d

(* The host has declared a winner exactly when the discs of that player    *)
(* stand in a line somewhere on the board, wherever the last one fell and  *)
(* whatever leaving, rematches and resumed games did to the table.         *)
WinDecided ==
    game.h # None /\ game.h.phase # "lobby" =>
        \A i \in DOMAIN game.h.players :
            Line(game.h.board, game.h.players[i].seat + 1) <=> game.h.winner = game.h.players[i].id

(* Once the wires of a connected player have arrived, a player that holds  *)
(* a copy of this table holds the state the host has: no step of the host  *)
(* forgets to send it, and no stale wire of an earlier table replaces it.  *)
ViewsMatch ==
    game.h # None => \A p \in game.conn \cap Ids(game.h.players) :
        Quiet(game, p) /\ game.cl[p] # None /\ game.cl[p].gid = game.h.gid
        => game.cl[p] = publicState(game.h)
=============================================================================
