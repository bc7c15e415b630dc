------------------------------- MODULE Chess -------------------------------
(***************************************************************************)
(* The table of the chess plugin: engine.js (the host), ui.js (the         *)
(* session) and the game page.  ChessRules has the rules; here a position  *)
(* is the side to move, the number of moves made and the kinds of moves    *)
(* that are legal in it.  Engine operations yield the set of their         *)
(* outcomes: time may run out whenever the clocks are read.                *)
(***************************************************************************)
EXTENDS GameTable

CONSTANTS MaxPlies     \* bound: moves per game

VARIABLE game

opponent(c) == IF c = "w" THEN "b" ELSE "w"
Kinds == {"plain", "castle", "enPassant", "promotion"}
LegalSets == {{}, {"plain"}, {"plain", "castle"}, {"enPassant", "promotion"}}

(***************************************************************************)
(* createHost.                                                             *)
(***************************************************************************)
colorForSeat(seat) == IF seat = 0 THEN "w" ELSE "b"
NewHost(gid) ==
    [gid |-> gid, phase |-> "lobby", turn |-> "w", ply |-> 0, legal |-> {"plain"}, offer |-> None,
     result |-> None, players |-> <<>>, invited |-> {}, open |-> FALSE, timed |-> FALSE]

(* moveToWire writes the squares of a move as text; a move that has been   *)
(* written already has no row and column any more.                         *)
moveToWire(m) == [m EXCEPT !.squares = IF @ = "coordinates" THEN "text" ELSE "no square"]
movesToWire(ms) == {moveToWire(m) : m \in ms}

Color(h, p) == colorForSeat(h.players[IndexOf(h.players, p)].seat)
getLegalMovesForPeer(h, p) ==
    IF p \notin Ids(h.players) \/ h.phase # "playing" \/ h.result # None THEN {}
    ELSE IF Color(h, p) # h.turn THEN {}
    ELSE movesToWire({[kind |-> k, squares |-> "coordinates"] : k \in h.legal})

publicState(h) ==
    [gid |-> h.gid, phase |-> h.phase, turn |-> h.turn, result |-> h.result, offer |-> h.offer,
     players |-> h.players, legal |-> {}]

checkpoint(s) == [s EXCEPT !.saved = s.h]
Sent(s) ==
    LET state(p) == [publicState(s.h) EXCEPT !.legal = movesToWire(getLegalMovesForPeer(s.h, p))]
    IN  [s EXCEPT !.down = [p \in Guests |->
            IF p \in s.conn \cap Ids(s.h.players)
            THEN Append(@[p], [wire |-> "state", pub |-> state(p)]) ELSE @[p]]]
endGame(s, result) ==
    Sent(checkpoint([s EXCEPT !.h.phase = "gameOver", !.h.result = result, !.h.offer = None]))

(* The clock of the side to move may have run out.                         *)
tickClocks(s) ==
    IF s.h.phase # "playing" \/ ~s.h.timed \/ s.h.result # None THEN {s}
    ELSE {s, endGame(s, [type |-> "timeout", winner |-> opponent(s.h.turn)])}
pushState(s) == {Sent(t) : t \in tickClocks(s)}
Publish(s) == pushState(checkpoint(s))

addPlayer(s, p) ==
    IF p \in Ids(s.h.players) \/ Len(s.h.players) >= 2 THEN {s}
    ELSE Publish([s EXCEPT !.h.players =
            Append(@, [id |-> p, seat |-> IF @ = <<>> THEN 0 ELSE 1, connected |-> TRUE])])

removePlayer(s, p) ==
    LET left == Without(s.h.players, p)
        t == [s EXCEPT !.h.players = left, !.h.invited = @ \ {p}]
    IN  IF p \notin Ids(s.h.players) THEN {s}
        ELSE IF s.h.phase = "playing"
        THEN {endGame(t, [type |-> "opponent_left", winner |-> colorForSeat(left[1].seat)])}
        ELSE Publish(t)
kickPlayer(s, p) ==
    IF p \notin Ids(s.h.players) THEN {s}
    ELSE UNION {Publish(t) : t \in removePlayer(sendWire(s, p, [wire |-> "kicked", gid |-> s.h.gid]), p)}

startGame(s) ==
    IF s.h.phase # "lobby" THEN {s}
    ELSE IF Len(s.h.players) < 2 \/ \E i \in DOMAIN s.h.players : ~s.h.players[i].connected THEN pushState(s)
    ELSE Publish([s EXCEPT !.h = [@ EXCEPT !.turn = "w", !.ply = 0, !.legal = {"plain"}, !.result = None,
                                           !.offer = None, !.phase = "playing"]])

(* The move is made even when reading the clocks has just ended the game;  *)
(* a mate, stalemate or draw then replaces the result.                     *)
Moved(s, m, offer) ==
    UNION {LET u == [t EXCEPT !.h = [@ EXCEPT !.turn = opponent(@), !.ply = @ + 1, !.legal = l, !.offer = offer]]
           IN  IF l = {} THEN {endGame(u, r) : r \in {[type |-> "checkmate", winner |-> s.h.turn],
                                                      [type |-> "stalemate", winner |-> None]}}
               ELSE {endGame(u, [type |-> "draw", winner |-> None])} \cup Publish(u) :
           t \in tickClocks(s), l \in LegalSets}
MayMove(s, p, m) ==
    /\ p \in Ids(s.h.players) /\ s.h.phase = "playing" /\ s.h.result = None /\ Color(s.h, p) = s.h.turn
    /\ m.squares = "text" /\ m.kind \in s.h.legal   \* normalizeMove, movesEqual

makeMove(s, p, m) == IF MayMove(s, p, m) THEN Moved(s, m, None) ELSE {s}

Plays(h, p) == p \in Ids(h.players) /\ h.phase = "playing"
resign(s, p) ==
    IF ~Plays(s.h, p) \/ s.h.result # None THEN {s}
    ELSE {endGame(s, [type |-> "resign", winner |-> opponent(Color(s.h, p))])}
offerDraw(s, p) ==
    IF ~Plays(s.h, p) \/ s.h.result # None THEN {s}
    ELSE pushState([s EXCEPT !.h.offer = [by |-> Color(s.h, p), at |-> s.h.ply]])
OfferedTo(h, p) == p \in Ids(h.players) /\ h.offer # None /\ h.offer.by # Color(h, p)
acceptDraw(s, p) ==
    IF ~Plays(s.h, p) \/ ~OfferedTo(s.h, p) THEN {s} ELSE {endGame(s, [type |-> "agreed", winner |-> None])}
declineDraw(s, p) == IF ~OfferedTo(s.h, p) THEN {s} ELSE pushState([s EXCEPT !.h.offer = None])

applyAction(s, p, a) ==
    CASE a.type = "move" -> makeMove(s, p, a.move)
      [] a.type = "resign" -> resign(s, p)
      [] a.type = "offerDraw" -> offerDraw(s, p)
      [] a.type = "acceptDraw" -> acceptDraw(s, p)
      [] OTHER -> declineDraw(s, p)

onWire(s, p, w) ==
    LET h == s.h
        reject == [wire |-> "join_reject", gid |-> h.gid]
    IN  CASE w.wire = "join" /\ w.gid = h.gid ->
                IF h.phase # "lobby" \/ (~h.open /\ p \notin h.invited)
                   \/ (p \notin Ids(h.players) /\ Len(h.players) >= 2)
                THEN {sendWire(s, p, reject)}
                ELSE {sendWire(t, p, [wire |-> "join_ok", pub |-> publicState(t.h)]) : t \in addPlayer(s, p)}
          [] w.wire = "leave" -> removePlayer(s, p)
          [] w.wire = "action" /\ w.gid = h.gid -> applyAction(s, p, w.action)
          [] OTHER -> {s}

updateSettings(s, open, timed) ==
    IF s.h.phase # "lobby" THEN pushState(s) ELSE Publish([s EXCEPT !.h.open = open, !.h.timed = timed])
invitePeer(s, p) ==
    IF p \in Ids(s.h.players) \/ p \notin s.conn THEN {s} ELSE pushState([s EXCEPT !.h.invited = @ \cup {p}])
saveNow(s) == Publish(s)

(***************************************************************************)
(* ui.js and the page.                                                     *)
(***************************************************************************)
Restored(s) == [s.saved EXCEPT !.players =
    [i \in DOMAIN @ |-> [@[i] EXCEPT !.connected = s.saved.players[i].id \in s.conn \cup {Host}]]]
launchHostGame(s, h, n) == {checkpoint(t) : t \in addPlayer([s EXCEPT !.h = h, !.gids = n], Host)}
Launch ==
    /\ game.h = None /\ Room(game)
    /\ \/ game.gids < MaxGames /\ game' \in launchHostGame(game, NewHost(game.gids + 1), game.gids + 1)
       \/ game.saved # None /\ game' \in launchHostGame(game, Restored(game), game.gids)

(* The interval of scheduleClockTimer; a resumed game is without it, but   *)
(* reads its clocks with every state it sends.                             *)
ClockTick == game.h # None /\ Room(game) /\ game.h.timed /\ game.h.phase = "playing" /\ game' \in pushState(game)

HostReceives(p) ==
    /\ game.up[p] # <<>> /\ Room(game)
    /\ game' \in IF game.h = None THEN {TakeUp(game, p)} ELSE onWire(TakeUp(game, p), p, Head(game.up[p]))
PeerDisconnected(p) ==
    /\ p \in game.conn /\ Room(Cut(game, {p}))
    /\ game' \in IF game.h = None THEN {Cut(game, {p})} ELSE removePlayer(Cut(game, {p}), p)
PeerConnected(p) == p \notin game.conn /\ game' = Reconnects(game, p)

(* The state a page shows, and the panels of the host.                     *)
tryPump(s, p) == IF p = Host THEN publicState(s.h) ELSE s.cl[p]
LobbyView(s) == IF s.h.phase = "lobby" THEN startGame(s) ELSE {}
SettingsPanel(s) == UNION {updateSettings(s, open, timed) : open, timed \in BOOLEAN}
PlayerManagement(s) == UNION {kickPlayer(s, p) \cup invitePeer(s, p) : p \in Guests}

(* The board: a square can be chosen when a move of the list begins there. *)
(* What is sent has its squares and the promotion, and neither says that   *)
(* the move castles nor that it takes en passant.                          *)
ChessBoard(legal) ==
    {[squares |-> "text", kind |-> IF m.kind = "promotion" THEN m.kind ELSE "plain"] :
        m \in {x \in legal : x.squares = "text"}}

(* The actions the page offers to the player of colour c in view v.        *)
GameView(v, c, legal) ==
    IF v.phase # "playing" THEN {}
    ELSE {[type |-> "move", move |-> m] : m \in IF v.turn = c THEN ChessBoard(legal) ELSE {}}
         \cup (IF v.offer # None /\ v.offer.by # c THEN {[type |-> "acceptDraw"], [type |-> "declineDraw"]}
               ELSE {[type |-> "resign"]} \cup (IF v.offer = None THEN {[type |-> "offerDraw"]} ELSE {}))

HostChild ==
    /\ game.h # None /\ Room(game)
    /\ \/ \E a \in GameView(tryPump(game, Host), "w", getLegalMovesForPeer(game.h, Host)) :
            game.h.ply < MaxPlies /\ game' \in applyAction(game, Host, a)
       \/ game' \in LobbyView(game) \cup SettingsPanel(game) \cup PlayerManagement(game)
       \/ game' \in saveNow(game)
       \/ game' = Closes(game)
HostCrash == game.h # None /\ game' = Crashes(game)

handleWire(s, p, w) == GuestSees(s, p, w)
GuestReceives(p) ==
    /\ game.down[p] # <<>>
    /\ game' = handleWire(TakeDown(game, p), p, Head(game.down[p]))
joinGame(p) == CanJoin(game, p) /\ game' = Joins(game, p, publicState(NewHost(game.h.gid)))
GuestChild(p) ==
    /\ game.cl[p] # None /\ RoomUp(game, p)
    /\ \/ \E a \in GameView(tryPump(game, p), "b", game.cl[p].legal) : game' = SendsAction(game, p, a)
       \/ game' = Leaves(game, p)

Init == game = NoTable
Next ==
    \/ Launch \/ ClockTick \/ HostChild \/ HostCrash
    \/ \E p \in Guests : \/ HostReceives(p) \/ PeerDisconnected(p) \/ PeerConnected(p)
                         \/ GuestReceives(p) \/ joinGame(p) \/ GuestChild(p)
Spec == Init /\ [][Next]_game

(***************************************************************************)
(* Properties.                                                             *)
(***************************************************************************)
(* A draw can only be accepted in the position it was offered in: moves,   *)
(* clocks that run out while a move is made, checkpoints with an offer in  *)
(* them and resumed games never leave an offer of an earlier position.     *)
OfferFresh ==
    game.h # None /\ game.h.offer # None => game.h.phase = "playing" /\ game.h.offer.at = game.h.ply

(* ChessGuide and ui.js: a guest whose turn it is, and who has received    *)
(* the last state, can choose a figure that has a legal move.              *)
GuestCanMove ==
    game.h # None => \A p \in game.conn \cap Ids(game.h.players) :
        /\ Quiet(game, p) /\ game.cl[p] # None
        /\ game.h.phase = "playing" /\ game.h.result = None /\ game.h.turn = Color(game.h, p)
        => ChessBoard(game.cl[p].legal) # {}
=============================================================================
