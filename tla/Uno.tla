-------------------------------- MODULE Uno --------------------------------
(***************************************************************************)
(* The UNO plugin: engine.js with rules.js, deck.js and net.js (the host), *)
(* ui.js and the game page.  The piles are shuffled, so the draw pile and  *)
(* the discards below the top card are sets and any card may be drawn.  A  *)
(* wire takes one step, and a guest at the table may send any action at    *)
(* any time, so one that is late is among those considered; the rounds     *)
(* that autoStart begins are among those the host can begin.  Engine       *)
(* operations yield sets of outcomes.                                      *)
(*                                                                         *)
(* game.h is the engine, game.saved its checkpoint, game.at the guests     *)
(* that hold a clientState, game.conn those connected.  h.out (the cards   *)
(* of players who are gone) is a history variable.                         *)
(***************************************************************************)
EXTENDS Integers, Sequences, FiniteSets, FiniteSetsExt

CONSTANTS Host, Guests, None,
          Colors, Deck,  \* cards are records [color, value]
          HandSize, Penalty,
          Settings,      \* what the host may set: [casual, points, timed, open]
          MaxRounds,     \* bound: rounds played
          MaxTables      \* bound: tables opened or resumed

VARIABLE game

Ids(h) == {h.players[i].id : i \in DOMAIN h.players}
Idx(h, p) == (CHOOSE i \in DOMAIN h.players : h.players[i].id = p) - 1
Pl(h, p) == h.players[Idx(h, p) + 1]
Upd(h, p, pl) == [h EXCEPT !.players[Idx(h, p) + 1] = pl]
Active(h) == {p \in Ids(h) : Pl(h, p).conn}
At(h, i) == h.players[i + 1].id
ToAct(h) == IF h.toAct + 1 \in DOMAIN h.players THEN At(h, h.toAct) ELSE None
Playing(h) == h.phase = "playing"

NewHost == [phase |-> "lobby", players |-> <<>>, dir |-> 1, color |-> None, draw |-> {}, top |-> None, rest |-> {},
            toAct |-> -1, dealer |-> -1, choice |-> None, stack |-> 0, stype |-> None, canPass |-> None,
            unoPeer |-> None, timer |-> FALSE, rounds |-> 0, invited |-> {}, out |-> {},
            cfg |-> [casual |-> FALSE, points |-> FALSE, timed |-> FALSE, open |-> FALSE]]
checkpoint(s) == [s EXCEPT !.saved = [players |-> [i \in DOMAIN s.h.players |-> <<s.h.players[i].id, s.h.players[i].seat>>],
                                      rounds |-> s.h.rounds, cfg |-> s.h.cfg]]
Saved(s, H) == {checkpoint([s EXCEPT !.h = g]) : g \in H}
Set(s, H) == {[s EXCEPT !.h = g] : g \in H}

(***************************************************************************)
(* Cards and turns.                                                        *)
(***************************************************************************)
Wild(c) == c.color = "wild"
Special(c) == Wild(c) \/ c.value \in {"skip", "reverse", "draw2"}     \* isSpecialStartCard
topColor(h) == IF Wild(h.top) THEN h.color ELSE h.top.color           \* topEffectiveColor
canPlay(h, c, hand) ==
    IF Wild(c) THEN c.value = "wild" \/ h.cfg.casual \/ ~\E d \in hand : d.color = topColor(h)
    ELSE c.color = topColor(h) \/ c.value = h.top.value
canStackDraw(h, c) == c.value = "wild4" \/ (h.stype = "draw2" /\ c.value = "draw2")

nextIndex(h, from) ==   \* the next connected player; the host always is
    LET n == Len(h.players)
        at(k) == (from + k * h.dir + n * n) % n
        ks == {k \in 1..n : h.players[at(k) + 1].conn}
    IN  IF ks = {} THEN at(n + 1) ELSE at(Min(ks))
Turn(h) == [h EXCEPT !.toAct = nextIndex(h, @)]
scheduleTurnTimer(h) ==
    [h EXCEPT !.timer = h.cfg.timed /\ Playing(h) /\ ToAct(h) # None /\ ToAct(h) \in Active(h)]

(* Mutant: the discards are shuffled into the draw pile and also stay.     *)
ensureDrawPileCopies(h) == IF h.draw = {} THEN [h EXCEPT !.draw = h.rest] ELSE h
ensureDrawPile(h) == IF h.draw = {} THEN [h EXCEPT !.draw = h.rest, !.rest = {}] ELSE h
drawOne(h, p) ==
    LET g == ensureDrawPile(h)
    IN  IF g.draw = {} THEN {g}
        ELSE {[Upd(g, p, [Pl(g, p) EXCEPT !.hand = @ \cup {c}]) EXCEPT !.draw = @ \ {c}] : c \in g.draw}
drawCardsFor(h, p, n) == FoldSet(LAMBDA i, H : UNION {drawOne(g, p) : g \in H}, {h}, 1..n)

checkUnoPenalty(h, p) ==   \* when anybody else moves on
    IF h.unoPeer \in {None, p} \/ h.unoPeer \notin Ids(h) THEN {h}
    ELSE IF Cardinality(Pl(h, h.unoPeer).hand) # 1 \/ Pl(h, h.unoPeer).uno THEN {h}
    ELSE drawCardsFor(h, h.unoPeer, Penalty)

(* In points mode the round may complete the score the match is played to. *)
finishRound(h) ==
    {[h EXCEPT !.phase = ph, !.choice = None, !.stack = 0, !.stype = None, !.canPass = None, !.unoPeer = None,
               !.timer = FALSE] : ph \in {"roundOver"} \cup (IF h.cfg.points THEN {"matchOver"} ELSE {})}

resolveDraw(h, n, type) ==   \* resolveDrawTwo, resolveDrawFour
    IF h.cfg.casual THEN {Turn([h EXCEPT !.stack = @ + n, !.stype = type])}
    ELSE LET i == nextIndex(h, h.toAct)
         IN  {Turn([g EXCEPT !.toAct = i]) : g \in drawCardsFor(h, At(h, i), n)}
resolveReverse(h) == IF Len(h.players) = 2 THEN Turn(Turn(h)) ELSE Turn([h EXCEPT !.dir = -@])
forceDrawStack(h, p) ==
    {scheduleTurnTimer([g EXCEPT !.stack = 0, !.stype = None, !.canPass = None, !.toAct = nextIndex(g, Idx(g, p))]) :
        g \in drawCardsFor(h, p, h.stack)}

afterCardPlayed(h, p, c) ==
    LET g == [Upd(h, p, [Pl(h, p) EXCEPT !.uno = FALSE])
                EXCEPT !.unoPeer = IF Cardinality(Pl(h, p).hand) = 1 THEN p ELSE @]
    IN  IF Pl(h, p).hand = {} THEN finishRound(g)
        ELSE {scheduleTurnTimer(x) : x \in CASE c.value = "skip" -> {Turn(Turn(g))}
                                             [] c.value = "reverse" -> {resolveReverse(g)}
                                             [] c.value = "draw2" -> resolveDraw(g, 2, "draw2")
                                             [] OTHER -> {Turn(g)}}

(***************************************************************************)
(* The actions of a player (applyAction); what is refused changes nothing. *)
(***************************************************************************)
OnTurn(h, p) == p \in Ids(h) /\ ToAct(h) = p /\ Playing(h) /\ h.choice = None
playCard(h, p, c) ==
    LET ok == /\ OnTurn(h, p) /\ c \in Pl(h, p).hand
              /\ IF h.stack > 0 THEN h.cfg.casual /\ canStackDraw(h, c) ELSE canPlay(h, c, Pl(h, p).hand)
        laid(g) == [Upd(g, p, [Pl(g, p) EXCEPT !.hand = @ \ {c}])
                       EXCEPT !.unoPeer = None, !.canPass = None, !.top = c, !.rest = @ \cup {g.top}]
    IN  IF ~ok THEN {h}
        ELSE UNION {IF Wild(c) THEN {[laid(g) EXCEPT !.choice = p]}
                    ELSE afterCardPlayed([laid(g) EXCEPT !.color = c.color], p, c) : g \in checkUnoPenalty(h, p)}
chooseColor(h, p, color) ==
    LET g == [h EXCEPT !.color = color, !.choice = None]
        on == IF g.top.value = "wild4" THEN resolveDraw(g, 4, "draw4") ELSE {Turn(g)}
    IN  IF h.choice # p THEN {h}
        ELSE IF Pl(g, p).hand # {} THEN {scheduleTurnTimer(x) : x \in on}
        ELSE UNION {finishRound(x) : x \in IF g.top.value = "wild4" THEN on ELSE {g}}
drawCard(h, p) ==
    LET told == {[g EXCEPT !.unoPeer = IF @ = p THEN p ELSE None] : g \in checkUnoPenalty(h, p)}
        drawn(g) == UNION {LET new == Pl(x, p).hand \ Pl(g, p).hand
                           IN  IF new = {} THEN {scheduleTurnTimer(Turn([x EXCEPT !.canPass = None]))}
                               ELSE IF \E c \in new : canPlay(x, c, Pl(x, p).hand) THEN {[x EXCEPT !.canPass = p]}
                               ELSE {scheduleTurnTimer(Turn([x EXCEPT !.canPass = None]))} : x \in drawOne(g, p)}
    IN  IF ~OnTurn(h, p) THEN {h}
        ELSE UNION {IF g.stack > 0 THEN forceDrawStack(g, p) ELSE drawn(g) : g \in told}
passTurn(h, p) ==
    IF h.canPass # p THEN {h}
    ELSE {scheduleTurnTimer(Turn([g EXCEPT !.canPass = None, !.unoPeer = None])) : g \in checkUnoPenalty(h, p)}
callUno(h, p) ==
    IF p \notin Ids(h) \/ Cardinality(Pl(h, p).hand) # 1 THEN {h}
    ELSE {[Upd(h, p, [Pl(h, p) EXCEPT !.uno = TRUE]) EXCEPT !.unoPeer = IF @ = p THEN None ELSE @]}

applyAction(h, p, a) ==
    CASE a.type = "play" -> playCard(h, p, a.card)
      [] a.type = "chooseColor" -> chooseColor(h, p, a.color)
      [] a.type = "draw" -> drawCard(h, p)
      [] a.type = "pass" -> passTurn(h, p)
      [] a.type = "callUno" -> callUno(h, p)

(* startGame and pickStarterCard.                                          *)
startGame(h) ==
    LET blank == [h EXCEPT !.choice = None, !.stack = 0, !.stype = None, !.canPass = None, !.unoPeer = None,
                           !.dir = 1, !.timer = FALSE, !.top = None, !.rest = {}, !.draw = Deck, !.out = {},
                           !.players = [i \in DOMAIN @ |-> [@[i] EXCEPT !.hand = {}, !.uno = FALSE]]]
        dealt == FoldSet(LAMBDA p, H : UNION {drawCardsFor(g, p, HandSize) : g \in H}, {blank}, Ids(h))
        plain(g) == {c \in g.draw : ~Special(c)}
        starts(g) == {[g EXCEPT !.top = c, !.draw = @ \ {c}, !.color = x] :
                        c \in IF plain(g) # {} THEN plain(g) ELSE g.draw, x \in Colors}
        first(g) == {x \in starts(g) : Wild(x.top) \/ x.color = x.top.color}
        d(g) == IF g.dealer < 0 THEN 0 ELSE nextIndex(g, g.dealer)
        go(g) == scheduleTurnTimer([g EXCEPT !.rounds = @ + 1, !.phase = "playing", !.dealer = d(g),
                                             !.toAct = nextIndex(g, d(g))])
    IN  IF h.phase \notin {"lobby", "roundOver"} \/ Cardinality(Active(h)) < 2 THEN {h}
        ELSE UNION {IF g.draw = {} THEN {[g EXCEPT !.phase = "lobby"]} ELSE {go(x) : x \in first(g)} : g \in dealt}

(***************************************************************************)
(* Players come, go, vanish and return.                                    *)
(***************************************************************************)
Blank(p, seat) == [id |-> p, seat |-> seat, hand |-> {}, uno |-> FALSE, conn |-> TRUE]
addPlayer(h, p) ==
    LET seat == Min((0..7) \ {h.players[i].seat : i \in DOMAIN h.players})
        before == SelectSeq(h.players, LAMBDA q : q.seat < seat)
    IN  [h EXCEPT !.players = before \o <<Blank(p, seat)>> \o SubSeq(@, Len(before) + 1, Len(@))]

Released(h, p) == [h EXCEPT !.canPass = IF @ = p THEN None ELSE @, !.unoPeer = IF @ = p THEN None ELSE @]
Spliced(h, p) ==
    LET n == Len(h.players) - 1
        i == IF Idx(h, p) < h.toAct THEN h.toAct - 1 ELSE h.toAct
    IN  [h EXCEPT !.players = SelectSeq(@, LAMBDA q : q.id # p), !.toAct = IF i >= n THEN 0 ELSE i,
                  !.dealer = IF @ >= n THEN Max({0, n - 1}) ELSE @, !.out = @ \cup Pl(h, p).hand]
AfterDrop(h, wasActor) ==
    IF ~Playing(h) THEN h
    ELSE IF Cardinality(Active(h)) < 2 THEN [h EXCEPT !.phase = "lobby", !.timer = FALSE]
    ELSE IF wasActor THEN scheduleTurnTimer(IF ToAct(h) \in Active(h) THEN h ELSE Turn(h)) ELSE h
dropPlayer(h, p) ==
    IF p \notin Ids(h) \/ p = Host THEN h
    ELSE AfterDrop([Released(Spliced(h, p), p) EXCEPT !.choice = IF @ = p THEN None ELSE @], Idx(h, p) = h.toAct)

handleDisconnect(h, p) ==
    LET off == Upd(h, p, [Pl(h, p) EXCEPT !.conn = FALSE])
        two == Cardinality(Active(off)) >= 2
        named == [off EXCEPT !.choice = None, !.color = IF @ = None THEN "red" ELSE @]
        eased == [off EXCEPT !.stack = 0, !.stype = None]
        on == IF h.choice = p
              THEN IF h.top.value = "wild4" /\ ~h.cfg.casual THEN resolveDraw(named, 4, "draw4") ELSE {Turn(named)}
              ELSE IF Idx(h, p) = h.toAct THEN {IF two THEN Turn(eased) ELSE eased} ELSE {off}
    IN  IF p \notin Ids(h) THEN {h}
        ELSE IF ~Playing(h) THEN {dropPlayer(h, p)}
        ELSE IF ~Pl(h, p).conn THEN {h}
        ELSE {IF two THEN scheduleTurnTimer(g) ELSE [g EXCEPT !.timer = FALSE] : g \in {Released(x, p) : x \in on}}

reconnectPlayer(h, p) ==
    LET g == Upd(h, p, [Pl(h, p) EXCEPT !.conn = TRUE])
    IN  IF p \notin Ids(h) THEN h ELSE IF Playing(h) THEN scheduleTurnTimer(g) ELSE g

(***************************************************************************)
(* Wires, ui.js and the page.                                              *)
(***************************************************************************)
onJoin(s, p) ==
    IF p \in Ids(s.h) THEN Saved(s, {reconnectPlayer(s.h, p)})
    ELSE IF s.h.phase \in {"lobby", "roundOver"} /\ (s.h.cfg.open \/ p \in s.h.invited) /\ Len(s.h.players) < 8
    THEN Saved(s, {addPlayer(s.h, p)})
    ELSE {[s EXCEPT !.at = @ \ {p}]}
(* The page (GameTable, UnoHand, ColorPicker) of one player.               *)
TableActions == {[type |-> "play", card |-> c] : c \in Deck}
                \cup {[type |-> "chooseColor", color |-> c] : c \in Colors}
                \cup {[type |-> t] : t \in {"draw", "pass", "callUno"}}

Restored(s) == [NewHost EXCEPT
    !.players = [i \in DOMAIN s.saved.players |->
        LET p == s.saved.players[i] IN [Blank(p[1], p[2]) EXCEPT !.conn = p[1] \in s.conn \cup {Host}]],
    !.rounds = s.saved.rounds, !.cfg = s.saved.cfg]
Launch ==   \* launchHostGame
    /\ game.h = None /\ game.tables < MaxTables
    /\ LET h == IF game.saved = None THEN addPlayer(NewHost, Host) ELSE Restored(game)
       IN  game' \in Saved([game EXCEPT !.tables = @ + 1], {h})

PeerConnected(p) ==   \* both sides: the host reconnects the seat, the guest joins again
    /\ p \notin game.conn
    /\ LET s == [game EXCEPT !.conn = @ \cup {p}]
           back == IF s.h # None /\ p \in Ids(s.h) THEN Saved(s, {reconnectPlayer(s.h, p)}) ELSE {s}
       IN  game' \in UNION {IF p \in t.at /\ t.h # None THEN onJoin(t, p) ELSE {t} : t \in back}
PeerDisconnected(p) ==
    /\ p \in game.conn
    /\ LET s == [game EXCEPT !.conn = @ \ {p}]
       IN  game' \in IF s.h = None \/ p \notin Ids(s.h) THEN {s} ELSE Saved(s, handleDisconnect(s.h, p))
joinGame(p) == p \in game.conn \ game.at /\ game.h # None /\ game' \in onJoin([game EXCEPT !.at = @ \cup {p}], p)
GuestChild(p) ==
    /\ p \in game.conn \cap game.at /\ game.h # None
    /\ \/ \E a \in TableActions : game' \in Set(game, applyAction(game.h, p, a))
       \/ game' \in Saved([game EXCEPT !.at = @ \ {p}], {dropPlayer(game.h, p)})

updateSettings(s, cfg) == Saved(s, {[s.h EXCEPT !.cfg = cfg]})
kickPlayer(s, p) == Saved([s EXCEPT !.at = @ \ ({p} \cap s.conn)], {dropPlayer(s.h, p)})
invitePeer(s, p) == [s EXCEPT !.h.invited = @ \cup {p}]
saveNow(s) == IF Playing(s.h) THEN {s} ELSE {checkpoint(s)}

(* The lobby and the panels of the host's page.                            *)
LobbyView(s) == Saved(s, startGame(s.h))
SettingsPanel(s) == UNION {updateSettings(s, cfg) : cfg \in Settings}
PlayerManagement(s) == {invitePeer(s, p) : p \in s.conn \ Ids(s.h)} \cup UNION {kickPlayer(s, p) : p \in Ids(s.h) \ {Host}}

HostChild ==
    /\ game.h # None
    /\ \/ \E a \in TableActions : game' \in Set(game, applyAction(game.h, Host, a))
       \/ game.h.rounds < MaxRounds /\ game' \in LobbyView(game)
       \/ game' \in SettingsPanel(game) \cup PlayerManagement(game) \cup saveNow(game)
       \/ game' = [game EXCEPT !.h = None, !.at = @ \ game.conn]                         \* leave
HostCrash == game.h # None /\ game' = [game EXCEPT !.h = None, !.conn = {}]

TurnTimeout ==
    /\ game.h # None /\ game.h.timer
    /\ LET h == [game.h EXCEPT !.timer = FALSE]
           p == ToAct(h)
       IN  game' \in Set(game, IF ~Playing(h) \/ p = None THEN {h}
                               ELSE IF h.choice = p
                               THEN chooseColor(h, p, IF h.color = None THEN "red" ELSE h.color)
                               ELSE IF h.stack > 0 /\ ~h.cfg.casual THEN forceDrawStack(h, p) ELSE drawCard(h, p))

Init == game = [h |-> None, saved |-> None, at |-> {}, conn |-> {}, tables |-> 0]
Next == \/ Launch \/ HostChild \/ HostCrash \/ TurnTimeout
        \/ \E p \in Guests : PeerConnected(p) \/ PeerDisconnected(p) \/ joinGame(p) \/ GuestChild(p)

(***************************************************************************)
(* Properties.                                                             *)
(***************************************************************************)
(* Every card of the deck is in exactly one place (a hand, the draw pile,  *)
(* the discards, or gone with a player who left), through reshuffles in    *)
(* the middle of a draw, penalties, stacks, kicks and reconnections.       *)
CardsConserved ==
    game.h # None /\ game.h.top # None =>
        LET h == game.h
            place(c) == Cardinality({p \in Ids(h) : c \in Pl(h, p).hand})
                        + Cardinality({x \in {"draw", "rest", "out"} : c \in h[x]}) + (IF c = h.top THEN 1 ELSE 0)
        IN  \A c \in Deck : place(c) = 1

(* A running round always has an actor, and a colour that is still to be   *)
(* chosen is owed by that actor: while it is owed nobody else may play, so *)
(* a debt of a player who vanished, left or was kicked would stop the game.*)
DebtOfActor ==
    game.h # None /\ Playing(game.h) => ToAct(game.h) # None /\ game.h.choice \in {None, ToAct(game.h)}

=============================================================================
