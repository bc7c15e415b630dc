------------------------------- MODULE Poker -------------------------------
(***************************************************************************)
(* The poker plugin (Texas Hold'em): engine.js with betting.js (the host), *)
(* ui.js and the game page.  Cards are left out: at a showdown any ranking *)
(* of the hands is possible.  A wire takes one step, and a guest at the    *)
(* table may send any action at any time, so an action that is late is one *)
(* of those considered.  The hands that autoStart begins are among those   *)
(* the host's page can begin.  Engine operations yield sets of outcomes.   *)
(*                                                                         *)
(* game.h is the engine, game.saved its checkpoint, game.at the guests     *)
(* that hold a clientState, game.conn those connected.  h.bank (the chips  *)
(* that were brought to the table) and h.torn (what changed the list of    *)
(* players while a hand was running) are history variables.                *)
(***************************************************************************)
EXTENDS Integers, Sequences, FiniteSets, FiniteSetsExt

CONSTANTS Host, Guests, Bot, None, Start, SmallBlind, BigBlind,
          Settings,    \* what the host may set: [ante, timed, open]
          MaxHands,    \* bound: hands played
          MaxTables,   \* bound: tables opened or resumed
          MaxGrants    \* bound: grants of chips by the host

VARIABLE game

Ids(h) == {h.players[i].id : i \in DOMAIN h.players}
Idx(h, p) == (CHOOSE i \in DOMAIN h.players : h.players[i].id = p) - 1
Pl(h, p) == h.players[Idx(h, p) + 1]
Upd(h, p, pl) == [h EXCEPT !.players[Idx(h, p) + 1] = pl]
InHand(h) == h.phase \notin {"lobby", "between"}
activeInHand(h) == {p \in Ids(h) : Pl(h, p).inHand /\ ~Pl(h, p).folded}
Live(h) == {p \in activeInHand(h) : ~Pl(h, p).allIn}
maxBet(h) == Max({Pl(h, p).bet : p \in activeInHand(h)} \cup {0})
ToAct(h) == IF h.toAct + 1 \in DOMAIN h.players THEN h.players[h.toAct + 1].id ELSE None
Sum(h, f(_)) == MapThenSumSet(f, DOMAIN h.players)

NewHost == [phase |-> "lobby", players |-> <<>>, dealer |-> -1, board |-> 0, pot |-> 0, minRaise |-> BigBlind,
            toAct |-> -1, acted |-> {}, timer |-> None, cfg |-> [ante |-> 0, timed |-> FALSE, open |-> FALSE],
            invited |-> {}, hands |-> 0, grants |-> 0, bank |-> 0, torn |-> {}]

checkpoint(s) == [s EXCEPT !.saved =
    [players |-> [i \in DOMAIN s.h.players |-> LET p == s.h.players[i] IN <<p.id, p.seat, p.chips, p.pending>>],
     hands |-> s.h.hands, cfg |-> s.h.cfg, grants |-> s.h.grants, bank |-> s.h.bank, torn |-> s.h.torn]]
Set(s, h) == [s EXCEPT !.h = h]

(***************************************************************************)
(* The betting.                                                            *)
(***************************************************************************)
NextOf(h, from, S) ==   \* the next seat of S after index from, or -1
    LET n == Len(h.players)
        ks == {k \in 1..n : h.players[((from + k + n) % n) + 1].id \in S}
    IN  IF ks = {} THEN -1 ELSE (from + Min(ks) + n) % n
(* Mutant: a player who has folded is asked again.                         *)
nextLiveSeatFolded(h, from) == NextOf(h, from, {p \in Ids(h) : Pl(h, p).inHand /\ ~Pl(h, p).allIn})
nextLiveSeat(h, from) == NextOf(h, from, Live(h))
Settle(h, i) == IF ToAct([h EXCEPT !.toAct = i]) \in Live(h) \/ nextLiveSeat(h, i) < 0 THEN i
                ELSE nextLiveSeat(h, i)
scheduleTurnTimer(h) ==   \* the timer folds for the player it was set for
    [h EXCEPT !.timer = IF h.cfg.timed /\ InHand(h) /\ ToAct(h) \in Live(h) \ {Bot} THEN ToAct(h) ELSE None]

bettingComplete(h) == \A p \in Live(h) : Pl(h, p).bet = maxBet(h) /\ p \in h.acted

(* buildSidePots and showdown: every level of the stakes is a pot that the *)
(* best hands among those who paid it share; the odd chips go to the first *)
(* of them, and a level nobody is left to claim is returned.  Without the  *)
(* community cards no two hands compare: the first player takes the pot.   *)
Paid(h, rank, p, cap) ==
    LET all == {q \in Ids(h) : Pl(h, q).inHand /\ Pl(h, q).total >= cap}
        elig == all \cap activeInHand(h)
        first == {q \in elig : \A r \in elig : Idx(h, q) <= Idx(h, r)}
        best == IF h.board < 5 THEN first ELSE {q \in elig : \A r \in elig : rank[q] >= rank[r]}
        win == IF elig = {} THEN all ELSE best
        levels == {Pl(h, q).total : q \in {q \in Ids(h) : Pl(h, q).inHand}}
        amount == (cap - Max({x \in levels : x < cap} \cup {0})) * Cardinality(all)
        place == Cardinality({q \in win : Idx(h, q) < Idx(h, p)})
    IN  IF p \notin win THEN 0
        ELSE amount \div Cardinality(win) + (IF place < amount % Cardinality(win) THEN 1 ELSE 0)
Over(h) == [h EXCEPT !.phase = "between", !.toAct = -1, !.timer = None]

(* Mutant: what remains of a pot that cannot be split evenly is dropped.   *)
showdownDropsOdd(s) ==
    LET h == s.h
        caps == {Pl(h, q).total : q \in {q \in Ids(h) : Pl(h, q).inHand}} \ {0}
        even(rank, p) == MapThenSumSet(LAMBDA c : Paid(h, rank, p, c), caps)
    IN  {checkpoint(Set(s, Over([h EXCEPT !.players = [i \in DOMAIN @ |->
            [@[i] EXCEPT !.chips = @ + 2 * (even(rank, h.players[i].id) \div 2)]]]))) :
            rank \in [activeInHand(h) -> 1..2]}
showdown(s) ==
    LET h == s.h
        caps == {Pl(h, q).total : q \in {q \in Ids(h) : Pl(h, q).inHand}} \ {0}
        won(rank, p) == MapThenSumSet(LAMBDA c : Paid(h, rank, p, c), caps)
    IN  {checkpoint(Set(s, Over([h EXCEPT !.players = [i \in DOMAIN @ |->
            [@[i] EXCEPT !.chips = @ + won(rank, h.players[i].id)]]]))) : rank \in [activeInHand(h) -> 1..2]}

Uncontested(h) == Cardinality(activeInHand(h)) = 1
awardUncontested(s) ==
    LET w == CHOOSE p \in activeInHand(s.h) : TRUE
    IN  checkpoint(Set(s, Over(Upd(s.h, w, [Pl(s.h, w) EXCEPT !.chips = @ + s.h.pot]))))

runoutBoard(h) == [h EXCEPT !.board = 5, !.phase = "river", !.timer = None]
advanceStreet(h) ==
    LET g == [h EXCEPT !.players = [i \in DOMAIN @ |-> [@[i] EXCEPT !.bet = IF h.players[i].inHand THEN 0 ELSE @]],
                       !.minRaise = BigBlind, !.acted = {},
                       !.board = IF @ = 0 THEN 3 ELSE @ + 1,
                       !.phase = IF @ = "preflop" THEN "flop" ELSE IF @ = "flop" THEN "turn" ELSE "river"]
        two == Cardinality({p \in Ids(g) : Pl(g, p).inHand}) <= 2
    IN  scheduleTurnTimer([g EXCEPT !.toAct =
            Settle(g, IF two THEN g.dealer % Len(g.players) ELSE nextLiveSeat(g, g.dealer))])

(* What one player pays, and the end of applyAction.                       *)
Pay(h, p, n) ==
    LET pl == Pl(h, p)
    IN  [Upd(h, p, [pl EXCEPT !.chips = @ - n, !.bet = @ + n, !.total = @ + n, !.allIn = @ \/ pl.chips = n])
           EXCEPT !.pot = @ + n]
Raised(h, p, n) ==
    LET g == Pay(h, p, n)
        size == Pl(g, p).bet - maxBet(h)
    IN  IF size >= h.minRaise THEN [g EXCEPT !.minRaise = Max({BigBlind, size}), !.acted = {p}]
        ELSE [g EXCEPT !.acted = @ \cup {p}]
Continue(s) ==
    LET h == s.h
        live == Live(h) # {}
    IN  IF Uncontested(h) THEN {awardUncontested(s)}
        ELSE IF ~bettingComplete(h) THEN {Set(s, scheduleTurnTimer([h EXCEPT !.toAct = nextLiveSeat(h, @)]))}
        ELSE IF ~live THEN showdown(Set(s, runoutBoard(h)))
        ELSE IF h.phase = "river" THEN showdown(s)
        ELSE {Set(s, advanceStreet(h))}

Acted(h, p) == [h EXCEPT !.acted = @ \cup {p}]
applyAction(s, p, act) ==
    LET h == s.h
        pl == Pl(h, p)
        toCall == maxBet(h) - pl.bet
        most == pl.bet + pl.chips
        target == Min({most, Max({maxBet(h) + h.minRaise, act.to})})
    IN  IF p # ToAct(h) \/ p \notin Live(h) THEN {s}
        ELSE CASE act.type = "fold" -> Continue(Set(s, Acted(Upd(h, p, [pl EXCEPT !.folded = TRUE]), p)))
               [] act.type = "check" -> IF toCall # 0 THEN {s} ELSE Continue(Set(s, Acted(h, p)))
               [] act.type = "call" -> Continue(Set(s, Acted(Pay(h, p, Min({toCall, pl.chips})), p)))
               [] act.type = "raise" -> IF most <= maxBet(h) THEN {s}
                                        ELSE Continue(Set(s, Raised(h, p, target - pl.bet)))
               [] act.type = "all_in" -> Continue(Set(s, Raised(h, p, pl.chips)))

startHand(s) ==
    LET given == [s.h EXCEPT !.players = [i \in DOMAIN @ |->
                    [@[i] EXCEPT !.chips = @ + s.h.players[i].pending, !.pending = 0]]]
        ready == {p \in Ids(given) : Pl(given, p).chips > 0 /\ Pl(given, p).connected}
        dealt == [given EXCEPT !.players = [i \in DOMAIN @ |->
                    [@[i] EXCEPT !.folded = given.players[i].chips = 0, !.allIn = FALSE, !.bet = 0, !.total = 0,
                                 !.inHand = given.players[i].id \in ready]],
                  !.board = 0, !.pot = 0, !.minRaise = BigBlind, !.acted = {}, !.hands = @ + 1,
                  !.dealer = NextOf(given, @, ready), !.phase = "preflop"]
        d == dealt.dealer
        anted == [dealt EXCEPT
                    !.players = [i \in DOMAIN @ |->
                        LET a == IF @[i].inHand THEN Min({dealt.cfg.ante, @[i].chips}) ELSE 0
                        IN  [@[i] EXCEPT !.chips = @ - a, !.total = @ + a,
                                         !.allIn = dealt.cfg.ante > 0 /\ dealt.players[i].inHand
                                                   /\ dealt.players[i].chips = a]],
                    !.pot = Sum(dealt, LAMBDA i : IF dealt.players[i].inHand
                                                  THEN Min({dealt.cfg.ante, dealt.players[i].chips}) ELSE 0)]
        two == Cardinality(ready) = 2
        sb == IF two THEN d ELSE NextOf(dealt, d, ready)
        bb == NextOf(dealt, sb, ready)
        blind(h, i, n) == LET p == h.players[i + 1].id IN Pay(h, p, Min({n, Pl(h, p).chips}))
        h == blind(blind(anted, sb, SmallBlind), bb, BigBlind)
        g == [h EXCEPT !.toAct = Settle(h, IF two THEN d ELSE nextLiveSeat(h, bb))]
    IN  IF InHand(s.h) THEN {s}
        ELSE IF Cardinality(ready) < 2 THEN {Set(s, [given EXCEPT !.timer = None])}
        ELSE IF ToAct(g) \notin Live(g) THEN showdown(Set(s, g))
        ELSE {Set(s, scheduleTurnTimer(g))}

(***************************************************************************)
(* The players.                                                            *)
(***************************************************************************)
Blank(p, seat) == [id |-> p, seat |-> seat, chips |-> Start, pending |-> 0, folded |-> FALSE, allIn |-> FALSE,
                   bet |-> 0, total |-> 0, inHand |-> FALSE, connected |-> TRUE]
addPlayer(s, p) ==
    LET seat == Min((0..9) \ {s.h.players[i].seat : i \in DOMAIN s.h.players})
        before == SelectSeq(s.h.players, LAMBDA q : q.seat < seat)
    IN  IF p \in Ids(s.h) THEN Set(s, Upd(s.h, p, [Pl(s.h, p) EXCEPT !.connected = TRUE]))
        ELSE Set(s, [s.h EXCEPT !.players = before \o <<Blank(p, seat)>> \o SubSeq(@, Len(before) + 1, Len(@)),
                                !.bank = @ + Start])
Gone(h, p) == [h EXCEPT !.players = SelectSeq(@, LAMBDA q : q.id # p), !.bank = @ - Pl(h, p).chips - Pl(h, p).pending]

Torn(h, why) == [h EXCEPT !.torn = IF InHand(h) THEN @ \cup {why} ELSE @]

removePlayer(s, p) ==
    LET h == s.h
        off == Upd(h, p, [Pl(h, p) EXCEPT !.connected = FALSE])
        out == [Acted(Upd(off, p, [Pl(off, p) EXCEPT !.folded = TRUE]), p) EXCEPT !.timer = None]
        d == IF Idx(h, p) < h.dealer THEN h.dealer - 1 ELSE h.dealer
    IN  IF p \notin Ids(h) THEN {s}
        ELSE IF Pl(h, p).inHand /\ InHand(h)
        THEN IF ToAct(h) = p THEN applyAction(Set(s, off), p, [type |-> "fold", to |-> 0])
             ELSE IF Uncontested(out) THEN {awardUncontested(Set(s, out))} ELSE {Set(s, out)}
        ELSE {Set(s, [Gone(Torn(h, "seats"), p) EXCEPT !.dealer = Min({d, Len(h.players) - 2})])}

kickPlayer(s, p) ==
    LET h == Torn(s.h, "kick")
        folds == Pl(h, p).inHand /\ InHand(h) /\ ~Pl(h, p).folded
        out == [Acted(Upd(h, p, [Pl(h, p) EXCEPT !.folded = TRUE]), p) EXCEPT !.timer = None]
        won == folds /\ Uncontested(out)
        f == IF won THEN awardUncontested(Set(s, out)).h
             ELSE IF folds /\ ToAct(h) = p THEN scheduleTurnTimer([out EXCEPT !.toAct = nextLiveSeat(out, @)])
             ELSE IF folds THEN out ELSE h
        i == Idx(h, p)
        shift(x) == Min({IF i < x THEN x - 1 ELSE x, Max({0, Len(h.players) - 2})})
    IN  IF p \notin Ids(h) THEN s
        ELSE [checkpoint(Set(s, [Gone(f, p) EXCEPT !.dealer = shift(@), !.toAct = shift(@)])) EXCEPT !.at = @ \ {p}]

(***************************************************************************)
(* Wires, ui.js and the page.                                              *)
(***************************************************************************)
onWire(s, p, w) ==
    LET ok == ~InHand(s.h) /\ (s.h.cfg.open \/ p \in s.h.invited)
    IN  CASE w.type = "join" -> IF ok THEN {addPlayer(s, p)} ELSE {[s EXCEPT !.at = @ \ {p}]}
          [] w.type = "leave" -> removePlayer(s, p)
          [] OTHER -> applyAction(s, p, w)

Raises == 1..(2 * Start)
(* The actions of the page of the player that is to act.                   *)
TableActions == {[type |-> t, to |-> 0] : t \in {"fold", "check", "call", "all_in"}}
                \cup {[type |-> "raise", to |-> n] : n \in Raises}

launchHostGame(s, h) == checkpoint(addPlayer([s EXCEPT !.h = h], Host))
Restored(s) == [NewHost EXCEPT
    !.players = [i \in DOMAIN s.saved.players |-> LET p == s.saved.players[i] IN
        [Blank(p[1], p[2]) EXCEPT !.chips = p[3], !.pending = p[4], !.connected = p[1] \in s.conn \cup {Host, Bot}]],
    !.hands = s.saved.hands, !.cfg = s.saved.cfg,
    !.grants = s.saved.grants, !.bank = s.saved.bank, !.torn = s.saved.torn]
Launch == /\ game.h = None /\ game.tables < MaxTables
          /\ game' = launchHostGame([game EXCEPT !.tables = @ + 1], IF game.saved = None THEN NewHost ELSE Restored(game))

PeerConnected(p) == /\ p \notin game.conn
                    /\ LET s == [game EXCEPT !.conn = @ \cup {p}]
                       IN  game' \in IF p \in s.at /\ s.h # None THEN onWire(s, p, [type |-> "join"]) ELSE {s}
PeerDisconnected(p) == /\ p \in game.conn
                       /\ LET s == [game EXCEPT !.conn = @ \ {p}]
                          IN  game' \in IF s.h = None THEN {s} ELSE removePlayer(s, p)
joinGame(p) == /\ p \in game.conn \ game.at /\ game.h # None
               /\ game' \in onWire([game EXCEPT !.at = @ \cup {p}], p, [type |-> "join"])
GuestChild(p) ==
    /\ p \in game.conn \cap game.at /\ game.h # None
    /\ \/ \E a \in TableActions : game' \in onWire(game, p, a)
       \/ game' \in onWire([game EXCEPT !.at = @ \ {p}], p, [type |-> "leave"])

updateSettings(s, cfg) ==
    LET h == [s.h EXCEPT !.cfg = cfg]
    IN  IF InHand(h) THEN Set(s, scheduleTurnTimer(h)) ELSE checkpoint(Set(s, h))
addChips(s, p) ==
    LET h == [s.h EXCEPT !.grants = @ + 1, !.bank = @ + 1]
    IN  IF InHand(h) THEN Set(s, Upd(h, p, [Pl(h, p) EXCEPT !.pending = @ + 1]))
        ELSE checkpoint(Set(s, Upd(h, p, [Pl(h, p) EXCEPT !.chips = @ + 1])))
removeChips(s, p) ==
    LET n == Min({1, Pl(s.h, p).chips})
    IN  IF InHand(s.h) THEN s
        ELSE checkpoint(Set(s, [Upd(s.h, p, [Pl(s.h, p) EXCEPT !.chips = @ - n]) EXCEPT !.bank = @ - n]))

invitePeer(s, p) == [s EXCEPT !.h.invited = @ \cup {p}]

(* The lobby and the panels of the host's page.                            *)
LobbyView(s) ==   \* the button is off in a lobby without two players who can play
    IF s.h.phase = "lobby" /\ Cardinality({p \in Ids(s.h) : Pl(s.h, p).chips > 0 /\ Pl(s.h, p).connected}) < 2
    THEN {} ELSE startHand(s)
SettingsPanel(s) == {updateSettings(s, cfg) : cfg \in Settings}
PlayerManagement(s) ==
    {invitePeer(s, p) : p \in s.conn \ Ids(s.h)} \cup {kickPlayer(s, p) : p \in Ids(s.h) \ {Host}}
    \cup (IF s.h.grants < MaxGrants THEN UNION {{addChips(s, p), removeChips(s, p)} : p \in Ids(s.h)} ELSE {})

HostChild ==
    /\ game.h # None
    /\ \/ \E a \in TableActions : game' \in applyAction(game, Host, a)
       \/ game.h.hands < MaxHands /\ game' \in LobbyView(game)
       \/ /\ Bot \notin Ids(game.h)                                    \* addDebugBot
          /\ game' = addPlayer([game EXCEPT !.h = Torn(@, "seats")], Bot)
       \/ game' \in removePlayer(game, Bot)                            \* removeDebugBot
       \/ game' \in SettingsPanel(game) \cup PlayerManagement(game)
       \/ ~InHand(game.h) /\ game' = checkpoint(game)                  \* saveNow
       \/ game' = [game EXCEPT !.h = None, !.at = @ \ game.conn]       \* leave
HostCrash == game.h # None /\ game' = [game EXCEPT !.h = None, !.conn = {}]

TurnTimeout == /\ game.h # None /\ game.h.timer # None
               /\ LET s == [game EXCEPT !.h.timer = None]
                  IN  game' \in IF game.h.timer \notin Ids(game.h) THEN {s}
                                ELSE applyAction(s, game.h.timer, [type |-> "fold", to |-> 0])
scheduleBotTurn ==
    /\ game.h # None /\ InHand(game.h) /\ ToAct(game.h) = Bot
    /\ LET toCall == maxBet(game.h) - Pl(game.h, Bot).bet
       IN  \E a \in IF toCall <= 0 THEN {[type |-> "check", to |-> 0], [type |-> "raise", to |-> maxBet(game.h) + BigBlind]}
                    ELSE {[type |-> "call", to |-> 0]}
                         \cup (IF toCall >= Pl(game.h, Bot).chips \/ toCall > 3 * BigBlind
                               THEN {[type |-> "fold", to |-> 0]} ELSE {}) :
               game' \in applyAction(game, Bot, a)

Init == game = [h |-> None, saved |-> None, at |-> {}, conn |-> {}, tables |-> 0]
Next == \/ Launch \/ HostChild \/ HostCrash \/ TurnTimeout \/ scheduleBotTurn
        \/ \E p \in Guests : PeerConnected(p) \/ PeerDisconnected(p) \/ joinGame(p) \/ GuestChild(p)

(***************************************************************************)
(* Properties.                                                             *)
(***************************************************************************)
(* Chips are neither made nor lost: what the players hold, what waits for  *)
(* them and the pot of a running hand are the chips brought to the table,  *)
(* through side pots, odd chips, returned bets, folds by time-out, players *)
(* who vanish, crashes and resumed tables (as long as the host has removed *)
(* nobody in the middle of a hand).                                        *)
ChipsConserved ==
    game.h # None /\ "kick" \notin game.h.torn =>
        LET h == game.h IN
        Sum(h, LAMBDA i : h.players[i].chips + h.players[i].pending) + (IF InHand(h) THEN h.pot ELSE 0) = h.bank

(* A running hand waits for a player who can act: one in the hand, not     *)
(* folded and with chips left; otherwise no wire, timer or button could    *)
(* ever end it.  The engine keeps indices: it is promised as long as the   *)
(* list of players does not change while a hand is running.                *)
HandWaitsForLive == game.h # None /\ game.h.torn = {} /\ InHand(game.h) => ToAct(game.h) \in Live(game.h)

=============================================================================
