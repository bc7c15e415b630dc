-------------------------------- MODULE Kart --------------------------------
(***************************************************************************)
(* The kart plugin: engine.js (the host: lobby, countdown, race, results), *)
(* ui.js and the game page.  Where the cars are is left out: which of them *)
(* are known, who has finished and the timers that end a race remain.  A   *)
(* wire takes one step; a guest at the table may report at any time.       *)
(*                                                                         *)
(* game.h is the engine, game.at the guests that hold a clientState,       *)
(* game.conn those connected.  Nothing is resumed after a crash.           *)
(***************************************************************************)
EXTENDS Integers, Sequences, FiniteSets

CONSTANTS Host, Guests, Bot, None,
          Settings,      \* what the host may set: [bots, open]
          Colors,
          MaxRaces,      \* bound: races started
          MaxTables      \* bound: tables opened

VARIABLE game

Ids(h) == {h.players[i].id : i \in DOMAIN h.players}
Online(h) == {h.players[i].id : i \in {i \in DOMAIN h.players : h.players[i].conn}}
Racing(h) == h.phase \in {"countdown", "racing"}

NewHost == [phase |-> "lobby", players |-> <<>>, race |-> 0, cars |-> {}, consumed |-> FALSE, done |-> {},
            results |-> {}, go |-> FALSE, grace |-> FALSE, end |-> FALSE, relay |-> FALSE, stops |-> FALSE,
            invited |-> {}, cfg |-> [bots |-> 0, open |-> FALSE]]
clearTimers(h) == [h EXCEPT !.go = FALSE, !.grace = FALSE, !.end = FALSE]
botRoster(h) == IF h.cfg.bots > 0 THEN {Bot} ELSE {}
racers(h) == Ids(h) \cup botRoster(h)
freeColor(h) == CHOOSE c \in Colors : \A i \in DOMAIN h.players : h.players[i].color # c

addPlayer(h, p) ==
    LET at == {i \in DOMAIN h.players : h.players[i].id = p}
        free == (0..7) \ {h.players[i].seat : i \in DOMAIN h.players}
        seat == CHOOSE x \in free : \A y \in free : x <= y
        before == SelectSeq(h.players, LAMBDA q : q.seat < seat)
        new == [id |-> p, seat |-> seat, color |-> freeColor(h), conn |-> TRUE]
    IN  IF at # {} THEN [h EXCEPT !.players = [i \in DOMAIN @ |-> [@[i] EXCEPT !.conn = @ \/ i \in at]]]
        ELSE [h EXCEPT !.players = before \o <<new>> \o SubSeq(@, Len(before) + 1, Len(@))]

(* The order of the results is by time, then by progress; what is kept is  *)
(* who is named and who of them has a time.                                *)
finishRace(h) ==
    IF ~Racing(h) THEN h
    ELSE [clearTimers(h) EXCEPT !.phase = "finished", !.stops = TRUE,
                                !.results = {<<p, p \in h.done>> : p \in racers(h)}]
checkRaceComplete(h) ==
    IF h.phase # "racing" THEN h
    ELSE IF Online(h) = {} THEN finishRace(h)
    ELSE IF Online(h) \subseteq h.done THEN [h EXCEPT !.end = TRUE] ELSE h

Offline(h, p) ==
    [h EXCEPT !.players = [i \in DOMAIN @ |-> [@[i] EXCEPT !.conn = @ /\ h.players[i].id # p]], !.cars = @ \ {p}]
(* Mutant: a driver who vanishes is not a reason to look at the race.      *)
removePlayerUnseen(h, p) ==
    IF p \notin Ids(h) \/ p = Host THEN h
    ELSE IF h.phase = "lobby" THEN [h EXCEPT !.players = SelectSeq(@, LAMBDA q : q.id # p)] ELSE Offline(h, p)
removePlayer(h, p) ==
    IF p \notin Ids(h) \/ p = Host THEN h
    ELSE IF h.phase = "lobby" THEN [h EXCEPT !.players = SelectSeq(@, LAMBDA q : q.id # p)]
    ELSE checkRaceComplete(Offline(h, p))

setColor(h, p, c) ==
    IF p \notin Ids(h) \/ h.phase # "lobby" \/ \E i \in DOMAIN h.players : h.players[i].id # p /\ h.players[i].color = c
    THEN h
    ELSE [h EXCEPT !.players = [i \in DOMAIN @ |-> IF @[i].id = p THEN [@[i] EXCEPT !.color = c] ELSE @[i]]]

Emptied(h) == [clearTimers(h) EXCEPT !.cars = {}, !.consumed = FALSE, !.done = {}, !.results = {}]
startRace(h) ==
    IF h.phase \notin {"lobby", "finished"} THEN h
    ELSE [Emptied(h) EXCEPT !.race = @ + 1, !.phase = "countdown", !.relay = TRUE, !.go = TRUE]
backToLobby(h) ==
    IF h.phase = "lobby" THEN h
    ELSE [Emptied(h) EXCEPT !.players = SelectSeq(@, LAMBDA q : q.conn), !.phase = "lobby", !.relay = FALSE]

recordFinish(h, id) ==
    IF h.phase # "racing" \/ id \in h.done THEN h
    ELSE checkRaceComplete([h EXCEPT !.done = @ \cup {id}, !.grace = TRUE])
storeCar(h, id, race) == IF Racing(h) /\ race = h.race THEN [h EXCEPT !.cars = @ \cup {id}] ELSE h
noteHit(h) == [h EXCEPT !.consumed = TRUE]

(* What a page reports (RaceScreen): where its car is, hits and the        *)
(* finish; the host also speaks for the bots.  A finish names no race.     *)
applyAction(h, p, a) ==
    CASE a.type = "car" -> LET g == storeCar(h, p, a.race) IN IF p = Host THEN storeCar(g, Bot, a.race) ELSE g
      [] a.type = "hit" -> noteHit(h)
      [] a.type = "finish" -> recordFinish(h, IF p = Host /\ a.id = Bot THEN Bot ELSE p)
      [] a.type = "set_color" -> setColor(h, p, a.color)
RaceScreen(h) == {[type |-> "car", race |-> r] : r \in {h.race, h.race - 1}} \cup {[type |-> "hit"]}
                 \cup {[type |-> "finish", id |-> i] : i \in {Host, Bot}}
Lobby == {[type |-> "set_color", color |-> c] : c \in Colors}

onWire(s, p, w) ==
    IF w.type = "join"
    THEN IF s.h.phase = "lobby" /\ (s.h.cfg.open \/ p \in s.h.invited) /\ (p \in Ids(s.h) \/ Len(s.h.players) < 8)
         THEN [s EXCEPT !.h = addPlayer(@, p)] ELSE [s EXCEPT !.at = @ \ {p}]
    ELSE IF w.type = "leave" THEN [s EXCEPT !.h = removePlayer(@, p)]
    ELSE IF p \in Ids(s.h) THEN [s EXCEPT !.h = applyAction(@, p, w)] ELSE s

updateSettings(h, cfg) == [h EXCEPT !.cfg = cfg]
invitePeer(h, p) == [h EXCEPT !.invited = @ \cup {p}]
kickPlayer(s, p) == [s EXCEPT !.at = @ \ ({p} \cap s.conn), !.h = removePlayer(@, p)]

launchHostGame == /\ game.h = None /\ game.tables < MaxTables
                  /\ game' = [game EXCEPT !.h = addPlayer(NewHost, Host), !.tables = @ + 1]
PeerConnected(p) ==
    /\ p \notin game.conn
    /\ LET s == [game EXCEPT !.conn = @ \cup {p}]
       IN  game' = IF p \in s.at /\ s.h # None THEN onWire(s, p, [type |-> "join"]) ELSE s
PeerDisconnected(p) ==
    /\ p \in game.conn
    /\ LET s == [game EXCEPT !.conn = @ \ {p}]
       IN  game' = IF s.h = None THEN s ELSE [s EXCEPT !.h = removePlayer(@, p)]
joinGame(p) == /\ p \in game.conn \ game.at /\ game.h # None
               /\ game' = onWire([game EXCEPT !.at = @ \cup {p}], p, [type |-> "join"])
(* onFromChild at a guest and at the host.                                 *)
GuestChild(p) ==
    /\ p \in game.conn \cap game.at /\ game.h # None
    /\ \/ \E a \in RaceScreen(game.h) \cup Lobby : game' = onWire(game, p, a)
       \/ game' = onWire([game EXCEPT !.at = @ \ {p}], p, [type |-> "leave"])
HostChild ==
    /\ game.h # None
    /\ \/ \E a \in RaceScreen(game.h) \cup Lobby : game' = [game EXCEPT !.h = applyAction(@, Host, a)]
       \/ game.h.race < MaxRaces /\ game' = [game EXCEPT !.h = startRace(@)]
       \/ game' = [game EXCEPT !.h = backToLobby(@)]
       \/ \E cfg \in Settings : game' = [game EXCEPT !.h = updateSettings(@, cfg)]
       \/ \E p \in game.conn \ Ids(game.h) : game' = [game EXCEPT !.h = invitePeer(@, p)]
       \/ \E p \in Ids(game.h) \ {Host} : game' = kickPlayer(game, p)
leaveGame == game.h # None /\ game' = [game EXCEPT !.h = None, !.at = @ \ game.conn]
HostCrash == game.h # None /\ game' = [game EXCEPT !.h = None, !.conn = {}]

(* The timers: the end of the countdown, the grace after the first finish, *)
(* the pause after the last, and the delayed end of the relay.             *)
GoTimer == /\ game.h # None /\ game.h.go
           /\ game' = [game EXCEPT !.h.go = FALSE, !.h.phase = IF @ = "countdown" THEN "racing" ELSE @]
GraceTimer == game.h # None /\ game.h.grace /\ game' = [game EXCEPT !.h = finishRace([@ EXCEPT !.grace = FALSE])]
EndTimer == game.h # None /\ game.h.end /\ game' = [game EXCEPT !.h = finishRace([@ EXCEPT !.end = FALSE])]
StopRelay == /\ game.h # None /\ game.h.stops
             /\ game' = [game EXCEPT !.h.stops = FALSE, !.h.relay = @ /\ Racing(game.h)]

Init == game = [h |-> None, at |-> {}, conn |-> {}, tables |-> 0]
Next == \/ launchHostGame \/ HostChild \/ leaveGame \/ HostCrash \/ GoTimer \/ GraceTimer \/ EndTimer \/ StopRelay
        \/ \E p \in Guests : PeerConnected(p) \/ PeerDisconnected(p) \/ joinGame(p) \/ GuestChild(p)

(***************************************************************************)
(* Properties.                                                             *)
(***************************************************************************)
(* A race that can end has a timer running that ends it: the pause as soon *)
(* as every driver who is still connected has finished (in whatever order  *)
(* they finish, vanish or are removed), the grace after the first finish.  *)
RaceCloses ==
    game.h # None /\ game.h.phase = "racing" =>
        /\ Online(game.h) \subseteq game.h.done => game.h.end
        /\ game.h.done # {} => game.h.grace \/ game.h.end

(* The positions of the cars are relayed during every race, also one that  *)
(* begins before the delayed end of the relay of the race before it.       *)
RelayRuns == game.h # None /\ Racing(game.h) => game.h.relay
=============================================================================
