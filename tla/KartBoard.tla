----------------------------- MODULE KartBoard -----------------------------
(***************************************************************************)
(* Who is shown as having finished a kart race: the cars every driver's    *)
(* window sends (KartGame.js), the host's engine that relays them, the     *)
(* guests' ui.js and the windows that draw the board (KartGamePage.jsx).   *)
(*                                                                         *)
(* A car is [race, fin]: the race it was driven in and whether it has      *)
(* finished that race.  race and phase are the host's; st[p] is the state  *)
(* the plugin of p has, cc[p] the cars it keeps (clientCars); win[p] the   *)
(* window: the race its KartGame was made for, whether that has ended,     *)
(* whether p has finished, net the cars it got last (netRef), and the      *)
(* others it shows as finished.  What a window and its plugin tell one     *)
(* another is taken as one step, the wires between plugins are not.        *)
(*                                                                         *)
(* stale: the window of a new race began with the cars of an older one.    *)
(***************************************************************************)
EXTENDS Naturals, Sequences

CONSTANTS Host, Guests
CONSTANTS MaxRaces, MaxWire             \* bounds
VARIABLE board

Drivers == {Host} \cup Guests
NoCar == [race |-> 0, fin |-> FALSE]
NoCars == [p \in Drivers |-> NoCar]

(* updateRemote: a car that says it has finished is shown so from then on. *)
updateRemote(w, p) == [w EXCEPT !.shown = @ \cup {q \in Drivers \ {p} : w.net[q].fin}]
applyNet(w, p, net) == updateRemote([w EXCEPT !.net = net], p)
(* A new race makes a new KartGame (startRace); subscribeNet gives it the  *)
(* cars the window got last.                                               *)
Mount(w, p, race) ==
    applyNet([w EXCEPT !.race = race, !.ended = FALSE, !.fin = FALSE, !.shown = {}], p, w.net)
(* pushToWindow: the state, and the cars unless in the lobby.              *)
pushToWindow(s, p, cars) ==
    LET lobby == s.st[p].phase = "lobby"
        w == IF lobby THEN s.win[p] ELSE applyNet(s.win[p], p, cars)
        new == ~lobby /\ s.st[p].race # w.race
        v == CASE lobby -> [w EXCEPT !.race = 0, !.shown = {}]
               [] ~lobby /\ new -> Mount(w, p, s.st[p].race)
               [] OTHER -> w
    IN  [s EXCEPT !.win[p] = [v EXCEPT !.ended = @ \/ s.st[p].phase = "finished"],
                  !.stale = IF ~new THEN @
                            ELSE IF \E q \in Drivers : w.net[q].fin /\ w.net[q].race # s.st[p].race
                            THEN @ \cup {p} ELSE @ \ {p}]
(* pushState of the engine: to the guests, and to the host's own window.   *)
Room(s) == \A g \in Guests : Len(s.down[g]) < MaxWire
Send(s, m) == [s EXCEPT !.down = [g \in Guests |-> Append(@[g], m)]]
pushState(s) ==
    LET st == [race |-> s.race, phase |-> s.phase]
    IN  pushToWindow([Send(s, [t |-> "state", st |-> st]) EXCEPT !.st[Host] = st], Host, s.cars)

-----------------------------------------------------------------------------
startRace ==
    /\ board.phase \in {"lobby", "finished"} /\ board.n < MaxRaces /\ Room(board)
    /\ board' = pushState([board EXCEPT !.n = @ + 1, !.race = board.n + 1, !.phase = "racing", !.cars = NoCars])
finishRace ==
    /\ board.phase = "racing" /\ Room(board)
    /\ board' = pushState([board EXCEPT !.phase = "finished"])
backToLobby ==
    /\ board.phase # "lobby" /\ Room(board)
    /\ board' = pushState([board EXCEPT !.phase = "lobby", !.race = 0, !.cars = NoCars])

(* The lap logic: a driver finishes the race of the window.                *)
Finish(p) ==
    /\ board.win[p].race # 0 /\ ~board.win[p].ended /\ ~board.win[p].fin
    /\ board' = [board EXCEPT !.win[p].fin = TRUE, !.done = @ \cup {<<p, board.win[p].race>>}]
(* storeCar: the cars of another race are refused.                         *)
storeCar(s, p, m) ==
    IF s.phase # "racing" \/ m.race # s.race THEN s ELSE [s EXCEPT !.cars[p] = m.car]
(* sendNet, while the window's race goes on.  ui.js adds the race.         *)
sendNet(p) ==
    /\ board.win[p].race # 0 /\ ~board.win[p].ended
    /\ LET m == [race |-> board.st[p].race, car |-> [race |-> board.win[p].race, fin |-> board.win[p].fin]]
       IN  IF p = Host THEN board' = storeCar(board, Host, m)
           ELSE Len(board.up[p]) < MaxWire /\ board' = [board EXCEPT !.up[p] = Append(@, m)]
onWire(g) ==
    /\ board.up[g] # <<>>
    /\ board' = storeCar([board EXCEPT !.up[g] = Tail(@)], g, Head(board.up[g]))
(* startRelay's timer runs from the start until some time after the race.  *)
Relay ==
    /\ board.phase # "lobby" /\ Room(board)
    /\ board' = pushToWindow(Send(board, [t |-> "cars", cars |-> board.cars]), Host, board.cars)
handleWire(g) ==
    /\ board.down[g] # <<>>
    /\ LET m == Head(board.down[g])
           s == [board EXCEPT !.down[g] = Tail(@)]
           t == IF m.t = "cars" THEN [s EXCEPT !.cc[g] = m.cars] ELSE [s EXCEPT !.st[g] = m.st]
       IN  board' = pushToWindow(t, g, t.cc[g])

Init == board = [n |-> 0, race |-> 0, phase |-> "lobby", cars |-> NoCars, done |-> {}, stale |-> {},
                 st |-> [p \in Drivers |-> [race |-> 0, phase |-> "lobby"]], cc |-> [g \in Guests |-> NoCars],
                 win |-> [p \in Drivers |-> [race |-> 0, ended |-> FALSE, fin |-> FALSE, net |-> NoCars, shown |-> {}]],
                 up |-> [g \in Guests |-> <<>>], down |-> [g \in Guests |-> <<>>]]
Next == \/ startRace \/ finishRace \/ backToLobby \/ Relay
        \/ \E p \in Drivers : Finish(p) \/ sendNet(p)
        \/ \E g \in Guests : onWire(g) \/ handleWire(g)

(***************************************************************************)
(* Properties.                                                             *)
(***************************************************************************)
(* The board is right: a rival it shows with the flag has finished the     *)
(* race that is being driven, whatever cars of earlier races are still on  *)
(* their way.  (Not so in a window that began with cars of the last race.) *)
BoardTrue ==
    \A p \in Drivers \ board.stale :
        \A q \in board.win[p].shown : board.win[p].race # 0 => <<q, board.win[p].race>> \in board.done
=============================================================================
