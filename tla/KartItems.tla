----------------------------- MODULE KartItems -----------------------------
(***************************************************************************)
(* Bananas and rockets of a kart race: KartGame.js in every driver's       *)
(* window, and the host's kart/engine.js between them.                     *)
(*                                                                         *)
(* A window drives its own kart, the host's the bots too, and keeps the    *)
(* items they dropped (items); of the others it knows what the last relay  *)
(* said (seen).  A kart that runs into an item of another window spins,    *)
(* ignores the item for six seconds (cons) and reports the hit; the host   *)
(* repeats it in its relays for six seconds (hostCons) until the owner's   *)
(* window has dropped the item.                                            *)
(*                                                                         *)
(* Time passes in rounds: in one round every window sends at least once    *)
(* (SEND_INTERVAL), the host relays and the wires are read.  Six seconds   *)
(* are at least Linger such rounds.  Where karts drive, and whether a hit  *)
(* bounces off a shield, is not modelled: any kart may hit any item.       *)
(***************************************************************************)
EXTENDS Naturals, Sequences, FiniteSets

CONSTANTS Host, Guests, Bot,
          Linger,       \* the rounds an item that was hit is ignored
          MaxItems,     \* bound: items a kart drops in a race
          MaxWire       \* bound: messages on the way to one end
VARIABLE race

Windows == {Host} \cup Guests
Karts == Windows \cup {Bot}
Win(k) == IF k = Bot THEN Host ELSE k
Items == Karts \X (1..MaxItems)
Nothing == [i \in Items |-> 0]

Init ==
    race = [slot |-> [k \in Karts |-> "empty"], seq |-> [w \in Windows |-> 0],
            items |-> [w \in Windows |-> {}], seen |-> [w \in Windows |-> {}],
            cons |-> [w \in Windows |-> Nothing], hostCons |-> Nothing,
            cars |-> [k \in Karts |-> {}],
            up |-> [g \in Guests |-> <<>>], down |-> [g \in Guests |-> <<>>],
            sent |-> {}, relayed |-> FALSE, hits |-> [k \in Karts |-> Nothing]]

-----------------------------------------------------------------------------
(* A kart gets an item from a box, the roulette stops, the item is used.   *)
Box(k) ==
    /\ race.slot[k] = "empty"
    /\ race.seq[Win(k)] < MaxItems
    /\ race' = [race EXCEPT !.slot[k] = "rolling"]
Rolled(k) ==
    /\ race.slot[k] = "rolling"
    /\ race' = [race EXCEPT !.slot[k] = "item"]
(* useItem: turbo and shield drop nothing; the number of an item is the    *)
(* window's hazardSeq.                                                     *)
useItem(k) ==
    LET w == Win(k)
        n == race.seq[w] + 1
        used == [race EXCEPT !.slot[k] = "empty"]
    IN  /\ race.slot[k] = "item"
        /\ \/ race' = used
           \/ /\ n <= MaxItems
              /\ race' = [used EXCEPT !.seq[w] = n, !.items[w] = @ \cup {<<k, n>>}]

(* noteHit of the engine. *)
noteHit(r, i) == [r EXCEPT !.hostCons[i] = Linger]
(* checkHazardHits: an item of this window is gone at once, another one is *)
(* ignored from now on and reported.                                       *)
checkHazardHits(k, i) ==
    LET w == Win(k)
        hit == [race EXCEPT !.hits[k][i] = @ + 1]
        told == [hit EXCEPT !.cons[w][i] = Linger]
    IN  /\ i \in race.items[w] \cup race.seen[w]
        /\ i[1] # k
        /\ race.cons[w][i] = 0
        /\ IF i \in race.items[w] THEN race' = [hit EXCEPT !.items[w] = @ \ {i}]
           ELSE IF w = Host THEN race' = noteHit(told, i)
           ELSE /\ Len(race.up[w]) < MaxWire
                /\ race' = [told EXCEPT !.up[w] = Append(@, [t |-> "hit", hid |-> i, h |-> {}])]

(* updateHazards: items whose time is over and items hit elsewhere go.     *)
updateHazards(r, w, old) ==
    [r EXCEPT !.items[w] = {i \in @ \ old : r.cons[w][i] = 0}]
hazardsOf(r, k) == {i \in r.items[Win(k)] : i[1] = k}
storeCar(r, k, h) == [r EXCEPT !.cars[k] = h]
(* update, at its end: sendNet, the host's also for its bots.              *)
sendNet(w) ==
    \E old \in SUBSET race.items[w] :
        LET r == updateHazards([race EXCEPT !.sent = @ \cup {w}], w, old) IN
        /\ Cardinality(old) <= 1
        /\ IF w = Host
           THEN race' = storeCar(storeCar(r, Host, hazardsOf(r, Host)), Bot, hazardsOf(r, Bot))
           ELSE /\ Len(r.up[w]) < MaxWire
                /\ race' = [r EXCEPT !.up[w] = Append(@, [t |-> "car", hid |-> <<w, 0>>,
                                                          h |-> hazardsOf(r, w)])]

-----------------------------------------------------------------------------
(* onWire of the engine: a car, or a hit.                                  *)
onWire(g) ==
    LET r == [race EXCEPT !.up[g] = Tail(@)] IN
    /\ race.up[g] # <<>>
    /\ LET m == Head(race.up[g]) IN
       race' = IF m.t = "hit" THEN noteHit(r, m.hid) ELSE storeCar(r, g, m.h)

(* applyNet: what was hit is ignored, and what the others dropped is what  *)
(* the relay says now; the karts this window drives are left out.          *)
applyNet(r, w, net) ==
    [r EXCEPT !.cons[w] = [i \in Items |-> IF i \in net.x THEN Linger ELSE @[i]],
              !.seen[w] = UNION {net.cars[k] : k \in {k \in Karts : Win(k) # w}}]
carsSnapshot == [cars |-> race.cars, x |-> {i \in Items : race.hostCons[i] > 0}]
(* The relay's timer: to the guests and to the host's own window.          *)
relay ==
    /\ race.sent = Windows
    /\ \A g \in Guests : Len(race.down[g]) < MaxWire
    /\ race' = applyNet([race EXCEPT !.relayed = TRUE,
                                     !.down = [g \in Guests |-> Append(@[g], carsSnapshot)]],
                        Host, carsSnapshot)
handleWire(g) ==
    /\ race.down[g] # <<>>
    /\ race' = applyNet([race EXCEPT !.down[g] = Tail(@)], g, Head(race.down[g]))

Less(f) == [i \in Items |-> IF f[i] > 0 THEN f[i] - 1 ELSE 0]
Round ==
    /\ race.relayed
    /\ \A g \in Guests : race.up[g] = <<>> /\ race.down[g] = <<>>
    /\ race' = [race EXCEPT !.cons = [w \in Windows |-> Less(@[w])],
                            !.hostCons = Less(@), !.sent = {}, !.relayed = FALSE]

Next ==
    \/ \E k \in Karts : Box(k) \/ Rolled(k) \/ useItem(k) \/ \E i \in Items : checkHazardHits(k, i)
    \/ \E w \in Windows : sendNet(w)
    \/ \E g \in Guests : onWire(g) \/ handleWire(g)
    \/ relay \/ Round

-----------------------------------------------------------------------------
(* No kart spins twice on one and the same item, however late its hit and  *)
(* the relays that still show the item arrive.                             *)
HitOnce == \A k \in Karts, i \in Items : race.hits[k][i] <= 1
=============================================================================
