------------------------ MODULE RelayTunnels_proofs ------------------------
(***************************************************************************)
(* The invariants of RelayTunnels, for every number of connections, ids,   *)
(* devices and open requests, every limit and every queue length.          *)
(***************************************************************************)
EXTENDS RelayTunnels, TLAPS, FiniteSetTheorems, SequenceTheorems, WellFoundedInduction, FunctionTheorems

(***************************************************************************)
(* The tunnel table: each operation of relay/src/tunnel.rs preserves       *)
(* TableInv.                                                               *)
(***************************************************************************)

(* The three maps of ConnTunnels. *)
Map == [Gens -> [Ids -> End \cup {NoEnd}]]

(* What the table needs: types, pairing, unique ids, live ends.            *)
TableType ==
    /\ slot \in [Gens -> Devices \cup {NoDev}]
    /\ est \in [Gens -> [Ids -> End \cup {NoEnd}]]
    /\ pout \in [Gens -> [Ids -> End \cup {NoEnd}]]
    /\ pin \in [Gens -> [Ids -> End \cup {NoEnd}]]
    /\ hint \in [Gens -> 0..MaxId]

Live(f) ==
    \A g \in Gens, i \in Ids : f[g][i] # NoEnd =>
        /\ slot[g] # NoDev
        /\ slot[f[g][i].gen] # NoDev
        /\ slot[f[g][i].gen][1] # slot[g][1]

TableInv ==
    /\ TableType
    /\ Paired
    /\ IdsUnique
    /\ Live(est) /\ Live(pout) /\ Live(pin)

(* A remainder is smaller than its divisor. *)
LEMMA ModRange ==
    ASSUME NEW a \in Int, NEW b \in Nat, b > 0
    PROVE  a % b \in 0..(b - 1)
  BY Z3

(* A non-empty set of natural numbers has a least element. *)
LEMMA LeastNat ==
    ASSUME NEW S \in SUBSET Nat, S # {}
    PROVE  \E m \in S : \A y \in S : m <= y
<1> DEFINE R == OpToRel(<, Nat)
<1>1. IsWellFoundedOn(R, Nat)
  BY NatLessThanWellFounded
<1>2. \A x, y \in Nat : x < y => <<x, y>> \in R
  BY Zenon DEF OpToRel
<1> HIDE DEF R
<1>3. PICK m \in S : \A y \in S : ~(<<y, m>> \in R)
  BY <1>1, WFMin
<1>4. \A y \in S : ~(y < m)
  BY <1>2, <1>3
<1> QED
  BY <1>3, <1>4

(* alloc_id returns an unused id whenever there is one to find. *)
LEMMA AllocFree ==
    ASSUME TableType, NEW g \in Gens, FreeIds(g) # {}
    PROVE  AllocId(g) \in FreeIds(g)
<1> DEFINE D == {Distance(g, i) : i \in FreeIds(g)}
<1>1. \A i \in Ids : Distance(g, i) \in Nat
  BY ModRange, ConstantsAssumption DEF Distance, TableType, Ids, Gens
<1>2. D \subseteq Nat /\ D # {}
  BY <1>1 DEF FreeIds
<1>4. PICK m \in D : \A y \in D : m <= y
  BY <1>2, LeastNat
<1>5. PICK i \in FreeIds(g) : Distance(g, i) = m
  BY <1>4
<1>6. \A j \in FreeIds(g) : Distance(g, i) <= Distance(g, j)
  BY <1>4, <1>5
<1> QED
  BY <1>5, <1>6 DEF AllocId

(***************************************************************************)
(* One lemma per table operation: it preserves TableInv.                   *)
(***************************************************************************)
(* Tunnels::open enters one request on both sides under unused ids. *)
LEMMA OpenTab ==
    ASSUME TableInv, NEW g \in Gens, NEW i \in Ids, NEW h \in Gens,
           slot[g] # NoDev, slot[h] # NoDev, slot[h][1] # slot[g][1],
           ~Used(g, i), FreeIds(h) # {}, TableOpen(g, i, h), slot' = slot
    PROVE  TableInv'
<1> DEFINE j == AllocId(h)
<1>1. j \in Ids /\ ~Used(h, j)
  BY AllocFree DEF FreeIds, TableInv
<1>2. (j + 1) % (MaxId + 1) \in 0..MaxId
  BY <1>1, ModRange, ConstantsAssumption DEF Ids
<1> HIDE DEF j
<1>3. /\ pout' = [pout EXCEPT ![g][i] = [gen |-> h, id |-> j]]
      /\ pin' = [pin EXCEPT ![h][j] = [gen |-> g, id |-> i]]
      /\ hint' = [hint EXCEPT ![h] = (j + 1) % (MaxId + 1)]
      /\ est' = est
  BY DEF TableOpen, j
<1>4. TableType'
  BY <1>1, <1>2, <1>3 DEF TableInv, TableType, End
<1>5. /\ \A k \in Gens, l \in Ids :
            pout'[k][l] = IF k = g /\ l = i THEN [gen |-> h, id |-> j] ELSE pout[k][l]
      /\ \A k \in Gens, l \in Ids :
            pin'[k][l] = IF k = h /\ l = j THEN [gen |-> g, id |-> i] ELSE pin[k][l]
  BY <1>1, <1>3 DEF TableInv, TableType
<1>6. \A k \in Gens, l \in Ids : [gen |-> k, id |-> l] \in End /\ [gen |-> k, id |-> l] # NoEnd
  BY ConstantsAssumption DEF End
<1>7. Paired'
  BY <1>1, <1>3, <1>5, <1>6 DEF TableInv, TableType, Paired, Mirrored, End, Used
<1>8. IdsUnique'
  BY <1>1, <1>3, <1>5, <1>6 DEF TableInv, TableType, IdsUnique, Used
<1>9. (Live(est) /\ Live(pout) /\ Live(pin))'
  BY <1>1, <1>3, <1>5, <1>6 DEF TableInv, TableType, Live, End
<1> QED
  BY <1>4, <1>7, <1>8, <1>9 DEF TableInv

(* The end stored in a map is an end. *)
LEMMA EndType ==
    ASSUME TableType, NEW f \in {est, pout, pin}, NEW g \in Gens, NEW i \in Ids, f[g][i] # NoEnd
    PROVE  f[g][i] \in End /\ f[g][i].gen \in Gens /\ f[g][i].id \in Ids
<1>1. f \in [Gens -> [Ids -> End \cup {NoEnd}]]
  BY DEF TableType
<1> QED
  BY <1>1 DEF End

LEMMA EndNotNone ==
    ASSUME NEW g \in Gens, NEW i \in Ids
    PROVE  [gen |-> g, id |-> i] \in End /\ [gen |-> g, id |-> i] # NoEnd
  BY ConstantsAssumption DEF End

(* f2 is f with the two halves of a tunnel added; f2 is f without one entry. *)
Joined(f, f2, g, i, h, j) == \A k \in Gens, l \in Ids : f2[k][l] =
    IF k = h /\ l = j THEN [gen |-> g, id |-> i]
    ELSE IF k = g /\ l = i THEN [gen |-> h, id |-> j] ELSE f[k][l]
Erased(f, f2, g, i) == \A k \in Gens, l \in Ids :
    f2[k][l] = IF k = g /\ l = i THEN NoEnd ELSE f[k][l]

(* Adding, or removing, the two halves of a tunnel keeps a map mirrored. *)
LEMMA AddMirror ==
    ASSUME NEW f \in Map, NEW f2, NEW g \in Gens, NEW i \in Ids, NEW h \in Gens, NEW j \in Ids,
           Mirrored(f, f), g # h, f[g][i] = NoEnd, f[h][j] = NoEnd, Joined(f, f2, g, i, h, j)
    PROVE  Mirrored(f2, f2)
<1> SUFFICES ASSUME NEW k \in Gens, NEW l \in Ids, f2[k][l] # NoEnd
             PROVE  f2[f2[k][l].gen][f2[k][l].id] = [gen |-> k, id |-> l]
  BY DEF Mirrored
<1>0. f2[g][i] = [gen |-> h, id |-> j] /\ f2[h][j] = [gen |-> g, id |-> i]
  BY DEF Joined
<1>1. CASE k = h /\ l = j
  BY <1>0, <1>1
<1>2. CASE k = g /\ l = i
  BY <1>0, <1>2
<1>3. CASE ~(k = h /\ l = j) /\ ~(k = g /\ l = i)
  <2>1. f2[k][l] = f[k][l] /\ f[k][l] # NoEnd
    BY <1>3 DEF Joined
  <2>2. f[k][l].gen \in Gens /\ f[k][l].id \in Ids
    BY <2>1 DEF Map, End
  <2>3. f[f[k][l].gen][f[k][l].id] = [gen |-> k, id |-> l]
    BY <2>1 DEF Mirrored
  <2>4. f2[f[k][l].gen][f[k][l].id] = f[f[k][l].gen][f[k][l].id]
    BY <2>2, <2>3, EndNotNone DEF Joined
  <2> QED
    BY <2>1, <2>3, <2>4
<1> QED
  BY <1>1, <1>2, <1>3

LEMMA WithdrawMirror ==
    ASSUME NEW f \in Map, NEW m \in Map, NEW f2, NEW m2,
           NEW g \in Gens, NEW i \in Ids, NEW h \in Gens, NEW j \in Ids,
           Mirrored(f, m), m[h][j] = [gen |-> g, id |-> i],
           Erased(f, f2, g, i), Erased(m, m2, h, j)
    PROVE  Mirrored(f2, m2)
<1> SUFFICES ASSUME NEW k \in Gens, NEW l \in Ids, f2[k][l] # NoEnd
             PROVE  m2[f2[k][l].gen][f2[k][l].id] = [gen |-> k, id |-> l]
  BY DEF Mirrored
<1>1. f2[k][l] = f[k][l] /\ f[k][l] # NoEnd /\ ~(k = g /\ l = i)
  BY DEF Erased
<1>2. f[k][l].gen \in Gens /\ f[k][l].id \in Ids
  BY <1>1 DEF Map, End
<1>3. m[f[k][l].gen][f[k][l].id] = [gen |-> k, id |-> l]
  BY <1>1 DEF Mirrored
<1>4. ~(f[k][l].gen = h /\ f[k][l].id = j)
  BY <1>1, <1>3
<1>5. m2[f[k][l].gen][f[k][l].id] = m[f[k][l].gen][f[k][l].id]
  BY <1>2, <1>4 DEF Erased
<1> QED
  BY <1>1, <1>3, <1>5

LEMMA RemoveMirror ==
    ASSUME NEW f \in Map, NEW f2, NEW g \in Gens, NEW i \in Ids, NEW h \in Gens, NEW j \in Ids,
           Mirrored(f, f), f[g][i] = [gen |-> h, id |-> j], f[h][j] = [gen |-> g, id |-> i],
           \A k \in Gens, l \in Ids : f2[k][l] =
               IF (k = g /\ l = i) \/ (k = h /\ l = j) THEN NoEnd ELSE f[k][l]
    PROVE  Mirrored(f2, f2)
<1> SUFFICES ASSUME NEW k \in Gens, NEW l \in Ids, f2[k][l] # NoEnd
             PROVE  f2[f2[k][l].gen][f2[k][l].id] = [gen |-> k, id |-> l]
  BY DEF Mirrored
<1>1. f2[k][l] = f[k][l] /\ f[k][l] # NoEnd /\ ~(k = h /\ l = j) /\ ~(k = g /\ l = i)
  OBVIOUS
<1>2. f[k][l].gen \in Gens /\ f[k][l].id \in Ids
  BY <1>1 DEF Map, End
<1>3. f[f[k][l].gen][f[k][l].id] = [gen |-> k, id |-> l]
  BY <1>1 DEF Mirrored
<1>4. f2[f[k][l].gen][f[k][l].id] = f[f[k][l].gen][f[k][l].id]
  BY <1>1, <1>2, <1>3
<1> QED
  BY <1>1, <1>3, <1>4

(* Tunnels::accept turns the two pending entries into the two halves of a tunnel. *)
LEMMA AcceptTab ==
    ASSUME TableInv, NEW g \in Gens, NEW i \in Ids, pin[g][i] # NoEnd,
           TableAccept(g, i), slot' = slot
    PROVE  TableInv'
<1> DEFINE e == pin[g][i]
<1>1. e \in End /\ e.gen \in Gens /\ e.id \in Ids
  BY EndType DEF TableInv
<1>2. pout[e.gen][e.id] = [gen |-> g, id |-> i] /\ pout[e.gen][e.id] # NoEnd
  BY EndNotNone DEF TableInv, Paired, Mirrored
<1>3. /\ pin' = [pin EXCEPT ![g][i] = NoEnd]
      /\ pout' = [pout EXCEPT ![e.gen][e.id] = NoEnd]
      /\ est' = [est EXCEPT ![g][i] = e, ![e.gen][e.id] = [gen |-> g, id |-> i]]
      /\ hint' = hint
  BY <1>2 DEF TableAccept
<1>4. /\ slot[g] # NoDev /\ slot[e.gen] # NoDev /\ slot[e.gen][1] # slot[g][1]
      /\ est[g][i] = NoEnd /\ est[e.gen][e.id] = NoEnd
      /\ pout[g][i] = NoEnd
  BY <1>1, <1>2 DEF TableInv, Live, IdsUnique
<1> HIDE DEF e
<1>5. TableType'
  BY <1>1, <1>3, EndNotNone DEF TableInv, TableType
<1>6. \A k \in Gens, l \in Ids :
        /\ pin'[k][l] = IF k = g /\ l = i THEN NoEnd ELSE pin[k][l]
        /\ pout'[k][l] = IF k = e.gen /\ l = e.id THEN NoEnd ELSE pout[k][l]
        /\ est'[k][l] = IF k = e.gen /\ l = e.id THEN [gen |-> g, id |-> i]
                        ELSE IF k = g /\ l = i THEN e ELSE est[k][l]
  BY <1>1, <1>3, <1>4 DEF TableInv, TableType
<1>7. e = [gen |-> e.gen, id |-> e.id]
  BY <1>1 DEF End
<1>8. Paired'
  <2>1. Mirrored(est', est')
    <3>1. est \in Map /\ Mirrored(est, est)
      BY DEF TableInv, TableType, Map, Paired
    <3>2. g # e.gen
      BY <1>4
    <3>3. Joined(est, est', g, i, e.gen, e.id)
      BY <1>6, <1>7 DEF Joined
    <3> QED
      BY <1>1, <1>4, <3>1, <3>2, <3>3, AddMirror
  <2>2. Mirrored(pout', pin') /\ Mirrored(pin', pout')
    <3>1. /\ pin \in Map /\ pout \in Map
          /\ Mirrored(pout, pin) /\ Mirrored(pin, pout)
      BY DEF TableInv, TableType, Map, Paired
    <3>2. pin[g][i] = [gen |-> e.gen, id |-> e.id]
      BY <1>7 DEF e
    <3>3. Erased(pin, pin', g, i) /\ Erased(pout, pout', e.gen, e.id)
      BY <1>6 DEF Erased
    <3> QED
      BY <1>1, <1>2, <3>1, <3>2, <3>3, WithdrawMirror
  <2> QED
    BY <2>1, <2>2 DEF Paired, Mirrored
<1>9. IdsUnique'
  BY <1>1, <1>2, <1>4, <1>6 DEF TableInv, TableType, IdsUnique, e
<1>10. (Live(est) /\ Live(pout) /\ Live(pin))'
  <2>1. Live(est) /\ Live(pout) /\ Live(pin)
    BY DEF TableInv
  <2>2. Live(pout)' /\ Live(pin)'
    BY <1>6, <2>1 DEF Live
  <2>3. Live(est)'
    BY <1>1, <1>4, <1>6, <2>1 DEF Live
  <2> QED
    BY <2>2, <2>3
<1> QED
  BY <1>5, <1>8, <1>9, <1>10 DEF TableInv

(* Removing a request on both sides: reject, timeout_open and close.       *)
LEMMA WithdrawTab ==
    ASSUME TableInv, NEW g \in Gens, NEW i \in Ids, NEW h \in Gens, NEW j \in Ids,
           pout[g][i] = [gen |-> h, id |-> j], pin[h][j] = [gen |-> g, id |-> i],
           pout' = [pout EXCEPT ![g][i] = NoEnd],
           pin' = [pin EXCEPT ![h][j] = NoEnd],
           est' = est, hint' = hint, slot' = slot
    PROVE  TableInv'
<1>1. TableType'
  BY DEF TableInv, TableType
<1>2. \A k \in Gens, l \in Ids :
        /\ pout'[k][l] = IF k = g /\ l = i THEN NoEnd ELSE pout[k][l]
        /\ pin'[k][l] = IF k = h /\ l = j THEN NoEnd ELSE pin[k][l]
  BY DEF TableInv, TableType
<1>3. Paired'
  BY <1>2 DEF TableInv, TableType, Paired, Mirrored, End
<1>4. IdsUnique'
  BY <1>2 DEF TableInv, IdsUnique
<1>5. (Live(est) /\ Live(pout) /\ Live(pin))'
  BY <1>2 DEF TableInv, TableType, Live, End
<1> QED
  BY <1>1, <1>3, <1>4, <1>5 DEF TableInv

LEMMA RejectTab ==
    ASSUME TableInv, NEW g \in Gens, NEW i \in Ids, pin[g][i] # NoEnd,
           TableReject(g, i), slot' = slot
    PROVE  TableInv'
<1> DEFINE e == pin[g][i]
<1>1. e.gen \in Gens /\ e.id \in Ids /\ e = [gen |-> e.gen, id |-> e.id]
  BY EndType DEF TableInv, End
<1>2. pout[e.gen][e.id] = [gen |-> g, id |-> i]
  BY DEF TableInv, Paired, Mirrored
<1> QED
  BY <1>1, <1>2, WithdrawTab DEF TableReject

LEMMA TimeoutTab ==
    ASSUME TableInv, NEW g \in Gens, NEW i \in Ids, pout[g][i] # NoEnd,
           TableTimeout(g, i), slot' = slot
    PROVE  TableInv'
<1> DEFINE e == pout[g][i]
<1>1. e.gen \in Gens /\ e.id \in Ids /\ e = [gen |-> e.gen, id |-> e.id]
  BY EndType DEF TableInv, End
<1>2. pin[e.gen][e.id] = [gen |-> g, id |-> i]
  BY DEF TableInv, Paired, Mirrored
<1> QED
  BY <1>1, <1>2, WithdrawTab DEF TableTimeout

(* Tunnels::close, whichever of the three maps holds the id. *)
LEMMA CloseTab ==
    ASSUME TableInv, NEW g \in Gens, NEW i \in Ids, CloseEnd(g, i) # NoEnd,
           TableClose(g, i), slot' = slot
    PROVE  TableInv'
<1>1. CASE est[g][i] # NoEnd
  <2> DEFINE e == est[g][i]
  <2>1. e \in End /\ e.gen \in Gens /\ e.id \in Ids /\ e = [gen |-> e.gen, id |-> e.id]
    BY <1>1, EndType DEF TableInv, End
  <2>2. est[e.gen][e.id] = [gen |-> g, id |-> i]
    BY <1>1 DEF TableInv, Paired, Mirrored
  <2>3. /\ est' = [est EXCEPT ![g][i] = NoEnd, ![e.gen][e.id] = NoEnd]
        /\ pout' = pout /\ pin' = pin /\ hint' = hint
    BY <1>1 DEF TableClose
  <2> HIDE DEF e
  <2>4. TableType'
    BY <2>1, <2>3 DEF TableInv, TableType
  <2>5. \A k \in Gens, l \in Ids :
          est'[k][l] = IF (k = g /\ l = i) \/ (k = e.gen /\ l = e.id) THEN NoEnd ELSE est[k][l]
    BY <2>1, <2>3 DEF TableInv, TableType
  <2>9. pout' = pout /\ pin' = pin
    BY <2>3
  <2>6. Paired'
    <3>1. est \in Map /\ Mirrored(est, est)
      BY DEF TableInv, TableType, Map, Paired
    <3>2. est[g][i] = [gen |-> e.gen, id |-> e.id]
      BY <2>1 DEF e
    <3>3. Mirrored(est', est')
      BY <2>1, <2>2, <2>5, <3>1, <3>2, RemoveMirror
    <3> QED
      BY <3>3, <2>9 DEF TableInv, Paired, Mirrored
  <2>7. IdsUnique'
    <3>1. IdsUnique
      BY DEF TableInv
    <3> QED
      BY <3>1, <2>5, <2>9 DEF IdsUnique
  <2>8. (Live(est) /\ Live(pout) /\ Live(pin))'
    <3>1. Live(est) /\ Live(pout) /\ Live(pin)
      BY DEF TableInv
    <3> QED
      BY <3>1, <2>5, <2>9 DEF Live
  <2> QED
    BY <2>4, <2>6, <2>7, <2>8 DEF TableInv
<1>2. CASE est[g][i] = NoEnd /\ pout[g][i] # NoEnd
  BY <1>2, TimeoutTab DEF TableClose
<1>3. CASE est[g][i] = NoEnd /\ pout[g][i] = NoEnd
  BY <1>3, RejectTab DEF TableClose, CloseEnd
<1> QED
  BY <1>1, <1>2, <1>3

(* What drop_conn(g) may do to a map: keep only old entries, none of g's or *)
(* naming g; and keep all the others.                                       *)
OnlyOld(g, f, f2) == \A k \in Gens, l \in Ids :
    f2[k][l] # NoEnd => k # g /\ f2[k][l] = f[k][l] /\ f[k][l].gen # g
OthersStay(g, f, f2) == \A k \in Gens, l \in Ids :
    k # g /\ f[k][l] # NoEnd /\ f[k][l].gen # g => f2[k][l] = f[k][l]

(* drop_conn removes from f exactly g's own entries and the entries that    *)
(* name g, when m mirrors f.                                                *)
LEMMA DropOne ==
    ASSUME NEW f \in Map, NEW m \in Map,
           Mirrored(f, m), Mirrored(m, f), NEW g \in Gens
    PROVE  /\ DropEnds(f, g, Ends(m, g)) \in Map
           /\ OnlyOld(g, f, DropEnds(f, g, Ends(m, g)))
           /\ OthersStay(g, f, DropEnds(f, g, Ends(m, g)))
<1> DEFINE E == Ends(m, g)
<1>1. \A k \in Gens, l \in Ids :
        [gen |-> k, id |-> l] \in E <=> f[k][l] # NoEnd /\ f[k][l].gen = g
  <2> SUFFICES ASSUME NEW k \in Gens, NEW l \in Ids
               PROVE  [gen |-> k, id |-> l] \in E <=> f[k][l] # NoEnd /\ f[k][l].gen = g
    OBVIOUS
  <2>1. ASSUME f[k][l] # NoEnd, f[k][l].gen = g PROVE [gen |-> k, id |-> l] \in E
    <3>1. f[k][l].id \in Ids
      BY <2>1 DEF End, Map
    <3>2. m[g][f[k][l].id] = [gen |-> k, id |-> l]
      BY <2>1 DEF Mirrored
    <3> QED
      BY <3>1, <3>2, EndNotNone DEF Ends
  <2>2. ASSUME [gen |-> k, id |-> l] \in E PROVE f[k][l] # NoEnd /\ f[k][l].gen = g
    <3>1. PICK i \in Ids : m[g][i] = [gen |-> k, id |-> l]
      BY <2>2 DEF Ends
    <3>2. f[k][l] = [gen |-> g, id |-> i]
      BY <3>1, EndNotNone DEF Mirrored
    <3> QED
      BY <3>2, EndNotNone
  <2> QED
    BY <2>1, <2>2
<1> HIDE DEF E
<1>2. DropEnds(f, g, E) \in Map
  BY DEF DropEnds, Map
<1>3. \A k \in Gens, l \in Ids : DropEnds(f, g, E)[k][l] =
        IF k = g \/ [gen |-> k, id |-> l] \in E THEN NoEnd ELSE f[k][l]
  BY DEF DropEnds
<1>4. \A k \in Gens, l \in Ids : DropEnds(f, g, E)[k][l] =
        IF k = g \/ (f[k][l] # NoEnd /\ f[k][l].gen = g) THEN NoEnd ELSE f[k][l]
  BY <1>1, <1>3
<1> DEFINE f2 == DropEnds(f, g, E)
<1> HIDE DEF f2
<1>5. \A k \in Gens, l \in Ids :
        f2[k][l] = IF k = g \/ (f[k][l] # NoEnd /\ f[k][l].gen = g) THEN NoEnd ELSE f[k][l]
  BY <1>4 DEF f2
<1>6. OnlyOld(g, f, f2) /\ OthersStay(g, f, f2)
  BY <1>5 DEF OnlyOld, OthersStay
<1> QED
  BY <1>2, <1>6 DEF E, f2

(* Dropping g from two mirrored maps leaves them mirrored. *)
LEMMA DropMirror ==
    ASSUME NEW f \in Map, NEW m \in Map, NEW f2, NEW m2, NEW g \in Gens,
           Mirrored(f, m), OnlyOld(g, f, f2), OthersStay(g, m, m2)
    PROVE  Mirrored(f2, m2)
<1> SUFFICES ASSUME NEW k \in Gens, NEW l \in Ids, f2[k][l] # NoEnd
             PROVE  m2[f2[k][l].gen][f2[k][l].id] = [gen |-> k, id |-> l]
  BY DEF Mirrored
<1>1. k # g /\ f2[k][l] = f[k][l] /\ f[k][l].gen # g
  BY DEF OnlyOld
<1>2. f[k][l].gen \in Gens /\ f[k][l].id \in Ids
  BY <1>1 DEF Map, End
<1>3. m[f[k][l].gen][f[k][l].id] = [gen |-> k, id |-> l]
  BY <1>1 DEF Mirrored
<1>4. m2[f[k][l].gen][f[k][l].id] = m[f[k][l].gen][f[k][l].id]
  BY <1>1, <1>2, <1>3, EndNotNone DEF OthersStay
<1> QED
  BY <1>1, <1>3, <1>4

LEMMA DropLive ==
    ASSUME NEW f \in Map, NEW f2, NEW g \in Gens, OnlyOld(g, f, f2), Live(f),
           \A k \in Gens : k # g /\ slot[k] # NoDev => slot'[k] = slot[k]
    PROVE  \A k \in Gens, l \in Ids : f2[k][l] # NoEnd =>
               /\ slot'[k] # NoDev
               /\ slot'[f2[k][l].gen] # NoDev
               /\ slot'[f2[k][l].gen][1] # slot'[k][1]
<1> SUFFICES ASSUME NEW k \in Gens, NEW l \in Ids, f2[k][l] # NoEnd
             PROVE  /\ slot'[k] # NoDev
                    /\ slot'[f2[k][l].gen] # NoDev
                    /\ slot'[f2[k][l].gen][1] # slot'[k][1]
  OBVIOUS
<1>1. k # g /\ f2[k][l] = f[k][l] /\ f[k][l].gen # g
  BY DEF OnlyOld
<1>2. f[k][l].gen \in Gens
  BY <1>1 DEF Map, End
<1>3. /\ slot[k] # NoDev
      /\ slot[f[k][l].gen] # NoDev
      /\ slot[f[k][l].gen][1] # slot[k][1]
  BY <1>1 DEF Live
<1> QED
  BY <1>1, <1>2, <1>3

(* Tunnels::drop_conn together with the removal of the connection; another *)
(* connection, which has no entries, may register in the same step.        *)
LEMMA DropTab ==
    ASSUME TableInv, NEW g \in Gens, TableDrop(g),
           slot' \in [Gens -> Devices \cup {NoDev}],
           \A k \in Gens : k # g /\ slot[k] # NoDev => slot'[k] = slot[k]
    PROVE  TableInv'
<1>1. /\ est \in Map /\ pin \in Map /\ pout \in Map
      /\ Mirrored(est, est) /\ Mirrored(pout, pin) /\ Mirrored(pin, pout)
      /\ IdsUnique
  BY DEF TableInv, TableType, Paired, Map
<1>2. Live(est) /\ Live(pout) /\ Live(pin)
  BY DEF TableInv
<1>3. /\ est' = DropEnds(est, g, Ends(est, g))
      /\ pin' = DropEnds(pin, g, Ends(pout, g))
      /\ pout' = DropEnds(pout, g, Ends(pin, g))
  BY DEF TableDrop
<1>4. est' \in Map /\ OnlyOld(g, est, est') /\ OthersStay(g, est, est')
  BY <1>1, <1>3, DropOne
<1>5. pin' \in Map /\ OnlyOld(g, pin, pin') /\ OthersStay(g, pin, pin')
  BY <1>1, <1>3, DropOne
<1>6. pout' \in Map /\ OnlyOld(g, pout, pout') /\ OthersStay(g, pout, pout')
  BY <1>1, <1>3, DropOne
<1>7. hint' \in [Gens -> 0..MaxId]
  BY ConstantsAssumption DEF TableInv, TableType, TableDrop
<1>8. TableType'
  BY <1>4, <1>5, <1>6, <1>7 DEF TableType, Map
<1>9. Mirrored(est', est') /\ Mirrored(pout', pin') /\ Mirrored(pin', pout')
  BY <1>1, <1>4, <1>5, <1>6, DropMirror
<1>10. IdsUnique'
  BY <1>1, <1>4, <1>5, <1>6 DEF IdsUnique, OnlyOld
<1>11. (Live(est) /\ Live(pout) /\ Live(pin))'
  BY <1>1, <1>2, <1>4, <1>5, <1>6, DropLive DEF Live
<1> QED
  BY <1>8, <1>9, <1>10, <1>11 DEF TableInv, Paired, Mirrored

(***************************************************************************)
(* Typing of messages and steps.                                           *)
(***************************************************************************)
LEMMA AnyMessage == [t |-> "error", id |-> 0, code |-> "", from |-> NoDev] \in Msg
<1>1. 0 \in 0..MaxId
  BY ConstantsAssumption
<1>2. "error" \in Kinds /\ "" \in Codes
  BY DEF Kinds, Codes
<1> QED
  BY <1>1, <1>2 DEF Msg

LEMMA MessageType ==
    ASSUME NEW t \in Kinds, NEW id \in 0..MaxId, NEW code \in Codes
    PROVE  Message(t, id, code) \in Msg
<1>1. [t |-> t, id |-> id, code |-> code, from |-> NoDev] \in Msg
  BY DEF Msg
<1> QED
  BY <1>1, AnyMessage DEF Message, Kept

LEMMA IncomingType ==
    ASSUME NEW id \in Ids, NEW d \in Devices
    PROVE  Incoming(id, d) \in Msg
<1>1. "incoming" \in Kinds /\ "" \in Codes /\ id \in 0..MaxId
  BY ConstantsAssumption DEF Kinds, Codes, Ids
<1>2. [t |-> "incoming", id |-> id, code |-> "", from |-> d] \in Msg
  BY <1>1 DEF Msg
<1> QED
  BY <1>2, AnyMessage DEF Incoming, Kept

LEMMA StepType ==
    ASSUME NEW g \in Gens, NEW msg \in Msg
    PROVE  /\ Push(g, msg) \in Steps
           /\ Reply(g, msg) \in Steps
           /\ Step("ready", g, 0, msg) \in Steps
           /\ \A i \in Ids : Step("fail_open", g, i, msg) \in Steps
           /\ \A i \in Ids : Step("forward", g, i, msg) \in Steps
  BY DEF Push, Reply, Step, Steps

LEMMA EndStepType ==
    ASSUME NEW g \in Gens
    PROVE  EndStep(g) \in Steps
<1>1. Message("error", 0, "") \in Msg
  BY AnyMessage DEF Message, Kept
<1> QED
  BY <1>1 DEF EndStep, Step, Steps

(* Sequences of steps: what the actions build todo from. *)
LEMMA StepSeqs ==
    /\ <<>> \in Seq(Steps)
    /\ \A s \in Steps : <<s>> \in Seq(Steps)
    /\ \A s, t \in Steps : <<s, t>> \in Seq(Steps)
    /\ \A u, v \in Seq(Steps) : u \o v \in Seq(Steps)
    /\ \A u \in Seq(Steps) : u # <<>> => Head(u) \in Steps /\ Tail(u) \in Seq(Steps)
  BY EmptySeq, ConcatProperties, HeadTailProperties

LEMMA StepFields ==
    ASSUME NEW s \in Steps
    PROVE  /\ s.gen \in Gens /\ s.msg \in Msg
           /\ s.op \in {"invite", "fail_open", "forward"} => s.id \in Ids
           /\ s.op = "invite" => s.n \in Serials
  BY DEF Steps

LEMMA PushIfLiveType ==
    ASSUME NEW s, NEW g \in Gens, NEW msg \in Msg
    PROVE  PushIfLive(s, g, msg) \in Seq(Steps)
  BY StepType, StepSeqs DEF PushIfLive

(***************************************************************************)
(* The `closed` messages of detach_conn, in any order, are steps.          *)
(***************************************************************************)
LEMMA ImageFinite ==
    ASSUME NEW S, IsFiniteSet(S), NEW f
    PROVE  IsFiniteSet({f[x] : x \in S})
<1> DEFINE T == {f[x] : x \in S}
           F == [x \in S |-> f[x]]
<1>1. F \in [S -> T] /\ \A t \in T : \E x \in S : F[x] = t
  OBVIOUS
<1>2. F \in Surjection(S, T)
  BY <1>1, Fun_IsSurj
<1> QED
  BY <1>2, FS_Surjection

LEMMA EndsFinite ==
    ASSUME NEW f, NEW g
    PROVE  IsFiniteSet(Ends(f, g))
<1> DEFINE h == f[g]
           T == {h[i] : i \in Ids}
<1>1. IsFiniteSet(Ids)
  BY FS_Interval, ConstantsAssumption DEF Ids
<1> HIDE DEF h
<1>2. IsFiniteSet(T)
  BY <1>1, ImageFinite
<1>3. T \ {NoEnd} \in SUBSET T
  OBVIOUS
<1> HIDE DEF T
<1>4. IsFiniteSet(T \ {NoEnd})
  BY <1>2, <1>3, FS_Subset
<1> QED
  BY <1>4 DEF Ends, T, h

LEMMA OrdersType ==
    ASSUME NEW S \in SUBSET Steps, IsFiniteSet(S), NEW out \in Orders(S)
    PROVE  out \in Seq(Steps)
<1>1. Cardinality(S) \in Nat
  BY FS_CardinalityType
<1>2. out \in [1..Cardinality(S) -> S]
  BY DEF Orders
<1> QED
  BY <1>1, <1>2

LEMMA DisconnectsType ==
    ASSUME TableType, NEW g \in Gens, NEW out \in Orders(Disconnects(g))
    PROVE  out \in Seq(Steps)
<1> DEFINE E == {x \in Dropped(g) : x.gen # g /\ slot[x.gen] # NoDev}
           F == [e \in E |-> Push(e.gen, Message("closed", e.id, "disconnect"))]
<1>1. IsFiniteSet(Dropped(g))
  BY EndsFinite, FS_Union DEF Dropped
<1>2. E \in SUBSET Dropped(g)
  OBVIOUS
<1>3. IsFiniteSet(E)
  BY <1>1, <1>2, FS_Subset
<1>4. Dropped(g) \subseteq End
  BY DEF Dropped, Ends, TableType
<1>5. Disconnects(g) \subseteq Steps
  <2>1. "closed" \in Kinds /\ "disconnect" \in Codes
    BY DEF Kinds, Codes
  <2>2. \A e \in E : e.gen \in Gens /\ e.id \in 0..MaxId
    BY <1>4, ConstantsAssumption DEF End, Ids
  <2>3. \A e \in E : Push(e.gen, Message("closed", e.id, "disconnect")) \in Steps
    BY <2>1, <2>2, MessageType, StepType
  <2> QED
    BY <2>3 DEF Disconnects
<1>6. Disconnects(g) = {F[e] : e \in E}
  BY DEF Disconnects
<1> HIDE DEF E, F
<1>7. IsFiniteSet(Disconnects(g))
  BY <1>3, <1>6, ImageFinite
<1> QED
  BY <1>5, <1>7, OrdersType

(***************************************************************************)
(* The inductive invariant.  Next to the table's invariant it needs the    *)
(* types of what the tasks carry - a fail_open or forward step names a     *)
(* real id - and that no generation is in use before it is handed out:     *)
(* without that, Register could put a device under a generation that old   *)
(* entries name.                                                           *)
(***************************************************************************)
TaskType ==
    /\ nextGen \in 1..(MaxGen + 1)
    /\ sess \in [Gens -> {"new", "auth", "ready", "gone"}]
    /\ cancel \in [Gens -> BOOLEAN]
    /\ serial \in 0..MaxOpens
    /\ timers \in SUBSET [gen: Gens, id: Ids, n: Serials]
    /\ ctl \in [Gens -> Seq(Msg)]
    /\ todo \in [Tasks -> Seq(Steps)]

Fresh == \A g \in Gens : g >= nextGen => slot[g] = NoDev

IndInv == TaskType /\ TableInv /\ Fresh

LEMMA IndInvImplies == IndInv => TypeOK /\ Paired /\ IdsUnique /\ EndsLive
<1> SUFFICES ASSUME IndInv PROVE TypeOK /\ Paired /\ IdsUnique /\ EndsLive
  OBVIOUS
<1>1. TypeOK
  BY DEF IndInv, TaskType, TableInv, TableType, TypeOK
<1>2. EndsLive
  BY DEF IndInv, TableInv, Live, EndsLive
<1> QED
  BY <1>1, <1>2 DEF IndInv, TableInv

LEMMA TableSame ==
    ASSUME TableInv, slot' = slot, est' = est, pout' = pout, pin' = pin, hint' = hint
    PROVE  TableInv'
  BY DEF TableInv, TableType, Paired, Mirrored, IdsUnique, Live

LEMMA InitInv == Init => IndInv
<1> SUFFICES ASSUME Init PROVE IndInv
  OBVIOUS
<1>1. TaskType
  BY ConstantsAssumption, EmptySeq DEF Init, TaskType
<1>2. TableType
  BY ConstantsAssumption DEF Init, TableType, Nothing
<1>3. \A g \in Gens, i \in Ids : est[g][i] = NoEnd /\ pout[g][i] = NoEnd /\ pin[g][i] = NoEnd
  BY DEF Init, Nothing
<1>4. Paired /\ IdsUnique /\ Live(est) /\ Live(pout) /\ Live(pin)
  BY <1>3 DEF Paired, Mirrored, IdsUnique, Live
<1>5. Fresh
  BY DEF Init, Fresh
<1> QED
  BY <1>1, <1>2, <1>4, <1>5 DEF IndInv, TableInv

LEMMA QueueType ==
    ASSUME TaskType, NEW g \in Gens, NEW msg \in Msg, Queue(g, msg)
    PROVE  ctl' \in [Gens -> Seq(Msg)]
<1>1. Append(ctl[g], msg) \in Seq(Msg)
  BY AppendProperties DEF TaskType
<1> QED
  BY <1>1 DEF Queue, TaskType

LEMMA TrySendType ==
    ASSUME TaskType, NEW g \in Gens, NEW msg \in Msg, NEW room, TrySend(g, msg, room)
    PROVE  ctl' \in [Gens -> Seq(Msg)] /\ cancel' \in [Gens -> BOOLEAN]
<1>1. Cancel(g) => cancel' \in [Gens -> BOOLEAN]
  BY DEF Cancel, TaskType
<1>2. CASE room
  BY <1>2, QueueType DEF TrySend, TaskType
<1>3. CASE ~room
  BY <1>3, <1>1 DEF TrySend, TaskType
<1> QED
  BY <1>2, <1>3

LEMMA TodoType ==
    ASSUME TaskType, NEW a, NEW steps \in Seq(Steps), todo' = [todo EXCEPT ![a] = steps]
    PROVE  todo' \in [Tasks -> Seq(Steps)]
  BY DEF TaskType

(* The head and the tail of what a task has to do. *)
LEMMA HeadType ==
    ASSUME TaskType, NEW a \in Tasks, NEW op, NextStep(a, op)
    PROVE  /\ Head(todo[a]) \in Steps /\ Head(todo[a]).op = op
           /\ Tail(todo[a]) \in Seq(Steps)
<1>1. todo[a] \in Seq(Steps)
  BY DEF TaskType
<1> QED
  BY <1>1, StepSeqs DEF NextStep

LEMMA ThenType ==
    ASSUME TaskType, NEW a \in Tasks, NEW op, NextStep(a, op), NEW steps \in Seq(Steps), Then(a, steps)
    PROVE  todo' \in [Tasks -> Seq(Steps)]
<1>1. steps \o Tail(todo[a]) \in Seq(Steps)
  BY HeadType, StepSeqs
<1>2. todo' = [todo EXCEPT ![a] = steps \o Tail(todo[a])]
  BY DEF Then
<1> QED
  BY <1>1, <1>2, TodoType

(* The oldest and the newest of a non-empty set of connections belong to it. *)
LEMMA OldestIn ==
    ASSUME NEW S \in SUBSET Gens, S # {}
    PROVE  Oldest(S) \in S
<1>1. S \subseteq Nat
  BY ConstantsAssumption DEF Gens
<1>2. PICK m \in S : \A y \in S : m <= y
  BY <1>1, LeastNat
<1> QED
  BY <1>2 DEF Oldest

LEMMA NewestIn ==
    ASSUME NEW S \in SUBSET Gens, S # {}
    PROVE  Newest(S) \in S
<1> DEFINE D == {MaxGen - k : k \in S}
<1>1. \A k \in S : k \in Nat /\ MaxGen - k \in Nat
  BY ConstantsAssumption DEF Gens
<1>2. D \subseteq Nat /\ D # {}
  BY <1>1
<1>3. PICK m \in D : \A y \in D : m <= y
  BY <1>2, LeastNat
<1>4. PICK k \in S : MaxGen - k = m
  BY <1>3
<1>5. \A x \in S : x <= k
  BY <1>1, <1>3, <1>4, ConstantsAssumption
<1> QED
  BY <1>5 DEF Newest

LEMMA ReaderTask == \A g \in Gens : Reader(g) \in Tasks
  BY DEF Tasks
LEMMA TimerTask == \A n \in Serials : Timer(n) \in Tasks
  BY DEF Tasks

(***************************************************************************)
(* One lemma per action: the steps of a task.                              *)
(***************************************************************************)
LEMMA PushStepInv ==
    ASSUME IndInv, NEW a \in Tasks, PushStep(a)
    PROVE  IndInv'
<1> DEFINE s == Head(todo[a])
<1>1. s \in Steps /\ s.gen \in Gens /\ s.msg \in Msg
  BY HeadType, StepFields DEF IndInv, PushStep
<1>2. ctl' \in [Gens -> Seq(Msg)] /\ cancel' \in [Gens -> BOOLEAN]
  BY <1>1, TrySendType DEF IndInv, PushStep
<1>3. todo' \in [Tasks -> Seq(Steps)]
  BY ThenType, StepSeqs DEF IndInv, PushStep
<1>4. TaskType'
  BY <1>2, <1>3 DEF IndInv, TaskType, PushStep
<1>5. TableInv' /\ Fresh'
  BY TableSame DEF IndInv, PushStep, tunnelVars, Fresh
<1> QED
  BY <1>4, <1>5 DEF IndInv

LEMMA ReplyStepInv ==
    ASSUME IndInv, NEW a \in Tasks, ReplyStep(a)
    PROVE  IndInv'
<1> DEFINE s == Head(todo[a])
<1>1. s \in Steps /\ s.gen \in Gens /\ s.msg \in Msg
  BY HeadType, StepFields DEF IndInv, ReplyStep
<1>2. PICK room \in Room(s.gen) :
        IF room THEN Queue(s.gen, s.msg) /\ Then(a, <<>>)
        ELSE Then(a, <<EndStep(s.gen)>>) /\ UNCHANGED ctl
  BY DEF ReplyStep
<1>3. ctl' \in [Gens -> Seq(Msg)]
  BY <1>1, <1>2, QueueType DEF IndInv, TaskType
<1>4. todo' \in [Tasks -> Seq(Steps)]
  <2>1. NextStep(a, "reply")
    BY DEF ReplyStep
  <2>2. <<EndStep(s.gen)>> \in Seq(Steps) /\ <<>> \in Seq(Steps)
    BY <1>1, EndStepType, StepSeqs
  <2> QED
    BY <1>2, <2>1, <2>2, ThenType DEF IndInv
<1>5. TaskType'
  BY <1>3, <1>4 DEF IndInv, TaskType, ReplyStep
<1>6. TableInv' /\ Fresh'
  BY TableSame DEF IndInv, ReplyStep, tunnelVars, Fresh
<1> QED
  BY <1>5, <1>6 DEF IndInv

LEMMA ReadyStepInv ==
    ASSUME IndInv, NEW a \in Tasks, ReadyStep(a)
    PROVE  IndInv'
<1> DEFINE s == Head(todo[a])
<1>1. s \in Steps /\ s.gen \in Gens /\ s.msg \in Msg
  BY HeadType, StepFields DEF IndInv, ReadyStep
<1>2. ctl' \in [Gens -> Seq(Msg)]
  BY <1>1, QueueType DEF IndInv, ReadyStep
<1>3. todo' \in [Tasks -> Seq(Steps)]
  BY ThenType, StepSeqs DEF IndInv, ReadyStep
<1>4. TaskType'
  BY <1>1, <1>2, <1>3 DEF IndInv, TaskType, ReadyStep
<1>5. TableInv' /\ Fresh'
  BY TableSame DEF IndInv, ReadyStep, tunnelVars, Fresh
<1> QED
  BY <1>4, <1>5 DEF IndInv

LEMMA InviteStepInv ==
    ASSUME IndInv, NEW g \in Gens, InviteStep(g)
    PROVE  IndInv'
<1> DEFINE a == Reader(g)
           s == Head(todo[a])
           fail == <<FailOpenStep(g, s.id), Reply(g, Message("open_failed", s.id, "limit"))>>
<1>1. a \in Tasks /\ NextStep(a, "invite")
  BY ReaderTask DEF InviteStep
<1>2. s \in Steps /\ s.gen \in Gens /\ s.msg \in Msg /\ s.id \in Ids /\ s.n \in Serials
  BY <1>1, HeadType, StepFields DEF IndInv
<1>3. PICK room \in Room(s.gen) :
        /\ TrySend(s.gen, s.msg, room)
        /\ IF room
           THEN /\ timers' = timers \cup {[gen |-> g, id |-> s.id, n |-> s.n]}
                /\ Then(a, <<>>)
           ELSE /\ Then(a, fail)
                /\ UNCHANGED timers
  BY DEF InviteStep
<1>4. ctl' \in [Gens -> Seq(Msg)] /\ cancel' \in [Gens -> BOOLEAN]
  BY <1>2, <1>3, TrySendType DEF IndInv
<1>5. fail \in Seq(Steps)
  <2>1. "open_failed" \in Kinds /\ "limit" \in Codes /\ s.id \in 0..MaxId
    BY <1>2, ConstantsAssumption DEF Kinds, Codes, Ids
  <2>2. Message("open_failed", s.id, "limit") \in Msg
    BY <2>1, MessageType
  <2>3. FailOpenStep(g, s.id) \in Steps /\ Reply(g, Message("open_failed", s.id, "limit")) \in Steps
    BY <1>2, <2>2, StepType DEF FailOpenStep
  <2> QED
    BY <2>3, StepSeqs
<1> HIDE DEF fail
<1>6. todo' \in [Tasks -> Seq(Steps)]
  BY <1>1, <1>3, <1>5, ThenType, StepSeqs DEF IndInv
<1>7. timers' \in SUBSET [gen: Gens, id: Ids, n: Serials]
  BY <1>2, <1>3 DEF IndInv, TaskType
<1>8. TaskType'
  BY <1>4, <1>6, <1>7 DEF IndInv, TaskType, InviteStep
<1>9. TableInv' /\ Fresh'
  BY TableSame DEF IndInv, InviteStep, tunnelVars, Fresh
<1> QED
  BY <1>8, <1>9 DEF IndInv

(* Hub::fail_open, called by a reader or a timer. *)
LEMMA FailOpenInv ==
    ASSUME TaskType, TableInv, NEW a, NEW g \in Gens, NEW i \in Ids, NEW code \in Codes,
           NEW rest \in Seq(Steps), FailOpen(a, g, i, code, rest), slot' = slot
    PROVE  TableInv' /\ todo' \in [Tasks -> Seq(Steps)]
<1> DEFINE e == pout[g][i]
           out == PushIfLive(slot, g, Message("open_failed", i, code))
                  \o PushIfLive(slot, e.gen, Message("closed", e.id, "remote")) \o rest
<1>1. CASE slot[g] = NoDev \/ e = NoEnd
  <2>1. todo' = [todo EXCEPT ![a] = rest] /\ UNCHANGED tunnelVars
    BY <1>1 DEF FailOpen
  <2> QED
    BY <2>1, TodoType, TableSame DEF tunnelVars
<1>2. CASE ~(slot[g] = NoDev \/ e = NoEnd)
  <2>1. TableTimeout(g, i) /\ todo' = [todo EXCEPT ![a] = out]
    BY <1>2 DEF FailOpen
  <2>2. e.gen \in Gens /\ e.id \in 0..MaxId /\ i \in 0..MaxId
    BY <1>2, EndType, ConstantsAssumption DEF TableInv, Ids
  <2>3. "open_failed" \in Kinds /\ "closed" \in Kinds /\ "remote" \in Codes
    BY DEF Kinds, Codes
  <2>4. Message("open_failed", i, code) \in Msg /\ Message("closed", e.id, "remote") \in Msg
    BY <2>2, <2>3, MessageType
  <2>5. /\ PushIfLive(slot, g, Message("open_failed", i, code)) \in Seq(Steps)
        /\ PushIfLive(slot, e.gen, Message("closed", e.id, "remote")) \in Seq(Steps)
    BY <2>2, <2>4, PushIfLiveType
  <2>6. out \in Seq(Steps)
    BY <2>5, StepSeqs
  <2> HIDE DEF out
  <2>7. todo' \in [Tasks -> Seq(Steps)]
    BY <2>1, <2>6, TodoType
  <2>8. TableInv'
    BY <1>2, <2>1, TimeoutTab
  <2> QED
    BY <2>7, <2>8
<1> QED
  BY <1>1, <1>2

LEMMA FailOpenNowInv ==
    ASSUME IndInv, NEW a \in Tasks, FailOpenNow(a)
    PROVE  IndInv'
<1> DEFINE s == Head(todo[a])
<1>1. s \in Steps /\ s.gen \in Gens /\ s.id \in Ids /\ Tail(todo[a]) \in Seq(Steps)
  BY HeadType, StepFields DEF IndInv, FailOpenNow
<1>2. FailOpen(a, s.gen, s.id, "limit", Tail(todo[a])) /\ slot' = slot
  BY DEF FailOpenNow
<1>3. "limit" \in Codes
  BY DEF Codes
<1>4. TableInv' /\ todo' \in [Tasks -> Seq(Steps)]
  BY <1>1, <1>2, <1>3, FailOpenInv DEF IndInv
<1>5. TaskType' /\ Fresh'
  BY <1>4 DEF IndInv, TaskType, FailOpenNow, Fresh
<1> QED
  BY <1>4, <1>5 DEF IndInv

LEMMA TimerFiresInv ==
    ASSUME IndInv, NEW t \in timers, TimerFires(t)
    PROVE  IndInv'
<1>1. t.gen \in Gens /\ t.id \in Ids
  BY DEF IndInv, TaskType
<1>2. FailOpen(Timer(t.n), t.gen, t.id, "timeout", <<>>) /\ slot' = slot
  BY DEF TimerFires
<1>3. "timeout" \in Codes /\ <<>> \in Seq(Steps)
  BY StepSeqs DEF Codes
<1>4. TableInv' /\ todo' \in [Tasks -> Seq(Steps)]
  BY <1>1, <1>2, <1>3, FailOpenInv DEF IndInv
<1>5. TaskType' /\ Fresh'
  BY <1>4 DEF IndInv, TaskType, TimerFires, Fresh
<1> QED
  BY <1>4, <1>5 DEF IndInv

(***************************************************************************)
(* Registration.                                                           *)
(***************************************************************************)
LEMMA DisplacedType ==
    ASSUME TableType, NEW d \in Devices, NEW h \in Displaced(d)
    PROVE  h \in Gens /\ slot[h] # NoDev
<1>1. CASE {k \in Gens : slot[k] = d} # {}
  BY <1>1, ConstantsAssumption DEF Displaced
<1>2. CASE {k \in Gens : slot[k] = d} = {}
  <2>1. SamePeer(d) # {} => Oldest(SamePeer(d)) \in SamePeer(d)
    BY OldestIn DEF SamePeer
  <2>2. Cardinality(SamePeer(d)) >= MaxDevicesPerPeer => SamePeer(d) # {}
    BY FS_EmptySet, ConstantsAssumption
  <2>3. h = Oldest(SamePeer(d)) /\ SamePeer(d) # {}
    BY <1>2, <2>2 DEF Displaced
  <2> QED
    BY <2>1, <2>3 DEF SamePeer
<1> QED
  BY <1>1, <1>2

LEMMA RegisterInv ==
    ASSUME IndInv, NEW d \in Devices, Register(d)
    PROVE  IndInv'
<1> DEFINE g == nextGen
           ready == Step("ready", g, 0, Message("ready", 0, ""))
<1>0. /\ nextGen <= MaxGen /\ nextGen' = nextGen + 1
      /\ sess' = [sess EXCEPT ![g] = "auth"]
      /\ serial' = serial /\ timers' = timers
  BY DEF Register
<1>1. g \in Gens /\ g \in Int
  BY <1>0, ConstantsAssumption DEF IndInv, TaskType, Gens
<1>2. slot[g] = NoDev
  BY <1>1 DEF IndInv, Fresh
<1>3. ready \in Steps /\ <<ready>> \in Seq(Steps)
  <2>1. "ready" \in Kinds /\ "" \in Codes /\ 0 \in 0..MaxId
    BY ConstantsAssumption DEF Kinds, Codes
  <2> QED
    BY <1>1, <2>1, MessageType, StepType, StepSeqs
<1> HIDE DEF ready
<1>4. nextGen' \in 1..(MaxGen + 1) /\ nextGen' = nextGen + 1
  BY <1>0, <1>1, ConstantsAssumption DEF Gens
<1>5. sess' \in [Gens -> {"new", "auth", "ready", "gone"}]
  BY <1>0, <1>1 DEF IndInv, TaskType
<1>6. CASE /\ slot' = [slot EXCEPT ![g] = d]
           /\ todo' = [todo EXCEPT ![Reader(g)] = <<ready>>]
           /\ UNCHANGED <<tunnelVars, ctl, cancel>>
  <2>1. TaskType'
    BY <1>0, <1>3, <1>4, <1>5, <1>6, TodoType DEF IndInv, TaskType
  <2>2. Fresh'
    BY <1>1, <1>4, <1>6 DEF IndInv, Fresh, TableInv, TableType, Gens
  <2>3. TableType'
    BY <1>6 DEF IndInv, TableInv, TableType, tunnelVars
  <2>4. Paired' /\ IdsUnique'
    BY <1>6 DEF IndInv, TableInv, Paired, Mirrored, IdsUnique, tunnelVars
  <2>5. \A k \in Gens : slot[k] # NoDev => slot'[k] = slot[k]
    BY <1>1, <1>2, <1>6 DEF IndInv, TableInv, TableType
  <2>6. \A f \in {est, pout, pin}, k \in Gens, l \in Ids : f[k][l] # NoEnd => f[k][l].gen \in Gens
    BY EndType DEF IndInv, TableInv
  <2>7. est' = est /\ pout' = pout /\ pin' = pin
    BY <1>6 DEF tunnelVars
  <2>8. Live(est) /\ Live(pout) /\ Live(pin)
    BY DEF IndInv, TableInv
  <2>9. (Live(est) /\ Live(pout) /\ Live(pin))'
    BY <2>5, <2>6, <2>7, <2>8 DEF Live
  <2> QED
    BY <2>1, <2>2, <2>3, <2>4, <2>9 DEF IndInv, TableInv
<1>7. ASSUME NEW h \in Displaced(d), NEW out \in Orders(Disconnects(h)),
             TableDrop(h),
             slot' = [slot EXCEPT ![h] = NoDev, ![g] = d],
             IF TRUE \in Room(h) THEN Queue(h, Message("error", 0, "replaced")) ELSE UNCHANGED ctl,
             Cancel(h),
             todo' = [todo EXCEPT ![Reader(g)] = out \o <<ready>>]
      PROVE  IndInv'
  <2>1. h \in Gens /\ slot[h] # NoDev
    BY DisplacedType DEF IndInv, TableInv
  <2>2. out \o <<ready>> \in Seq(Steps)
    BY <1>3, <2>1, DisconnectsType, StepSeqs DEF IndInv, TableInv
  <2>3. todo' \in [Tasks -> Seq(Steps)]
    BY <1>7, <2>2, TodoType DEF IndInv
  <2>4. ctl' \in [Gens -> Seq(Msg)]
    <3>1. "error" \in Kinds /\ "replaced" \in Codes /\ 0 \in 0..MaxId
      BY ConstantsAssumption DEF Kinds, Codes
    <3>2. Message("error", 0, "replaced") \in Msg
      BY <3>1, MessageType
    <3> QED
      BY <1>7, <2>1, <3>2, QueueType DEF IndInv, TaskType
  <2>5. cancel' \in [Gens -> BOOLEAN]
    BY <1>7 DEF Cancel, IndInv, TaskType
  <2>6. TaskType'
    BY <1>0, <1>4, <1>5, <2>3, <2>4, <2>5 DEF IndInv, TaskType
  <2>7. slot' \in [Gens -> Devices \cup {NoDev}]
    BY <1>7 DEF IndInv, TableInv, TableType
  <2>8. \A k \in Gens : k # h /\ slot[k] # NoDev => slot'[k] = slot[k]
    BY <1>1, <1>2, <1>7 DEF IndInv, TableInv, TableType
  <2>9. TableInv'
    BY <1>7, <2>1, <2>7, <2>8, DropTab DEF IndInv
  <2>10. Fresh'
    BY <1>1, <1>4, <1>7 DEF IndInv, Fresh, TableInv, TableType, Gens
  <2> QED
    BY <2>6, <2>9, <2>10 DEF IndInv
<1> QED
  BY <1>6, <1>7 DEF Register, ready

LEMMA SessionEndsInv ==
    ASSUME IndInv, NEW g \in Gens, SessionEnds(g)
    PROVE  IndInv'
<1>1. /\ ctl' \in [Gens -> Seq(Msg)]
      /\ cancel' \in [Gens -> BOOLEAN]
      /\ sess' \in [Gens -> {"new", "auth", "ready", "gone"}]
  BY EmptySeq DEF SessionEnds, IndInv, TaskType
<1>2. CASE slot[g] = NoDev
  <2>1. todo' = [todo EXCEPT ![Reader(g)] = <<>>] /\ UNCHANGED <<tunnelVars, slot>>
    BY <1>2 DEF SessionEnds
  <2>2. todo' \in [Tasks -> Seq(Steps)]
    BY <2>1, TodoType, StepSeqs DEF IndInv
  <2>3. TaskType'
    BY <1>1, <2>2 DEF IndInv, TaskType, SessionEnds
  <2>4. TableInv'
    BY <2>1, TableSame DEF IndInv, tunnelVars
  <2>5. Fresh'
    BY <2>1 DEF IndInv, Fresh, SessionEnds
  <2> QED
    BY <2>3, <2>4, <2>5 DEF IndInv
<1>3. CASE slot[g] # NoDev
  <2>1. /\ TableDrop(g)
        /\ slot' = [slot EXCEPT ![g] = NoDev]
        /\ \E out \in Orders(Disconnects(g)) : todo' = [todo EXCEPT ![Reader(g)] = out]
    BY <1>3 DEF SessionEnds
  <2>2. PICK out \in Orders(Disconnects(g)) : todo' = [todo EXCEPT ![Reader(g)] = out]
    BY <2>1
  <2>3. out \in Seq(Steps)
    BY DisconnectsType DEF IndInv, TableInv
  <2>4. todo' \in [Tasks -> Seq(Steps)]
    BY <2>2, <2>3, TodoType DEF IndInv
  <2>5. TaskType'
    BY <1>1, <2>4 DEF IndInv, TaskType, SessionEnds
  <2>6. slot' \in [Gens -> Devices \cup {NoDev}]
    BY <2>1 DEF IndInv, TableInv, TableType
  <2>7. \A k \in Gens : k # g /\ slot[k] # NoDev => slot'[k] = slot[k]
    BY <2>1 DEF IndInv, TableInv, TableType
  <2>8. TableInv'
    BY <2>1, <2>6, <2>7, DropTab DEF IndInv
  <2>9. Fresh'
    BY <2>1 DEF IndInv, Fresh, SessionEnds, TableInv, TableType
  <2> QED
    BY <2>5, <2>8, <2>9 DEF IndInv
<1> QED
  BY <1>2, <1>3

(***************************************************************************)
(* The handlers of on_text.                                                *)
(***************************************************************************)
LEMMA AnswerType ==
    ASSUME TaskType, NEW g \in Gens, NEW steps \in Seq(Steps), Answer(g, steps)
    PROVE  todo' \in [Tasks -> Seq(Steps)]
  BY TodoType DEF Answer

LEMMA RefuseType ==
    ASSUME TaskType, NEW g \in Gens, NEW msg \in Msg, Refuse(g, msg)
    PROVE  ctl' \in [Gens -> Seq(Msg)] /\ todo' \in [Tasks -> Seq(Steps)]
<1>1. PICK room \in Room(g) : IF room THEN Queue(g, msg) /\ UNCHANGED todo
                               ELSE Answer(g, <<EndStep(g)>>) /\ UNCHANGED ctl
  BY DEF Refuse
<1>2. <<EndStep(g)>> \in Seq(Steps)
  BY EndStepType, StepSeqs
<1>3. CASE room
  BY <1>1, <1>3, QueueType DEF TaskType
<1>4. CASE ~room
  BY <1>1, <1>2, <1>4, AnswerType DEF TaskType
<1> QED
  BY <1>3, <1>4

LEMMA InvalidType == Message("error", 0, "invalid") \in Msg
<1>1. "error" \in Kinds /\ "invalid" \in Codes /\ 0 \in 0..MaxId
  BY ConstantsAssumption DEF Kinds, Codes
<1> QED
  BY <1>1, MessageType

(* A message about tunnel id i, pushed to a connection if it is still there. *)
LEMMA NoticeType ==
    ASSUME NEW h \in Gens, NEW i \in Ids, NEW t \in Kinds, NEW code \in Codes
    PROVE  PushIfLive(slot, h, Message(t, i, code)) \in Seq(Steps)
<1>1. i \in 0..MaxId
  BY ConstantsAssumption DEF Ids
<1> QED
  BY <1>1, MessageType, PushIfLiveType

LEMMA HandleOpenInv ==
    ASSUME IndInv, NEW g \in Gens, NEW i \in Ids, NEW d \in Devices, NEW named \in BOOLEAN,
           HandleOpen(g, i, d, named)
    PROVE  IndInv'
<1> DEFINE code == OpenCode(g, i, d, named)
           h == Newest(Targets(d, named))
<1>1. /\ nextGen' = nextGen /\ sess' = sess /\ slot' = slot /\ cancel' = cancel /\ timers' = timers
  BY DEF HandleOpen
<1>2. Fresh'
  BY <1>1 DEF IndInv, Fresh
<1>3. CASE code = "ok"
  <2>1. /\ serial < MaxOpens /\ serial' = serial + 1
        /\ TableOpen(g, i, h)
        /\ Answer(g, <<Invite(g, i, serial + 1, h, AllocId(h))>>)
        /\ ctl' = ctl
    BY <1>3 DEF HandleOpen
  <2>2. slot[g] # NoDev /\ slot[g][1] # d[1] /\ Targets(d, named) # {} /\ OpenCheck(g, i, h) = "ok"
    BY <1>3 DEF OpenCode, ConnMatches
  <2>3. h \in Gens /\ slot[h] # NoDev /\ slot[h][1] = d[1]
    <3>1. h \in Targets(d, named)
      BY <2>2, NewestIn DEF Targets, SamePeer
    <3> QED
      BY <3>1, ConstantsAssumption DEF Targets, SamePeer
  <2>4. ~Used(g, i) /\ FreeIds(h) # {}
    BY <2>2 DEF OpenCheck
  <2> HIDE DEF h
  <2>5. TableInv'
    BY <1>1, <2>1, <2>2, <2>3, <2>4, OpenTab DEF IndInv
  <2>6. AllocId(h) \in Ids /\ slot[g] \in Devices
    BY <2>2, <2>3, <2>4, AllocFree DEF IndInv, TableInv, TableType, FreeIds
  <2>7. serial + 1 \in Serials /\ serial + 1 \in 0..MaxOpens
    BY <2>1, ConstantsAssumption DEF IndInv, TaskType, Serials
  <2>8. Invite(g, i, serial + 1, h, AllocId(h)) \in Steps
    BY <2>3, <2>6, <2>7, IncomingType DEF Invite, Steps
  <2>9. todo' \in [Tasks -> Seq(Steps)]
    BY <2>1, <2>8, StepSeqs, AnswerType DEF IndInv
  <2>10. TaskType'
    BY <1>1, <2>1, <2>7, <2>9 DEF IndInv, TaskType
  <2> QED
    BY <1>2, <2>5, <2>10 DEF IndInv
<1>4. CASE code # "ok"
  <2>1. Refuse(g, Message("open_failed", i, code)) /\ UNCHANGED <<serial, tunnelVars>>
    BY <1>4 DEF HandleOpen
  <2>2. code \in Codes /\ "open_failed" \in Kinds /\ i \in 0..MaxId
    BY <1>4, ConstantsAssumption DEF OpenCode, OpenCheck, Codes, Kinds, Ids
  <2>3. ctl' \in [Gens -> Seq(Msg)] /\ todo' \in [Tasks -> Seq(Steps)]
    BY <2>1, <2>2, MessageType, RefuseType DEF IndInv
  <2>4. TaskType'
    BY <1>1, <2>1, <2>3 DEF IndInv, TaskType
  <2>5. TableInv'
    BY <1>1, <2>1, TableSame DEF IndInv, tunnelVars
  <2> QED
    BY <1>2, <2>4, <2>5 DEF IndInv
<1> QED
  BY <1>3, <1>4

LEMMA HandleAcceptInv ==
    ASSUME IndInv, NEW g \in Gens, NEW i \in Ids, HandleAccept(g, i)
    PROVE  IndInv'
<1> DEFINE e == pin[g][i]
<1>1. /\ nextGen' = nextGen /\ sess' = sess /\ slot' = slot /\ cancel' = cancel
      /\ serial' = serial /\ timers' = timers
  BY DEF HandleAccept
<1>2. Fresh'
  BY <1>1 DEF IndInv, Fresh
<1>3. CASE ConnMatches(g) /\ e # NoEnd
  <2>1. /\ TableAccept(g, i)
        /\ IF pout[e.gen][e.id] = NoEnd THEN Refuse(g, Message("error", 0, "invalid"))
           ELSE /\ Answer(g, PushIfLive(slot, e.gen, Message("opened", e.id, "")))
                /\ UNCHANGED ctl
    BY <1>3 DEF HandleAccept
  <2>2. TableInv'
    BY <1>1, <1>3, <2>1, AcceptTab DEF IndInv
  <2>3. e.gen \in Gens /\ e.id \in Ids /\ "opened" \in Kinds /\ "" \in Codes
    BY <1>3, EndType DEF IndInv, TableInv, Kinds, Codes
  <2>4. PushIfLive(slot, e.gen, Message("opened", e.id, "")) \in Seq(Steps)
    BY <2>3, NoticeType
  <2>5. ctl' \in [Gens -> Seq(Msg)] /\ todo' \in [Tasks -> Seq(Steps)]
    BY <2>1, <2>4, InvalidType, RefuseType, AnswerType DEF IndInv, TaskType
  <2>6. TaskType'
    BY <1>1, <2>5 DEF IndInv, TaskType
  <2> QED
    BY <1>2, <2>2, <2>6 DEF IndInv
<1>4. CASE ~(ConnMatches(g) /\ e # NoEnd)
  <2>1. Refuse(g, Message("error", 0, "invalid")) /\ UNCHANGED tunnelVars
    BY <1>4 DEF HandleAccept
  <2>2. ctl' \in [Gens -> Seq(Msg)] /\ todo' \in [Tasks -> Seq(Steps)]
    BY <2>1, InvalidType, RefuseType DEF IndInv
  <2>3. TaskType' /\ TableInv'
    BY <1>1, <2>1, <2>2, TableSame DEF IndInv, TaskType, tunnelVars
  <2> QED
    BY <1>2, <2>3 DEF IndInv
<1> QED
  BY <1>3, <1>4

LEMMA HandleRejectInv ==
    ASSUME IndInv, NEW g \in Gens, NEW i \in Ids, HandleReject(g, i)
    PROVE  IndInv'
<1> DEFINE e == pin[g][i]
<1>1. /\ nextGen' = nextGen /\ sess' = sess /\ slot' = slot /\ cancel' = cancel
      /\ serial' = serial /\ timers' = timers
  BY DEF HandleReject
<1>2. Fresh'
  BY <1>1 DEF IndInv, Fresh
<1>3. CASE ConnMatches(g) /\ e # NoEnd
  <2>1. /\ TableReject(g, i)
        /\ Answer(g, PushIfLive(slot, e.gen, Message("open_failed", e.id, "rejected")))
        /\ ctl' = ctl
    BY <1>3 DEF HandleReject
  <2>2. TableInv'
    BY <1>1, <1>3, <2>1, RejectTab DEF IndInv
  <2>3. e.gen \in Gens /\ e.id \in Ids /\ "open_failed" \in Kinds /\ "rejected" \in Codes
    BY <1>3, EndType DEF IndInv, TableInv, Kinds, Codes
  <2>4. PushIfLive(slot, e.gen, Message("open_failed", e.id, "rejected")) \in Seq(Steps)
    BY <2>3, NoticeType
  <2>5. TaskType'
    BY <1>1, <2>1, <2>4, AnswerType DEF IndInv, TaskType
  <2> QED
    BY <1>2, <2>2, <2>5 DEF IndInv
<1>4. CASE ~(ConnMatches(g) /\ e # NoEnd)
  <2>1. Refuse(g, Message("error", 0, "invalid")) /\ UNCHANGED tunnelVars
    BY <1>4 DEF HandleReject
  <2>2. ctl' \in [Gens -> Seq(Msg)] /\ todo' \in [Tasks -> Seq(Steps)]
    BY <2>1, InvalidType, RefuseType DEF IndInv
  <2>3. TaskType' /\ TableInv'
    BY <1>1, <2>1, <2>2, TableSame DEF IndInv, TaskType, tunnelVars
  <2> QED
    BY <1>2, <2>3 DEF IndInv
<1> QED
  BY <1>3, <1>4

(* Hub::close_tunnel, for `close` and after a forward that timed out. *)
LEMMA CloseTunnelInv ==
    ASSUME TaskType, TableInv, NEW g \in Gens, NEW i \in Ids, NEW code \in Codes,
           NEW rest \in Seq(Steps), CloseTunnel(g, i, code, rest), slot' = slot
    PROVE  TableInv' /\ todo' \in [Tasks -> Seq(Steps)]
<1> DEFINE e == CloseEnd(g, i)
<1>1. CASE ConnMatches(g) /\ e # NoEnd
  <2>1. /\ TableClose(g, i)
        /\ Answer(g, PushIfLive(slot, e.gen, Message("closed", e.id, code)) \o rest)
    BY <1>1 DEF CloseTunnel
  <2>2. TableInv'
    BY <1>1, <2>1, CloseTab
  <2>3. e.gen \in Gens /\ e.id \in Ids /\ "closed" \in Kinds
    BY <1>1, EndType DEF TableInv, CloseEnd, Kinds
  <2>4. PushIfLive(slot, e.gen, Message("closed", e.id, code)) \o rest \in Seq(Steps)
    BY <2>3, NoticeType, StepSeqs
  <2> QED
    BY <2>1, <2>2, <2>4, AnswerType
<1>2. CASE ~(ConnMatches(g) /\ e # NoEnd)
  <2>1. Answer(g, rest) /\ UNCHANGED tunnelVars
    BY <1>2 DEF CloseTunnel
  <2> QED
    BY <2>1, AnswerType, TableSame DEF tunnelVars
<1> QED
  BY <1>1, <1>2

LEMMA HandleCloseInv ==
    ASSUME IndInv, NEW g \in Gens, NEW i \in Ids, HandleClose(g, i)
    PROVE  IndInv'
<1>1. "remote" \in Codes /\ <<>> \in Seq(Steps)
  BY StepSeqs DEF Codes
<1>2. TableInv' /\ todo' \in [Tasks -> Seq(Steps)]
  BY <1>1, CloseTunnelInv DEF HandleClose, IndInv
<1>3. TaskType' /\ Fresh'
  BY <1>2 DEF IndInv, TaskType, HandleClose, Fresh
<1> QED
  BY <1>2, <1>3 DEF IndInv

LEMMA HandleBinaryInv ==
    ASSUME IndInv, NEW g \in Gens, NEW i \in Ids, HandleBinary(g, i)
    PROVE  IndInv'
<1>1. "closed" \in Kinds /\ "overflow" \in Codes /\ i \in 0..MaxId
  BY ConstantsAssumption DEF Kinds, Codes, Ids
<1>2. <<Step("forward", g, i, Message("closed", i, "overflow"))>> \in Seq(Steps)
  BY <1>1, MessageType, StepType, StepSeqs
<1>3. todo' \in [Tasks -> Seq(Steps)]
  BY <1>2, AnswerType DEF HandleBinary, IndInv
<1>4. TaskType' /\ TableInv' /\ Fresh'
  BY <1>3, TableSame DEF IndInv, TaskType, HandleBinary, tunnelVars, Fresh
<1> QED
  BY <1>4 DEF IndInv

LEMMA ForwardedInv ==
    ASSUME IndInv, NEW g \in Gens, Forwarded(g)
    PROVE  IndInv'
<1>1. todo' \in [Tasks -> Seq(Steps)]
  BY StepSeqs, AnswerType DEF Forwarded, IndInv
<1>2. TaskType' /\ TableInv' /\ Fresh'
  BY <1>1, TableSame DEF IndInv, TaskType, Forwarded, tunnelVars, Fresh
<1> QED
  BY <1>2 DEF IndInv

LEMMA ForwardTimeoutInv ==
    ASSUME IndInv, NEW g \in Gens, ForwardTimeout(g)
    PROVE  IndInv'
<1> DEFINE s == Head(todo[Reader(g)])
<1>1. s \in Steps /\ s.id \in Ids /\ s.msg \in Msg
  BY ReaderTask, HeadType, StepFields DEF IndInv, ForwardTimeout
<1>2. "overflow" \in Codes /\ PushIfLive(slot, g, s.msg) \in Seq(Steps)
  BY <1>1, PushIfLiveType DEF Codes
<1>3. CloseTunnel(g, s.id, "overflow", PushIfLive(slot, g, s.msg)) /\ slot' = slot
  BY DEF ForwardTimeout
<1>4. TableInv' /\ todo' \in [Tasks -> Seq(Steps)]
  BY <1>1, <1>2, <1>3, CloseTunnelInv DEF IndInv
<1>5. TaskType' /\ Fresh'
  BY <1>4 DEF IndInv, TaskType, ForwardTimeout, Fresh
<1> QED
  BY <1>4, <1>5 DEF IndInv

LEMMA WriteInv ==
    ASSUME IndInv, NEW g \in Gens, Write(g)
    PROVE  IndInv'
<1>1. ctl' \in [Gens -> Seq(Msg)]
  <2>1. CASE KeepMessages
    <3>1. Tail(ctl[g]) \in Seq(Msg)
      BY <2>1, HeadTailProperties DEF Write, IndInv, TaskType
    <3> QED
      BY <2>1, <3>1 DEF Write, IndInv, TaskType
  <2>2. CASE ~KeepMessages
    BY <2>2 DEF Write, IndInv, TaskType
  <2> QED
    BY <2>1, <2>2
<1>2. TaskType' /\ TableInv' /\ Fresh'
  BY <1>1, TableSame DEF IndInv, TaskType, Write, tunnelVars, Fresh
<1> QED
  BY <1>2 DEF IndInv

(***************************************************************************)
(* Every step, and the theorems.                                           *)
(***************************************************************************)
LEMMA NextInv == IndInv /\ [Next]_vars => IndInv'
<1> SUFFICES ASSUME IndInv, [Next]_vars PROVE IndInv'
  OBVIOUS
<1>1. ASSUME NEW d \in Devices, Register(d) PROVE IndInv'
  BY <1>1, RegisterInv
<1>2. ASSUME NEW g \in Gens, SessionEnds(g) \/ Write(g) \/ ReaderStep(g) PROVE IndInv'
  BY <1>2, SessionEndsInv, WriteInv, InviteStepInv, ForwardedInv, ForwardTimeoutInv DEF ReaderStep
<1>3. ASSUME NEW g \in Gens, Request(g) PROVE IndInv'
  <2>1. ASSUME NEW i \in Ids, NEW d \in Devices, NEW named \in BOOLEAN, HandleOpen(g, i, d, named)
        PROVE  IndInv'
    BY <2>1, HandleOpenInv
  <2>2. ASSUME NEW i \in Ids,
               HandleAccept(g, i) \/ HandleReject(g, i) \/ HandleClose(g, i) \/ HandleBinary(g, i)
        PROVE  IndInv'
    BY <2>2, HandleAcceptInv, HandleRejectInv, HandleCloseInv, HandleBinaryInv
  <2> QED
    BY <1>3, <2>1, <2>2 DEF Request
<1>4. ASSUME NEW a \in Tasks, TaskStep(a) PROVE IndInv'
  BY <1>4, PushStepInv, ReplyStepInv, ReadyStepInv, FailOpenNowInv DEF TaskStep
<1>5. ASSUME NEW t \in timers, TimerFires(t) PROVE IndInv'
  BY <1>5, TimerFiresInv
<1>6. CASE UNCHANGED vars
  BY <1>6, TableSame DEF IndInv, TaskType, Fresh, vars
<1> QED
  BY <1>1, <1>2, <1>3, <1>4, <1>5, <1>6 DEF Next

LEMMA Invariance == Spec => []IndInv
  BY InitInv, NextInv, PTL DEF Spec

(* Every variable of the hub keeps its type: an entry of the table names a  *)
(* connection slot and an id, and every step that a task takes after the    *)
(* hub's lock was released names one too.                                   *)
THEOREM TypeCorrect == Spec => []TypeOK
  BY Invariance, IndInvImplies, PTL

(* The two halves of every tunnel and every open request name each other,   *)
(* however the lock-free sends, timers, replacements and disconnects of     *)
(* hub.rs interleave.                                                       *)
THEOREM PairingCorrect == Spec => []Paired
  BY Invariance, IndInvImplies, PTL

(* An id of a connection never names two tunnels or requests at once,       *)
(* although client (open) and relay (alloc_id) both hand out ids.           *)
THEOREM IdsCorrect == Spec => []IdsUnique
  BY Invariance, IndInvImplies, PTL

(* No tunnel outlives a connection at either end, and none joins two        *)
(* devices of one identity: detach_conn leaves nothing behind.              *)
THEOREM EndsCorrect == Spec => []EndsLive
  BY Invariance, IndInvImplies, PTL

(***************************************************************************)
(* What a step may do to an established tunnel.                            *)
(***************************************************************************)
NotRewired ==
    \A g \in Gens, i \in Ids : est'[g][i] # est[g][i] =>
        \/ est'[g][i] = NoEnd
        \/ est[g][i] = NoEnd /\ est'[g][i] \in {pout[g][i], pin[g][i]}

LEMMA DropEst ==
    ASSUME NEW g \in Gens, TableDrop(g)
    PROVE  NotRewired
<1> DEFINE E == Ends(est, g)
<1>1. est' = DropEnds(est, g, E)
  BY DEF TableDrop
<1> HIDE DEF E
<1>2. \A k \in Gens, l \in Ids : est'[k][l] = NoEnd \/ est'[k][l] = est[k][l]
  BY <1>1 DEF DropEnds
<1> QED
  BY <1>2 DEF NotRewired

LEMMA CloseEst ==
    ASSUME TableInv, NEW g \in Gens, NEW i \in Ids, TableClose(g, i)
    PROVE  NotRewired
<1>1. CASE est[g][i] = NoEnd
  BY <1>1 DEF TableClose, TableTimeout, TableReject, NotRewired
<1>2. CASE est[g][i] # NoEnd
  <2> DEFINE e == est[g][i]
  <2>1. e.gen \in Gens /\ e.id \in Ids
    BY <1>2, EndType DEF TableInv
  <2>2. est' = [est EXCEPT ![g][i] = NoEnd, ![e.gen][e.id] = NoEnd]
    BY <1>2 DEF TableClose
  <2> HIDE DEF e
  <2>3. \A k \in Gens, l \in Ids : est'[k][l] = NoEnd \/ est'[k][l] = est[k][l]
    BY <2>1, <2>2 DEF TableInv, TableType
  <2> QED
    BY <2>3 DEF NotRewired
<1> QED
  BY <1>1, <1>2

LEMMA AcceptEst ==
    ASSUME TableInv, NEW g \in Gens, NEW i \in Ids, pin[g][i] # NoEnd, TableAccept(g, i)
    PROVE  NotRewired
<1> DEFINE e == pin[g][i]
<1>1. e.gen \in Gens /\ e.id \in Ids
  BY EndType DEF TableInv
<1>2. pout[e.gen][e.id] = [gen |-> g, id |-> i] /\ pout[e.gen][e.id] # NoEnd
  BY EndNotNone DEF TableInv, Paired, Mirrored
<1>3. est[g][i] = NoEnd /\ est[e.gen][e.id] = NoEnd
  BY <1>1, <1>2 DEF TableInv, IdsUnique
<1>4. est' = [est EXCEPT ![g][i] = e, ![e.gen][e.id] = [gen |-> g, id |-> i]]
  BY <1>2 DEF TableAccept
<1>5. pin[g][i] = e
  OBVIOUS
<1> HIDE DEF e
<1>6. \A k \in Gens, l \in Ids : est'[k][l] # est[k][l] =>
        \/ k = e.gen /\ l = e.id /\ est'[k][l] = [gen |-> g, id |-> i]
        \/ k = g /\ l = i /\ est'[k][l] = e
  BY <1>1, <1>4 DEF TableInv, TableType
<1> QED
  BY <1>2, <1>3, <1>5, <1>6 DEF NotRewired

LEMMA SameEst == est' = est => NotRewired
  BY DEF NotRewired

LEMMA NextEst == IndInv /\ [Next]_vars => NotRewired
<1> SUFFICES ASSUME IndInv, [Next]_vars PROVE NotRewired
  OBVIOUS
<1>1. ASSUME NEW d \in Devices, Register(d) PROVE NotRewired
  <2>1. \/ est' = est
        \/ \E h \in Displaced(d) : TableDrop(h)
    BY <1>1 DEF Register, tunnelVars
  <2> QED
    BY <2>1, DisplacedType, DropEst, SameEst DEF IndInv, TableInv
<1>2. ASSUME NEW g \in Gens, SessionEnds(g) PROVE NotRewired
  BY <1>2, DropEst, SameEst DEF SessionEnds, tunnelVars
<1>3. ASSUME NEW g \in Gens, NEW i \in Ids, NEW code, NEW rest, CloseTunnel(g, i, code, rest)
      PROVE  NotRewired
  BY <1>3, CloseEst, SameEst DEF CloseTunnel, IndInv, tunnelVars
<1>4. ASSUME NEW g \in Gens, Write(g) \/ InviteStep(g) \/ Forwarded(g) PROVE NotRewired
  BY <1>4, SameEst DEF Write, InviteStep, Forwarded, tunnelVars
<1>5. ASSUME NEW g \in Gens, ForwardTimeout(g) PROVE NotRewired
  <2>1. Head(todo[Reader(g)]).id \in Ids
    BY <1>5, ReaderTask, HeadType, StepFields DEF IndInv, ForwardTimeout
  <2> QED
    BY <1>3, <1>5, <2>1 DEF ForwardTimeout
<1>6. ASSUME NEW g \in Gens, Request(g) PROVE NotRewired
  <2>1. ASSUME NEW i \in Ids, NEW d \in Devices, NEW named \in BOOLEAN, HandleOpen(g, i, d, named)
        PROVE  NotRewired
    BY <2>1, SameEst DEF HandleOpen, TableOpen, tunnelVars
  <2>2. ASSUME NEW i \in Ids, HandleAccept(g, i) PROVE NotRewired
    BY <2>2, AcceptEst, SameEst DEF HandleAccept, IndInv, tunnelVars
  <2>3. ASSUME NEW i \in Ids, HandleReject(g, i) \/ HandleBinary(g, i) PROVE NotRewired
    BY <2>3, SameEst DEF HandleReject, HandleBinary, TableReject, tunnelVars
  <2>4. ASSUME NEW i \in Ids, HandleClose(g, i) PROVE NotRewired
    BY <1>3, <2>4 DEF HandleClose
  <2> QED
    BY <1>6, <2>1, <2>2, <2>3, <2>4 DEF Request
<1>7. ASSUME NEW a \in Tasks, TaskStep(a) PROVE NotRewired
  <2>1. est' = est
    BY <1>7 DEF TaskStep, PushStep, ReplyStep, ReadyStep, FailOpenNow, FailOpen, TableTimeout, tunnelVars
  <2> QED
    BY <2>1, SameEst
<1>8. ASSUME NEW t \in timers, TimerFires(t) PROVE NotRewired
  BY <1>8, SameEst DEF TimerFires, FailOpen, TableTimeout, tunnelVars
<1>9. CASE UNCHANGED vars
  BY <1>9, SameEst DEF vars
<1> QED
  BY <1>1, <1>2, <1>4, <1>5, <1>6, <1>7, <1>8, <1>9 DEF Next, ReaderStep

(* The partner of a tunnel end never changes: an end appears from the two   *)
(* pending entries of one pair (Tunnels::accept) and disappears, nothing    *)
(* else, so bytes of one tunnel cannot reach another.                       *)
THEOREM NeverRewired == Spec => NoRewiring
<1>1. IndInv /\ [Next]_vars => [NotRewired]_vars
  BY NextEst
<1> QED
  BY <1>1, Invariance, PTL DEF Spec, NoRewiring, NotRewired
=============================================================================
