------------------------ MODULE FixedOrderIndexProofs ------------------------
(***************************************************************************)
(* The open-addressing table is the map it stands for, for every capacity, *)
(* every set of identifiers and every choice of their home slots.          *)
(***************************************************************************)
EXTENDS FixedOrderIndex, InductionLemmas

(* How far t lies behind s, around the table. *)
Gap(s, t) == IF t >= s THEN t - s ELSE t - s + Capacity

(* A search for the entry in slot s would stop at the empty slot e. *)
CutOff(table, s, e) ==
  /\ table[s] # Null /\ table[e] = Null
  /\ Gap(home[table[s].id], e) < Gap(home[table[s].id], s)

(* No slot from s to t is empty. *)
Unbroken(table, s, t) == \A u \in Slots : Gap(s, u) <= Gap(s, t) => table[u] # Null

(* Only entries that the repair has still to visit can be cut off: the ones of
   the cluster that begins at the hole. *)
Reachable ==
  \A s, e \in Slots :
    CutOff(entries, s, e) => hole # Null /\ Unbroken(entries, hole, s)

(* The table holds the map, whether or not a search would find it. *)
HoldsMap ==
  /\ \A s \in Slots : entries[s] # Null => live[entries[s].id] = entries[s].node
  /\ \A id \in OrderIds :
       live[id] # Null => \E s \in Slots : entries[s] # Null /\ entries[s].id = id

LiveIds == {id \in OrderIds : live[id] # Null}

WithinCapacity == IsFiniteSet(LiveIds) /\ Cardinality(LiveIds) <= MaximumOrders

IndInv == OneSlotEach /\ HoldsMap /\ WithinCapacity /\ Reachable

-----------------------------------------------------------------------------
(* Arithmetic around the table, without remainders. *)
LEMMA Remainder ==
  ASSUME NEW n \in Nat \ {0}, NEW x \in Int
  PROVE  /\ 0 <= x /\ x < n => x % n = x
         /\ n <= x /\ x < 2 * n => x % n = x - n
OBVIOUS

LEMMA SlotArithmetic ==
  ASSUME NEW a \in Slots, NEW k \in Slots
  PROVE  /\ Capacity \in Nat /\ Capacity >= 2
         /\ a \in Int /\ k \in Int /\ 0 <= a /\ a < Capacity /\ 0 <= k /\ k < Capacity
         /\ (a + k) % Capacity = IF a + k < Capacity THEN a + k ELSE a + k - Capacity
<1>1. /\ Capacity \in Nat \ {0} /\ Capacity >= 2
      /\ a \in Int /\ k \in Int /\ 0 <= a /\ a < Capacity /\ 0 <= k /\ k < Capacity
  BY CapacityAssumption DEF Slots
<1>2. PICK x \in Int : x = a + k
  BY <1>1
<1>3. 0 <= x /\ x < 2 * Capacity
  BY <1>1, <1>2
<1>4. (x < Capacity => x % Capacity = x) /\ (Capacity <= x => x % Capacity = x - Capacity)
  BY <1>1, <1>3, Remainder
<1> QED
  BY <1>1, <1>2, <1>4

LEMMA GapIsSlot ==
  ASSUME NEW a \in Slots, NEW b \in Slots
  PROVE  Gap(a, b) \in Slots
BY CapacityAssumption DEF Gap, Slots

LEMMA NextSlotIs ==
  ASSUME NEW s \in Slots
  PROVE  NextSlot(s) = (IF s + 1 < Capacity THEN s + 1 ELSE 0) /\ NextSlot(s) \in Slots
<1>1. 1 \in Slots
  BY CapacityAssumption DEF Slots
<1> QED
  BY <1>1, SlotArithmetic DEF NextSlot, Slots

(* The k-th probe looks k slots behind the home slot, and every slot is probed. *)
LEMMA ProbeIs ==
  ASSUME home \in [OrderIds -> Slots], NEW id \in OrderIds, NEW k \in Slots
  PROVE  /\ ProbeSlot(id, k) \in Slots
         /\ Gap(home[id], ProbeSlot(id, k)) = k
         /\ \A s \in Slots : Gap(home[id], s) = k => ProbeSlot(id, k) = s
<1>1. PICK a \in Slots : a = home[id]
  OBVIOUS
<1>2. ProbeSlot(id, k) = IF a + k < Capacity THEN a + k ELSE a + k - Capacity
  BY <1>1, SlotArithmetic DEF ProbeSlot
<1> QED
  BY <1>1, <1>2, CapacityAssumption DEF Gap, Slots

(* Where a search or an insertion stops. *)
Stop(table, id) == ProbeSlot(id, Min(StopProbes(table, id)))

(* With an empty slot in the table a search stops, at its identifier or at an
   empty slot, and has passed neither before. *)
LEMMA StopIs ==
  ASSUME home \in [OrderIds -> Slots], NEW table \in [Slots -> Entry \cup {Null}],
         NEW id \in OrderIds, NEW empty \in Slots, table[empty] = Null
  PROVE  /\ StopProbes(table, id) # {}
         /\ Stop(table, id) \in Slots
         /\ table[Stop(table, id)] # Null => table[Stop(table, id)].id = id
         /\ \A t \in Slots : Gap(home[id], t) < Gap(home[id], Stop(table, id))
                               => table[t] # Null /\ table[t].id # id
<1> DEFINE probes == StopProbes(table, id)
           Stops(s) == IF table[s] = Null THEN TRUE ELSE table[s].id = id
<1>1. home[id] \in Slots
  OBVIOUS
<1>2. \A k \in Slots : k \in probes <=> Stops(ProbeSlot(id, k))
  BY DEF StopProbes
<1>3. probes \in SUBSET Slots /\ probes \in SUBSET Nat
  BY CapacityAssumption DEF StopProbes, Slots
<1>4. ASSUME NEW t \in Slots, Stops(t) PROVE Gap(home[id], t) \in probes
  BY <1>1, <1>2, <1>4, GapIsSlot, ProbeIs
<1>5. probes # {}
  BY <1>4
<1>6. \E k \in probes : \A j \in probes : k <= j
  <2> HIDE DEF probes
  <2> QED
    BY <1>3, <1>5, LeastNatural
<1> DEFINE k == Min(probes)
<1>7. k \in probes /\ \A j \in probes : k <= j
  BY <1>6 DEF Min
<1>8. k \in Slots /\ ProbeSlot(id, k) \in Slots /\ Gap(home[id], ProbeSlot(id, k)) = k
  BY <1>3, <1>7, ProbeIs
<1>9. Stop(table, id) = ProbeSlot(id, k)
  BY DEF Stop
<1>10. Stops(Stop(table, id))
  BY <1>2, <1>7, <1>8, <1>9
<1>11. ASSUME NEW t \in Slots, Gap(home[id], t) < Gap(home[id], Stop(table, id))
       PROVE  ~Stops(t)
  <2>1. Gap(home[id], t) \in Slots /\ Gap(home[id], t) < k
    BY <1>1, <1>8, <1>9, <1>11, GapIsSlot
  <2>2. Gap(home[id], t) \notin probes
    BY <2>1, <1>3, <1>7, <1>8, CapacityAssumption DEF Slots
  <2> QED
    BY <1>4, <2>2
<1> QED
  BY <1>5, <1>8, <1>9, <1>10, <1>11

(* The slots from the one behind g up to s, when g lies on the way from a to s. *)
LEMMA BehindGap ==
  ASSUME NEW a \in Slots, NEW g \in Slots, NEW s \in Slots, NEW t \in Slots,
         Gap(NextSlot(g), t) <= Gap(NextSlot(g), s)
  PROVE  /\ Gap(a, g) < Gap(a, s) => Gap(a, g) < Gap(a, t) /\ Gap(a, t) <= Gap(a, s)
         /\ s # g => Gap(g, t) <= Gap(g, s) /\ t # g
<1>1. PICK n \in Slots : n = NextSlot(g) /\ n = IF g + 1 < Capacity THEN g + 1 ELSE 0
  BY NextSlotIs
<1> QED
  BY <1>1, CapacityAssumption DEF Gap, Slots

LEMMA GapOrder ==
  ASSUME NEW a \in Slots, NEW s \in Slots, NEW t \in Slots
  PROVE  /\ Gap(a, s) = Gap(a, t) => s = t
         /\ Gap(a, a) <= Gap(a, s)
         /\ Gap(a, s) <= Gap(a, t) /\ s # t => Gap(a, s) < Gap(a, t)
         /\ Gap(a, s) < Gap(a, t) \/ Gap(a, t) < Gap(a, s) \/ s = t
BY CapacityAssumption DEF Gap, Slots

(* Every entry has an identifier of its own, of which the map holds at most half
   as many as the table has slots: one slot is empty. *)
LEMMA EmptySlot ==
  ASSUME OneSlotEach, HoldsMap, WithinCapacity
  PROVE  \E e \in Slots : entries[e] = Null
<1> SUFFICES ASSUME \A e \in Slots : entries[e] # Null PROVE FALSE
  OBVIOUS
<1> DEFINE f == [s \in Slots |-> entries[s].id]
<1>1. \A s \in Slots : entries[s] \in Entry
  BY DEF OneSlotEach, TypeOK
<1>2. \A s \in Slots : entries[s].id \in OrderIds /\ entries[s].node \in Nodes
  BY <1>1 DEF Entry
<1>3. \A s \in Slots : entries[s].id \in LiveIds
  BY <1>2, CapacityAssumption DEF HoldsMap, LiveIds
<1>4. f \in Injection(Slots, LiveIds)
  BY <1>3 DEF OneSlotEach, Injection, IsInjective
<1>5. Cardinality(Slots) <= Cardinality(LiveIds)
  <2> HIDE DEF f
  <2> QED
    BY <1>4, FS_Injection DEF WithinCapacity
<1>6. Cardinality(Slots) = Capacity
  BY FS_Interval, CapacityAssumption DEF Slots
<1>7. Cardinality(LiveIds) \in Nat
  BY FS_CardinalityType DEF WithinCapacity
<1> QED
  BY <1>5, <1>6, <1>7, CapacityAssumption DEF WithinCapacity

(* Between two calls nothing is cut off, so a search finds what is there. *)
LEMMA SearchFinds ==
  ASSUME IndInv, hole = Null, NEW id \in OrderIds
  PROVE  /\ StopProbes(entries, id) # {}
         /\ Stop(entries, id) \in Slots
         /\ entries[Stop(entries, id)] # Null => entries[Stop(entries, id)].id = id
         /\ entries[Stop(entries, id)] = Null <=> live[id] = Null
<1>1. /\ entries \in [Slots -> Entry \cup {Null}] /\ home \in [OrderIds -> Slots]
      /\ live \in [OrderIds -> Nodes \cup {Null}]
  BY DEF IndInv, OneSlotEach, TypeOK
<1>2. PICK empty \in Slots : entries[empty] = Null
  BY EmptySlot DEF IndInv
<1> DEFINE stop == Stop(entries, id)
<1>3. /\ StopProbes(entries, id) # {}
      /\ stop \in Slots
      /\ entries[stop] # Null => entries[stop].id = id
      /\ \A t \in Slots : Gap(home[id], t) < Gap(home[id], stop)
                            => entries[t] # Null /\ entries[t].id # id
  BY <1>1, <1>2, StopIs
<1>4. ASSUME entries[stop] = Null, live[id] # Null PROVE FALSE
  <2>1. PICK s \in Slots : entries[s] # Null /\ entries[s].id = id
    BY <1>4 DEF IndInv, HoldsMap
  <2>2. Gap(home[id], stop) < Gap(home[id], s)
    <3>1. home[id] \in Slots
      BY <1>1
    <3> HIDE DEF stop
    <3> QED
      BY <1>3, <1>4, <2>1, <3>1, GapOrder
  <2>3. CutOff(entries, s, stop)
    BY <1>3, <1>4, <2>1, <2>2 DEF CutOff
  <2> QED
    BY <1>3, <2>3 DEF IndInv, Reachable
<1>5. ASSUME entries[stop] # Null PROVE live[id] # Null
  <2>1. entries[stop] \in Entry
    BY <1>1, <1>3, <1>5
  <2>2. entries[stop].node \in Nodes
    BY <2>1 DEF Entry
  <2> QED
    BY <1>3, <1>5, <2>2, CapacityAssumption DEF IndInv, HoldsMap
<1> QED
  BY <1>3, <1>4, <1>5

(* Between two calls find returns what the map holds. *)
LEMMA FindsExactly == IndInv => FindExact
<1> SUFFICES ASSUME IndInv, hole = Null, NEW id \in OrderIds
             PROVE  Find(entries, id) = live[id]
  BY DEF FindExact
<1> DEFINE stop == Stop(entries, id)
<1>1. /\ StopProbes(entries, id) # {}
      /\ stop \in Slots
      /\ entries[stop] # Null => entries[stop].id = id
      /\ entries[stop] = Null <=> live[id] = Null
  BY SearchFinds
<1>2. FindSlot(entries, id) = IF entries[stop] = Null THEN Null ELSE stop
  BY <1>1 DEF FindSlot, Stop
<1>3. stop # Null
  BY <1>1, CapacityAssumption DEF Slots
<1>4. entries[stop] # Null => live[id] = entries[stop].node
  BY <1>1 DEF IndInv, HoldsMap
<1> QED
  BY <1>1, <1>2, <1>3, <1>4 DEF Find

(* An identifier that is not in the table goes to the first empty slot behind
   its home. *)
LEMMA Insertion ==
  ASSUME home \in [OrderIds -> Slots], NEW table \in [Slots -> Entry \cup {Null}],
         NEW id \in OrderIds, NEW node \in Nodes,
         NEW empty \in Slots, table[empty] = Null,
         \A s \in Slots : table[s] # Null => table[s].id # id
  PROVE  \E p \in Slots :
           /\ table[p] = Null
           /\ InsertInto(table, id, node) = [table EXCEPT ![p] = [id |-> id, node |-> node]]
           /\ \A t \in Slots : Gap(home[id], t) < Gap(home[id], p) => table[t] # Null
           /\ Gap(home[id], p) <= Gap(home[id], empty)
<1> DEFINE p == Stop(table, id)
<1>1. /\ StopProbes(table, id) # {}
      /\ p \in Slots
      /\ table[p] # Null => table[p].id = id
      /\ \A t \in Slots : Gap(home[id], t) < Gap(home[id], p) => table[t] # Null
  BY StopIs
<1>2. table[p] = Null
  BY <1>1
<1>3. InsertInto(table, id, node) = [table EXCEPT ![p] = [id |-> id, node |-> node]]
  BY <1>1, <1>2 DEF InsertInto, Stop
<1>4. Gap(home[id], p) <= Gap(home[id], empty)
  <2>1. Gap(home[id], p) \in Slots /\ Gap(home[id], empty) \in Slots
    BY <1>1, GapIsSlot
  <2>2. ~(Gap(home[id], empty) < Gap(home[id], p))
    BY <1>1
  <2> QED
    BY <2>1, <2>2, CapacityAssumption DEF Slots
<1> QED
  BY <1>1, <1>2, <1>3, <1>4

LEMMA InitOK == Init => IndInv
<1> SUFFICES ASSUME Init PROVE IndInv
  OBVIOUS
<1>1. LiveIds = {}
  BY DEF Init, LiveIds
<1>2. WithinCapacity
  BY <1>1, FS_EmptySet, CapacityAssumption DEF WithinCapacity
<1> QED
  BY <1>2 DEF Init, IndInv, OneSlotEach, TypeOK, HoldsMap, Reachable, CutOff

LEMMA UnchangedPreserves ==
  ASSUME IndInv, UNCHANGED vars
  PROVE  IndInv'
<1>1. OneSlotEach' /\ HoldsMap' /\ Reachable'
  BY DEF vars, IndInv, OneSlotEach, TypeOK, HoldsMap, Reachable, CutOff, Unbroken
<1>2. LiveIds' = LiveIds
  BY DEF vars, LiveIds
<1>3. WithinCapacity'
  BY <1>2 DEF IndInv, WithinCapacity
<1> QED
  BY <1>1, <1>3 DEF IndInv

(* A duplicate leaves the table alone; a new identifier fills the slot a search
   for it stops at, which cuts nothing off. *)
LEMMA InsertPreserves ==
  ASSUME IndInv, NEW id \in OrderIds, NEW node \in Nodes, Insert(id, node)
  PROVE  IndInv'
<1>1. /\ entries \in [Slots -> Entry \cup {Null}] /\ home \in [OrderIds -> Slots]
      /\ live \in [OrderIds -> Nodes \cup {Null}]
      /\ hole = Null /\ hole' = hole /\ home' = home
      /\ entries' = InsertInto(entries, id, node)
      /\ live' = IF live[id] = Null THEN [live EXCEPT ![id] = node] ELSE live
      /\ Cardinality(LiveIds) < MaximumOrders /\ node # Null
  BY CapacityAssumption DEF Insert, IndInv, OneSlotEach, TypeOK, LiveIds
<1>2. CASE live[id] # Null
  <2>1. entries' = entries /\ live' = live
    BY <1>1, <1>2, SearchFinds DEF InsertInto, Stop
  <2> QED
    BY <1>1, <2>1, UnchangedPreserves DEF vars
<1>3. CASE live[id] = Null
  <2> DEFINE new == [id |-> id, node |-> node]
  <2>1. \A s \in Slots : entries[s] # Null => entries[s] \in Entry
    BY <1>1
  <2>2. \A s \in Slots : entries[s] # Null => entries[s].id \in OrderIds /\ entries[s].node \in Nodes
    BY <2>1 DEF Entry
  <2>3. \A s \in Slots : entries[s] # Null => entries[s].id # id
    BY <1>3, <2>2, CapacityAssumption DEF IndInv, HoldsMap
  <2>4. PICK p \in Slots :
          /\ entries[p] = Null
          /\ entries' = [entries EXCEPT ![p] = new]
          /\ \A t \in Slots : Gap(home[id], t) < Gap(home[id], p) => entries[t] # Null
    <3>1. PICK empty \in Slots : entries[empty] = Null
      BY EmptySlot DEF IndInv
    <3> QED
      BY <1>1, <2>3, <3>1, Insertion
  <2>5. new \in Entry /\ new # Null /\ new.id = id /\ new.node = node
    BY CapacityAssumption DEF Entry
  <2>6. /\ entries'[p] = new
        /\ \A s \in Slots \ {p} : entries'[s] = entries[s]
        /\ entries' \in [Slots -> Entry \cup {Null}]
    BY <1>1, <2>4, <2>5
  <2>7. live' \in [OrderIds -> Nodes \cup {Null}] /\ live' = [live EXCEPT ![id] = node]
    BY <1>1, <1>3
  <2>8. OneSlotEach'
    BY <1>1, <2>3, <2>5, <2>6, <2>7 DEF OneSlotEach, TypeOK, IndInv
  <2>9. HoldsMap'
    BY <1>1, <1>3, <2>2, <2>3, <2>4, <2>5, <2>6, <2>7 DEF HoldsMap, IndInv
  <2>10. WithinCapacity'
    <3>1. LiveIds' = LiveIds \cup {id} /\ id \notin LiveIds
      BY <1>1, <1>3, <2>7 DEF LiveIds
    <3>2. IsFiniteSet(LiveIds) /\ Cardinality(LiveIds) \in Nat
      BY FS_CardinalityType DEF IndInv, WithinCapacity
    <3>3. /\ IsFiniteSet(LiveIds \cup {id})
          /\ Cardinality(LiveIds \cup {id}) = Cardinality(LiveIds) + 1
      BY <3>1, <3>2, FS_AddElement
    <3>4. IsFiniteSet(LiveIds') /\ Cardinality(LiveIds') <= MaximumOrders
      BY <1>1, <3>1, <3>2, <3>3, CapacityAssumption
    <3> QED
      BY <3>4 DEF WithinCapacity
  <2>11. Reachable'
    <3> SUFFICES ASSUME NEW s \in Slots, NEW e \in Slots, CutOff(entries, s, e)' PROVE FALSE
      BY DEF Reachable
    <3>1. e # p /\ entries[e] = Null
      BY <2>5, <2>6 DEF CutOff
    <3>2. CASE s = p
      BY <1>1, <2>4, <2>5, <2>6, <3>1, <3>2 DEF CutOff
    <3>3. CASE s # p
      <4>1. CutOff(entries, s, e)
        BY <1>1, <2>6, <3>1, <3>3 DEF CutOff
      <4> QED
        BY <1>1, <4>1 DEF IndInv, Reachable
    <3> QED
      BY <3>2, <3>3
  <2> QED
    BY <2>8, <2>9, <2>10, <2>11 DEF IndInv
<1> QED
  BY <1>2, <1>3

(* Taking an entry out cuts off only entries of the cluster behind it. *)
LEMMA ErasePreserves ==
  ASSUME IndInv, NEW id \in OrderIds, Erase(id)
  PROVE  IndInv'
<1>1. /\ entries \in [Slots -> Entry \cup {Null}] /\ home \in [OrderIds -> Slots]
      /\ live \in [OrderIds -> Nodes \cup {Null}]
      /\ hole = Null /\ home' = home
      /\ live' = [live EXCEPT ![id] = Null]
      /\ live' \in [OrderIds -> Nodes \cup {Null}]
  BY DEF Erase, IndInv, OneSlotEach, TypeOK
<1> DEFINE g == Stop(entries, id)
<1>2. /\ StopProbes(entries, id) # {}
      /\ g \in Slots
      /\ entries[g] # Null => entries[g].id = id
      /\ entries[g] = Null <=> live[id] = Null
  BY <1>1, SearchFinds
<1>3. FindSlot(entries, id) = IF entries[g] = Null THEN Null ELSE g
  BY <1>2 DEF FindSlot, Stop
<1>4. g # Null
  BY <1>2, CapacityAssumption DEF Slots
<1> HIDE DEF g
<1>5. CASE entries[g] = Null
  <2>1. UNCHANGED vars
    BY <1>1, <1>2, <1>3, <1>5 DEF Erase, vars
  <2> QED
    BY <2>1, UnchangedPreserves
<1>6. CASE entries[g] # Null
  <2>1. entries' = [entries EXCEPT ![g] = Null] /\ hole' = NextSlot(g)
    BY <1>3, <1>4, <1>6 DEF Erase
  <2>2. /\ entries'[g] = Null
        /\ \A s \in Slots \ {g} : entries'[s] = entries[s]
        /\ entries' \in [Slots -> Entry \cup {Null}]
    BY <1>1, <1>2, <2>1
  <2>3. hole' \in Slots /\ hole' # Null
    BY <1>2, <2>1, NextSlotIs, CapacityAssumption DEF Slots
  <2>4. \A s \in Slots : entries[s] # Null => entries[s] \in Entry
    BY <1>1
  <2>5. \A s \in Slots : entries[s] # Null => entries[s].id \in OrderIds
    BY <2>4 DEF Entry
  <2>6. OneSlotEach'
    BY <1>1, <2>2, <2>3 DEF OneSlotEach, TypeOK, IndInv
  <2>7. HoldsMap'
    BY <1>1, <1>2, <1>6, <2>2, <2>5 DEF HoldsMap, IndInv, OneSlotEach
  <2>8. WithinCapacity'
    <3>1. LiveIds' = LiveIds \ {id}
      BY <1>1 DEF LiveIds
    <3>2. IsFiniteSet(LiveIds) /\ Cardinality(LiveIds) \in Nat /\ Cardinality(LiveIds) <= MaximumOrders
      BY FS_CardinalityType DEF IndInv, WithinCapacity
    <3>3. /\ IsFiniteSet(LiveIds \ {id})
          /\ \/ Cardinality(LiveIds \ {id}) = Cardinality(LiveIds) - 1
             \/ Cardinality(LiveIds \ {id}) = Cardinality(LiveIds)
      BY <3>2, FS_RemoveElement
    <3>4. IsFiniteSet(LiveIds') /\ Cardinality(LiveIds') <= MaximumOrders
      BY <3>1, <3>2, <3>3, CapacityAssumption
    <3> QED
      BY <3>4 DEF WithinCapacity
  <2>9. Reachable'
    <3> SUFFICES ASSUME NEW s \in Slots, NEW e \in Slots, CutOff(entries, s, e)'
                 PROVE  Unbroken(entries, hole, s)'
      BY <2>3 DEF Reachable
    <3>1. s # g /\ entries'[s] = entries[s] /\ entries[s] # Null
      BY <2>2 DEF CutOff
    <3>2. PICK a \in Slots : a = home[entries[s].id]
      BY <1>1, <2>5, <3>1
    <3>3. ASSUME NEW t \in Slots, t # s, Gap(a, t) < Gap(a, s) PROVE entries[t] # Null
      BY <1>1, <3>1, <3>2, <3>3 DEF IndInv, Reachable, CutOff
    <3>4. e = g /\ Gap(a, g) < Gap(a, s)
      BY <1>1, <2>2, <3>1, <3>2, <3>3 DEF CutOff
    <3>5. ASSUME NEW t \in Slots, Gap(hole', t) <= Gap(hole', s) PROVE entries'[t] # Null
      <4>1. Gap(a, t) <= Gap(a, s) /\ t # g
        BY <1>2, <2>1, <3>1, <3>4, <3>5, BehindGap
      <4>2. t = s \/ Gap(a, t) < Gap(a, s)
        BY <4>1, GapOrder
      <4> QED
        BY <2>2, <3>1, <3>3, <4>1, <4>2
    <3> QED
      BY <3>5 DEF Unbroken, Gap
  <2> QED
    BY <2>6, <2>7, <2>8, <2>9 DEF IndInv
<1> QED
  BY <1>5, <1>6

(* The entry in the hole goes back to the first empty slot of its path, which is
   not behind the hole; what it leaves behind can only be cut off by the hole. *)
LEMMA RepairPreserves ==
  ASSUME IndInv, Repair
  PROVE  IndInv'
<1>1. /\ entries \in [Slots -> Entry \cup {Null}] /\ home \in [OrderIds -> Slots]
      /\ live \in [OrderIds -> Nodes \cup {Null}]
      /\ hole # Null /\ hole \in Slots /\ entries[hole] # Null
      /\ hole' = NextSlot(hole) /\ home' = home /\ live' = live
  BY DEF Repair, IndInv, OneSlotEach, TypeOK
<1> DEFINE table == [entries EXCEPT ![hole] = Null]
           moved == entries[hole]
<1>2. \A s \in Slots : entries[s] # Null => entries[s] \in Entry
  BY <1>1
<1>3. \A s \in Slots : entries[s] # Null => entries[s].id \in OrderIds /\ entries[s].node \in Nodes
  BY <1>2 DEF Entry
<1>4. /\ moved.id \in OrderIds /\ moved.node \in Nodes
      /\ moved = [id |-> moved.id, node |-> moved.node]
  BY <1>1, <1>2 DEF Entry
<1>5. /\ table \in [Slots -> Entry \cup {Null}]
      /\ table[hole] = Null
      /\ \A s \in Slots \ {hole} : table[s] = entries[s]
  BY <1>1
<1>6. \A s \in Slots : table[s] # Null => table[s].id # moved.id
  BY <1>1, <1>5 DEF IndInv, OneSlotEach
<1>7. entries' = InsertInto(table, moved.id, moved.node)
  BY DEF Repair
<1>8. PICK p \in Slots :
        /\ table[p] = Null
        /\ entries' = [table EXCEPT ![p] = moved]
        /\ \A t \in Slots : Gap(home[moved.id], t) < Gap(home[moved.id], p) => table[t] # Null
  <2> HIDE DEF table
  <2>1. PICK p \in Slots :
          /\ table[p] = Null
          /\ InsertInto(table, moved.id, moved.node) =
               [table EXCEPT ![p] = [id |-> moved.id, node |-> moved.node]]
          /\ \A t \in Slots : Gap(home[moved.id], t) < Gap(home[moved.id], p) => table[t] # Null
    BY <1>1, <1>4, <1>5, <1>6, Insertion
  <2> QED
    BY <1>4, <1>7, <2>1
<1>9. /\ entries'[p] = moved
      /\ \A s \in Slots \ {p} : entries'[s] = table[s]
      /\ entries' \in [Slots -> Entry \cup {Null}]
  BY <1>1, <1>5, <1>8
<1>10. hole' \in Slots /\ hole' # Null
  BY <1>1, NextSlotIs, CapacityAssumption DEF Slots
<1> HIDE DEF table, moved
<1>11. OneSlotEach'
  <2>1. ASSUME NEW s \in Slots, NEW t \in Slots, s # t, entries'[s] # Null, entries'[t] # Null
        PROVE  entries'[s].id # entries'[t].id
    BY <1>5, <1>6, <1>9, <2>1 DEF OneSlotEach, IndInv, moved
  <2> QED
    BY <1>1, <1>9, <1>10, <2>1 DEF OneSlotEach, TypeOK
<1>12. HoldsMap'
  <2>1. ASSUME NEW s \in Slots, entries'[s] # Null
        PROVE  live[entries'[s].id] = entries'[s].node
    BY <1>1, <1>5, <1>9, <2>1 DEF HoldsMap, IndInv, moved
  <2>2. ASSUME NEW id \in OrderIds, live[id] # Null
        PROVE  \E s \in Slots : entries'[s] # Null /\ entries'[s].id = id
    <3>1. PICK s \in Slots : entries[s] # Null /\ entries[s].id = id
      BY <2>2 DEF HoldsMap, IndInv
    <3> QED
      BY <1>1, <1>5, <1>8, <1>9, <3>1 DEF moved
  <2> QED
    BY <1>1, <2>1, <2>2 DEF HoldsMap
<1>13. WithinCapacity'
  <2>1. LiveIds' = LiveIds
    BY <1>1 DEF LiveIds
  <2> QED
    BY <2>1 DEF IndInv, WithinCapacity
<1>14. Reachable'
  <2> SUFFICES ASSUME NEW s \in Slots, NEW e \in Slots, CutOff(entries, s, e)'
               PROVE  Unbroken(entries, hole, s)'
    BY <1>10 DEF Reachable
  <2>1. e # p /\ table[e] = Null
    BY <1>1, <1>9 DEF CutOff, moved
  <2>2. s # p
    <3> SUFFICES ASSUME s = p PROVE FALSE
      OBVIOUS
    <3> QED
      BY <1>1, <1>8, <1>9, <2>1 DEF CutOff
  <2>3. s # hole /\ entries'[s] = entries[s] /\ entries[s] # Null
    BY <1>5, <1>9, <2>2 DEF CutOff
  <2>4. PICK a \in Slots : a = home[entries[s].id]
    BY <1>1, <1>3, <2>3
  <2>5. Gap(a, e) < Gap(a, s)
    BY <1>1, <2>3, <2>4 DEF CutOff
  <2>6. ASSUME NEW t \in Slots, Gap(hole', t) <= Gap(hole', s) PROVE entries'[t] # Null
    <3>1. Gap(hole, t) <= Gap(hole, s) /\ t # hole
      BY <1>1, <2>3, <2>6, BehindGap
    <3> SUFFICES entries[t] # Null
      BY <1>1, <1>5, <1>9, <3>1 DEF moved
    <3>2. CASE entries[e] = Null
      BY <2>3, <2>4, <2>5, <3>1, <3>2 DEF IndInv, Reachable, CutOff, Unbroken
    <3>3. CASE entries[e] # Null
      <4>1. e = hole
        BY <1>5, <2>1, <3>3
      <4>2. Gap(a, t) <= Gap(a, s)
        BY <1>1, <2>5, <2>6, <4>1, BehindGap
      <4>3. t = s \/ Gap(a, t) < Gap(a, s)
        BY <4>2, GapOrder
      <4> QED
        BY <2>3, <2>4, <3>1, <4>3 DEF IndInv, Reachable, CutOff, Unbroken
    <3> QED
      BY <3>2, <3>3
  <2> QED
    BY <2>6 DEF Unbroken, Gap
<1> QED
  BY <1>11, <1>12, <1>13, <1>14 DEF IndInv

(* The repair ends at an empty slot: no cluster begins there, so nothing is cut
   off any more. *)
LEMMA RepairEndsPreserves ==
  ASSUME IndInv, RepairEnds
  PROVE  IndInv'
<1>1. /\ home \in [OrderIds -> Slots] /\ hole \in Slots /\ entries[hole] = Null
      /\ hole' = Null /\ entries' = entries /\ home' = home /\ live' = live
  BY DEF RepairEnds, IndInv, OneSlotEach, TypeOK
<1>2. OneSlotEach' /\ HoldsMap'
  BY <1>1 DEF IndInv, OneSlotEach, TypeOK, HoldsMap
<1>3. WithinCapacity'
  <2>1. LiveIds' = LiveIds
    BY <1>1 DEF LiveIds
  <2> QED
    BY <2>1 DEF IndInv, WithinCapacity
<1>4. Reachable'
  <2> SUFFICES ASSUME NEW s \in Slots, NEW e \in Slots, CutOff(entries, s, e)' PROVE FALSE
    BY DEF Reachable
  <2>1. CutOff(entries, s, e)
    BY <1>1 DEF CutOff
  <2>2. Unbroken(entries, hole, s)
    BY <2>1 DEF IndInv, Reachable
  <2> QED
    BY <1>1, <2>2, GapOrder DEF Unbroken
<1> QED
  BY <1>2, <1>3, <1>4 DEF IndInv

LEMMA NextPreserves == IndInv /\ [Next]_vars => IndInv'
BY InsertPreserves, ErasePreserves, RepairPreserves, RepairEndsPreserves, UnchangedPreserves DEF Next

-----------------------------------------------------------------------------
(* The inductive invariant holds in every reachable state of the table. *)
THEOREM Safety == Spec => []IndInv
BY InitOK, NextPreserves, PTL DEF Spec

(* Between two calls find returns exactly what was inserted last and not erased,
   for every capacity, set of identifiers and pattern of colliding home slots. *)
THEOREM FindAlwaysExact == Spec => []FindExact
BY FindsExactly, Safety, PTL

(* No identifier is ever in two slots, not even half-way through the repair that
   erase makes of a cluster, and entries stay where the table has slots. *)
THEOREM AlwaysOneSlot == Spec => []OneSlotEach
<1>1. IndInv => OneSlotEach
  BY DEF IndInv
<1> QED
  BY <1>1, Safety, PTL

(* The table is never full, in particular not when erase puts an entry back and
   ignores what insert returns. *)
THEOREM NeverFull == Spec => [](\E e \in Slots : entries[e] = Null)
<1>1. IndInv => \E e \in Slots : entries[e] = Null
  BY EmptySlot DEF IndInv
<1> QED
  BY <1>1, Safety, PTL
==============================================================================
