--------------------------- MODULE FixedOrderIndex ---------------------------
(***************************************************************************)
(* FixedOrderIndex: the open-addressing table, with linear probing, behind *)
(* OrderBook's map from order identifiers to nodes.  A lookup stops at the *)
(* first empty slot, so erase closes the hole it makes by taking out and   *)
(* reinserting every entry of the cluster behind it, one per step here.    *)
(*                                                                         *)
(* The hash is a bijective mix of 64 bits, so identifiers with any given   *)
(* home slots exist: the home slots are chosen once, arbitrarily.          *)
(***************************************************************************)
EXTENDS Integers, FiniteSetsExt

CONSTANTS
  MaximumOrders,  \* requested_capacity: the most identifiers ever present
  Capacity,       \* entries_.size()
  OrderIds,
  Nodes,          \* the node numbers stored
  Null            \* nullptr, and an empty slot

ASSUME CapacityAssumption ==
  /\ MaximumOrders \in Nat \ {0}
  /\ Capacity \in Nat /\ Capacity >= 2 * MaximumOrders
  /\ Null \notin Nodes \cup Nat
  /\ Null \notin [id: OrderIds, node: Nodes]

VARIABLES
  entries,  \* the table: an identifier and its node, or Null, in every slot
  home,     \* hash(id) & mask_
  hole,     \* erase's `next` while it repairs a cluster, or Null
  live      \* what has been inserted and not erased: the map promised

vars == <<entries, home, hole, live>>

Slots == 0 .. Capacity - 1
Entry == [id: OrderIds, node: Nodes]

(* The slot the k-th probe for an identifier looks at. *)
ProbeSlot(id, k) == (home[id] + k) % Capacity

(* The probe at which a search stops: its identifier or an empty slot. *)
StopProbes(table, id) ==
  {k \in Slots : LET entry == table[ProbeSlot(id, k)] IN
                 IF entry = Null THEN TRUE ELSE entry.id = id}

NextSlot(slot) == (slot + 1) % Capacity

(* insert: false, leaving the table as it is, for a duplicate or a full table. *)
InsertInto(table, id, node) ==
  IF StopProbes(table, id) = {} THEN table
  ELSE LET slot == ProbeSlot(id, Min(StopProbes(table, id))) IN
       IF table[slot] # Null THEN table
       ELSE [table EXCEPT ![slot] = [id |-> id, node |-> node]]

FindSlot(table, id) ==
  IF StopProbes(table, id) = {} THEN Null
  ELSE LET slot == ProbeSlot(id, Min(StopProbes(table, id))) IN
       IF table[slot] = Null THEN Null ELSE slot

(* find: the node, or nullptr. *)
Find(table, id) ==
  LET slot == FindSlot(table, id) IN
  IF slot = Null THEN Null ELSE table[slot].node

Init ==
  /\ entries = [s \in Slots |-> Null]
  /\ home \in [OrderIds -> Slots]
  /\ hole = Null
  /\ live = [id \in OrderIds |-> Null]

-----------------------------------------------------------------------------
(* OrderBook holds a free node whenever it inserts. *)
Insert(id, node) ==
  /\ hole = Null
  /\ Cardinality({i \in OrderIds : live[i] # Null}) < MaximumOrders
  /\ entries' = InsertInto(entries, id, node)
  /\ live' = IF live[id] = Null THEN [live EXCEPT ![id] = node] ELSE live
  /\ UNCHANGED <<home, hole>>

(* Mutant: the hole is left open. *)
FaultyErase(id) ==
  /\ hole = Null
  /\ LET slot == FindSlot(entries, id) IN
     entries' = IF slot = Null THEN entries ELSE [entries EXCEPT ![slot] = Null]
  /\ live' = [live EXCEPT ![id] = Null]
  /\ UNCHANGED <<home, hole>>

Erase(id) ==
  /\ hole = Null
  /\ LET slot == FindSlot(entries, id) IN
     IF slot = Null THEN UNCHANGED <<entries, hole>>
     ELSE /\ entries' = [entries EXCEPT ![slot] = Null]
          /\ hole' = NextSlot(slot)
  /\ live' = [live EXCEPT ![id] = Null]
  /\ UNCHANGED home

(* Mutant: the displaced entry is not taken out before it is reinserted. *)
FaultyRepair ==
  /\ hole # Null
  /\ entries[hole] # Null
  /\ LET displaced == entries[hole] IN
     entries' = InsertInto(entries, displaced.id, displaced.node)
  /\ hole' = NextSlot(hole)
  /\ UNCHANGED <<home, live>>

(* Mutant: the loop does not move on. *)
StuckRepair ==
  /\ hole # Null
  /\ entries[hole] # Null
  /\ LET displaced == entries[hole] IN
     entries' = InsertInto([entries EXCEPT ![hole] = Null], displaced.id, displaced.node)
  /\ UNCHANGED <<home, hole, live>>

(* One iteration of the repair loop: the entry comes out and goes back in. *)
Repair ==
  /\ hole # Null
  /\ entries[hole] # Null
  /\ LET displaced == entries[hole] IN
     entries' = InsertInto([entries EXCEPT ![hole] = Null], displaced.id, displaced.node)
  /\ hole' = NextSlot(hole)
  /\ UNCHANGED <<home, live>>

RepairEnds ==
  /\ hole # Null
  /\ entries[hole] = Null
  /\ hole' = Null
  /\ UNCHANGED <<entries, home, live>>

Next ==
  \/ \E id \in OrderIds : (\E node \in Nodes : Insert(id, node)) \/ Erase(id)
  \/ Repair
  \/ RepairEnds

(* The loop in erase runs on; whether anyone calls the index is up to them. *)
Spec == Init /\ [][Next]_vars /\ WF_vars(Repair \/ RepairEnds)

-----------------------------------------------------------------------------
TypeOK ==
  /\ entries \in [Slots -> Entry \cup {Null}]
  /\ home \in [OrderIds -> Slots]
  /\ hole \in Slots \cup {Null}
  /\ live \in [OrderIds -> Nodes \cup {Null}]

(* Between calls the table is the map: find returns exactly what was last
   inserted and not erased, for every pattern of colliding home slots and every
   history of erasures, wrap-around included.  An entry that erase left behind
   an empty slot would be lost here and its order could never be cancelled. *)
FindExact == hole = Null => \A id \in OrderIds : Find(entries, id) = live[id]

(* No identifier is ever in two slots, not even half-way through a repair: a
   duplicate would come back to life when the other copy is erased.  Every
   variable keeps its type. *)
OneSlotEach ==
  /\ TypeOK
  /\ \A s, t \in Slots :
       entries[s] # Null /\ entries[t] # Null /\ s # t => entries[s].id # entries[t].id

(* The repair loop ends: it stops at an empty slot, and the load factor of one
   half leaves one.  It is the only unbounded loop on the matching path. *)
RepairTerminates == hole # Null ~> hole = Null
==============================================================================
