-------------------------- MODULE MCFixedOrderIndex --------------------------
(* The index with the capacity the constructor gives it. *)
EXTENDS FixedOrderIndex

(* table_capacity: bit_ceil(requested * 2). *)
TableCapacity(requested) ==
  Min({2 ^ k : k \in 0 .. 2 * requested} \ (0 .. 2 * requested - 1))

MCCapacity == TableCapacity(MaximumOrders)
==============================================================================
