----------------------------- MODULE MCSpscQueue -----------------------------
(* The queue with the storage its constructor allocates. *)
EXTENDS SpscQueue, FiniteSetsExt

(* storage_capacity: bit_ceil(minimum + 1), so that at least `minimum` values
   fit although one slot stays vacant. *)
StorageCapacity(minimum) == Min({2 ^ k : k \in 0 .. minimum} \ (0 .. minimum))

MCSize == StorageCapacity(2)
==============================================================================
