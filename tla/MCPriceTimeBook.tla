-------------------------- MODULE MCPriceTimeBook --------------------------
(* A small instance of the abstract book: three ladder levels two ticks apart,
   a capacity of two orders, and inputs on, between and beyond the ticks. *)
EXTENDS PriceTimeBook, TLC

MCPrices == {2, 3, 4, 6}
MCQuantities == {0, 1, 2}

Symmetry == Permutations(OrderIds)
=============================================================================
