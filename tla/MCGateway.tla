------------------------------ MODULE MCGateway ------------------------------
(* The gateway with words of four bits: price 4 and quantity 4 are within their
   limits, and their product wraps to zero. *)
EXTENDS Gateway, TLC

Limit(price, quantity) ==
  [type |-> "New", order_type |-> "Limit", price |-> price, quantity |-> quantity]

GoodAndWrapping == {Limit(1, 1), Limit(4, 4)}
GoodOnly == {Limit(1, 1)}

Symmetry == Permutations(Fds) \cup Permutations(Sessions)
==============================================================================
