----------------------------- MODULE MCOrderBook -----------------------------
(* Small instances of the order book.  Bitmap words of one or two bits make a
   side's levels span several words. *)
EXTENDS OrderBook, TLC

(* The three levels of a ladder from 2 to 6 in ticks of 2. *)
ThreeLevels == {2, 4, 6}

(* Both levels of a ladder from 2 to 4, and a price between the ticks. *)
TwoLevelsAndBetween == {2, 3, 4}

OneOrTwo == {1, 2}

(* Large against a Quantity of two bits: two such orders at a level wrap. *)
LargeQuantities == {3}

Symmetry == Permutations(OrderIds)
==============================================================================
