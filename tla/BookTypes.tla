------------------------------ MODULE BookTypes ------------------------------
(***************************************************************************)
(* Commands, events and price arithmetic shared by the order book          *)
(* (OrderBook) and by the abstract book it implements (PriceTimeBook).     *)
(* Quantities, prices and order identifiers are members of small sets when *)
(* the modules are model-checked and arbitrary when they are proved about. *)
(***************************************************************************)
EXTENDS Integers, Sequences, FiniteSets

CONSTANTS
  MinimumPrice,   \* BookConfig::minimum_price
  MaximumPrice,   \* BookConfig::maximum_price
  TickSize,       \* BookConfig::tick_size
  MaximumOrders,  \* BookConfig::maximum_orders, the resting capacity
  OrderIds,       \* the order identifiers clients use
  Prices,         \* the prices clients submit, valid or not
  Quantities,     \* the quantities clients submit, zero included
  SequenceSteps,  \* how far a command's sequence lies beyond last_sequence
  MaxSequence,    \* bound on engine sequences
  NoOrder,        \* the absent contra order of an event (0 in the code)
  NoCommand       \* no command is being matched

Sides == {"Buy", "Sell"}
OrderTypes == {"Limit", "Market", "ImmediateOrCancel", "FillOrKill"}
CommandTypes == {"New", "Cancel", "Replace"}
EventTypes == {"Accepted", "Rejected", "Trade", "Cancelled", "Replaced", "Rested"}
RejectReasons == {"None", "InvalidQuantity", "InvalidPrice", "DuplicateOrderId",
                  "UnknownOrderId", "BookCapacity", "WouldNotFill", "SequenceGap"}

Command == [sequence: Nat, type: CommandTypes, side: Sides, order_type: OrderTypes,
            order_id: OrderIds, price: Int, quantity: Nat]

Event == [sequence: Nat, type: EventTypes, aggressor_side: Sides, reason: RejectReasons,
          order_id: OrderIds, contra_order_id: OrderIds \cup {NoOrder},
          price: Int, quantity: Nat]

RestingOrder == [order_id: OrderIds, side: Sides, price: Int, quantity: Nat, priority: Nat]

(***************************************************************************)
(* The checks of checked_price_count, and what the inputs range over.      *)
(***************************************************************************)
ASSUME ConfigAssumption ==
  /\ MinimumPrice \in Int /\ MaximumPrice \in Int /\ MinimumPrice <= MaximumPrice
  /\ TickSize \in Nat \ {0}
  /\ (MaximumPrice - MinimumPrice) % TickSize = 0
  /\ MaximumOrders \in Nat \ {0}

ASSUME InputAssumption ==
  /\ Prices \subseteq Int
  /\ Quantities \subseteq Nat
  /\ SequenceSteps \subseteq Nat
  /\ MaxSequence \in Nat
  /\ NoOrder \notin OrderIds
  /\ NoCommand \notin Command

-----------------------------------------------------------------------------
Opposite(side) == IF side = "Buy" THEN "Sell" ELSE "Buy"

ValidPrice(price) ==
  /\ price >= MinimumPrice
  /\ price <= MaximumPrice
  /\ (price - MinimumPrice) % TickSize = 0

(* A market order sweeps to the ladder's boundary. *)
EffectiveLimit(c) ==
  IF c.order_type # "Market" THEN c.price
  ELSE IF c.side = "Buy" THEN MaximumPrice ELSE MinimumPrice

(* Mutant: an equal price does not trade. *)
FaultyCrosses(aggressor, limit, opposite) ==
  IF aggressor = "Buy" THEN opposite < limit ELSE opposite > limit

(* Does an aggressor with this limit trade against this opposite price? *)
Crosses(aggressor, limit, opposite) ==
  IF aggressor = "Buy" THEN opposite <= limit ELSE opposite >= limit

(* The commands a client may send with engine sequence s. Replace carries a
   side and an order type the book must ignore; Cancel carries an identifier. *)
Commands(s) ==
  [sequence: {s}, type: {"New"}, side: Sides, order_type: OrderTypes,
   order_id: OrderIds, price: Prices, quantity: Quantities]
  \cup
  [sequence: {s}, type: {"Replace"}, side: Sides, order_type: {"Limit", "FillOrKill"},
   order_id: OrderIds, price: Prices, quantity: Quantities]
  \cup
  [sequence: {s}, type: {"Cancel"}, side: Sides, order_type: {"Limit"},
   order_id: OrderIds, price: {0}, quantity: {0}]

(* OrderBook::emit: every event echoes its command's sequence, side and id. *)
Emit(type, c, contra, price, quantity, reason) ==
  [sequence |-> c.sequence, type |-> type, aggressor_side |-> c.side, reason |-> reason,
   order_id |-> c.order_id, contra_order_id |-> contra,
   price |-> price, quantity |-> quantity]

Rejection(c, reason) == Emit("Rejected", c, NoOrder, 0, 0, reason)
Acceptance(c) == Emit("Accepted", c, NoOrder, 0, 0, "None")

(* Mutant: the minimum is forgotten. *)
FaultyTraded(left, resting) == resting

(* The quantity of one fill. *)
Traded(left, resting) == IF left < resting THEN left ELSE resting

(* Mutant: the price of a replacement is left to submit to check. *)
FaultyReplaceReason(c) == IF c.quantity = 0 THEN "InvalidQuantity" ELSE "None"

(* What replace checks before it takes the old order out. *)
ReplaceReason(c) ==
  IF c.quantity = 0 THEN "InvalidQuantity"
  ELSE IF ~ValidPrice(c.price) THEN "InvalidPrice"
  ELSE "None"

(* The limit order a replace submits: its original side, and always a limit. *)
Replacement(c, originalSide) ==
  [c EXCEPT !.side = originalSide, !.order_type = "Limit"]
==============================================================================
