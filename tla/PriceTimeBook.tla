---------------------------- MODULE PriceTimeBook ----------------------------
(***************************************************************************)
(* What the matching engine promises: the resting orders are a set, and an *)
(* aggressor trades with the crossing order of best price, the oldest      *)
(* first among equals.  No arena, no ladders, no bitmaps, no index.  This  *)
(* is the book of tests/test_differential.cpp (ReferenceBook), with the    *)
(* capacity rule that book leaves out, taken from OrderBook::submit.       *)
(*                                                                         *)
(* A command is processed as one early-return step, or as an admission     *)
(* followed by one step per iteration of the matching loop and a closing   *)
(* step; no other command starts before its events have been taken.        *)
(***************************************************************************)
EXTENDS BookTypes, FiniteSetsExt

VARIABLES
  orders,        \* the resting orders
  lastSequence,  \* the last engine sequence accepted
  command,       \* the command being matched, or NoCommand
  remaining,     \* the quantity it has still to trade
  events         \* what process() has appended for this command

vars == <<orders, lastSequence, command, remaining, events>>

Init ==
  /\ orders = {}
  /\ lastSequence = 0
  /\ command = NoCommand
  /\ remaining = 0
  /\ events = <<>>

-----------------------------------------------------------------------------
Resting(book, id) == \E o \in book : o.order_id = id

CrossingOrders(book, side, limit) ==
  {o \in book : o.side = Opposite(side) /\ Crosses(side, limit, o.price)}

(* o comes before p in price-time priority, both resting opposite to side. *)
Precedes(side, o, p) ==
  \/ IF side = "Buy" THEN o.price < p.price ELSE o.price > p.price
  \/ o.price = p.price /\ o.priority <= p.priority

BestOpposite(book, side, limit) ==
  {o \in CrossingOrders(book, side, limit) :
     \A p \in CrossingOrders(book, side, limit) : Precedes(side, o, p)}

(* Mutant: the limit price is ignored. *)
FaultyCanFill(book, c) ==
  MapThenSumSet(LAMBDA o : o.quantity, {o \in book : o.side = Opposite(c.side)}) >= c.quantity

CanFill(book, c) ==
  MapThenSumSet(LAMBDA o : o.quantity,
                CrossingOrders(book, c.side, EffectiveLimit(c))) >= c.quantity

(* Mutant: off by one at the capacity. *)
FaultyNoRoom(book, c) ==
  Cardinality(book) > MaximumOrders /\ c.order_type = "Limit" /\ ~CanFill(book, c)

(* Every place is taken, and the order may need one. *)
NoRoom(book, c) ==
  Cardinality(book) = MaximumOrders /\ c.order_type = "Limit" /\ ~CanFill(book, c)

(* The early returns of submit, in order. *)
SubmitReason(book, c, replacement) ==
  IF c.quantity = 0 THEN "InvalidQuantity"
  ELSE IF c.order_type # "Market" /\ ~ValidPrice(c.price) THEN "InvalidPrice"
  ELSE IF ~replacement /\ Resting(book, c.order_id) THEN "DuplicateOrderId"
  ELSE IF c.order_type = "FillOrKill" /\ ~CanFill(book, c) THEN "WouldNotFill"
  ELSE IF NoRoom(book, c) THEN "BookCapacity"
  ELSE "None"

(* submit on a book whose command has already produced the events `before`. *)
Submit(book, c, before, replacement) ==
  LET reason == SubmitReason(book, c, replacement) IN
  /\ IF reason = "None"
     THEN /\ command' = c
          /\ remaining' = c.quantity
          /\ events' = IF replacement THEN before ELSE Append(before, Acceptance(c))
     ELSE /\ events' = Append(before, Rejection(c, reason))
          /\ UNCHANGED <<command, remaining>>
  /\ orders' = book

-----------------------------------------------------------------------------
(* process() is entered: the previous command is over and its events taken. *)
Ready == command = NoCommand /\ events = <<>>

Reject(c, reason) ==
  /\ events' = <<Rejection(c, reason)>>
  /\ UNCHANGED <<orders, command, remaining>>

(* Mutant: only a sequence that lies ahead is refused. *)
FaultyInSequence(c) ==
  /\ Ready
  /\ c.sequence <= lastSequence + 1
  /\ lastSequence' = c.sequence

InSequence(c) ==
  /\ Ready
  /\ c.sequence = lastSequence + 1
  /\ lastSequence' = c.sequence

SequenceGap(c) ==
  /\ Ready
  /\ c.sequence # lastSequence + 1
  /\ Reject(c, "SequenceGap")
  /\ UNCHANGED lastSequence

New(c) ==
  /\ c.type = "New"
  /\ InSequence(c)
  /\ Submit(orders, c, <<>>, FALSE)

Cancel(c) ==
  /\ c.type = "Cancel"
  /\ InSequence(c)
  /\ \/ /\ ~Resting(orders, c.order_id)
        /\ Reject(c, "UnknownOrderId")
     \/ \E o \in orders :
          /\ o.order_id = c.order_id
          /\ orders' = orders \ {o}
          /\ events' = <<Emit("Cancelled", c, NoOrder, o.price, o.quantity, "None")>>
          /\ UNCHANGED <<command, remaining>>

Replace(c) ==
  /\ c.type = "Replace"
  /\ InSequence(c)
  /\ \/ /\ ~Resting(orders, c.order_id)
        /\ Reject(c, "UnknownOrderId")
     \/ /\ Resting(orders, c.order_id)
        /\ ReplaceReason(c) # "None"
        /\ Reject(c, ReplaceReason(c))
     \/ /\ ReplaceReason(c) = "None"
        /\ \E o \in orders :
             LET r == Replacement(c, o.side) IN
             /\ o.order_id = c.order_id
             /\ Submit(orders \ {o}, r,
                       <<Emit("Replaced", r, NoOrder, r.price, r.quantity, "None")>>, TRUE)

(* One iteration of the matching loop. *)
Trade ==
  /\ command # NoCommand
  /\ remaining > 0
  /\ \E o \in BestOpposite(orders, command.side, EffectiveLimit(command)) :
       LET traded == Traded(remaining, o.quantity) IN
       /\ remaining' = remaining - traded
       /\ orders' = IF traded = o.quantity THEN orders \ {o}
                    ELSE (orders \ {o}) \cup {[o EXCEPT !.quantity = @ - traded]}
       /\ events' = Append(events, Emit("Trade", command, o.order_id, o.price, traded, "None"))
  /\ UNCHANGED <<lastSequence, command>>

LoopEnds ==
  /\ command # NoCommand
  /\ \/ remaining = 0
     \/ CrossingOrders(orders, command.side, EffectiveLimit(command)) = {}

(* Mutant: Rested reports the quantity the order came with. *)
FaultyRest ==
  /\ LoopEnds
  /\ remaining > 0
  /\ command.order_type = "Limit"
  /\ orders' = orders \cup
       {[order_id |-> command.order_id, side |-> command.side, price |-> command.price,
         quantity |-> remaining, priority |-> command.sequence]}
  /\ events' = Append(events, Emit("Rested", command, NoOrder, command.price, command.quantity, "None"))
  /\ command' = NoCommand
  /\ remaining' = 0
  /\ UNCHANGED lastSequence

(* After the loop: the remainder of a limit order rests, any other is dropped. *)
Rest ==
  /\ LoopEnds
  /\ remaining > 0
  /\ command.order_type = "Limit"
  /\ orders' = orders \cup
       {[order_id |-> command.order_id, side |-> command.side, price |-> command.price,
         quantity |-> remaining, priority |-> command.sequence]}
  /\ events' = Append(events, Emit("Rested", command, NoOrder, command.price, remaining, "None"))
  /\ command' = NoCommand
  /\ remaining' = 0
  /\ UNCHANGED lastSequence

DropRemainder ==
  /\ LoopEnds
  /\ remaining > 0
  /\ command.order_type # "Limit"
  /\ events' = Append(events, Emit("Cancelled", command, NoOrder, command.price, remaining, "None"))
  /\ command' = NoCommand
  /\ remaining' = 0
  /\ UNCHANGED <<orders, lastSequence>>

Filled ==
  /\ LoopEnds
  /\ remaining = 0
  /\ command' = NoCommand
  /\ UNCHANGED <<orders, lastSequence, remaining, events>>

(* The caller publishes the events and clears the vector. *)
TakeEvents ==
  /\ command = NoCommand
  /\ events # <<>>
  /\ events' = <<>>
  /\ UNCHANGED <<orders, lastSequence, command, remaining>>

Process(c) == SequenceGap(c) \/ New(c) \/ Cancel(c) \/ Replace(c)

Receive ==
  /\ Ready
  /\ lastSequence < MaxSequence
  /\ \E step \in SequenceSteps : \E c \in Commands(lastSequence + step) : Process(c)

Next == Receive \/ Trade \/ Rest \/ DropRemainder \/ Filled \/ TakeEvents

Spec == Init /\ [][Next]_vars

-----------------------------------------------------------------------------
TypeOK ==
  /\ orders \in SUBSET RestingOrder
  /\ IsFiniteSet(orders)
  /\ lastSequence \in Nat
  /\ command \in Command \cup {NoCommand}
  /\ remaining \in Nat
  /\ events \in Seq(Event)

(* What every resting order satisfies, and the capacity. *)
OrdersOK ==
  /\ \A o \in orders : ValidPrice(o.price) /\ o.quantity # 0
  /\ \A o, p \in orders : o.order_id = p.order_id => o = p
  /\ Cardinality(orders) <= MaximumOrders

(* What submit's early returns established of its command stays true while its
   fills change the book.  Above all, on a full book a limit order with a
   quantity left always has an order to trade against: can_fully_fill said so,
   and the first fill completes the order or frees a node. *)
CommandOK ==
  command # NoCommand =>
    /\ ~Resting(orders, command.order_id)
    /\ command.order_type # "Market" => ValidPrice(command.price)
    /\ (/\ command.order_type = "Limit"
        /\ remaining > 0
        /\ Cardinality(orders) = MaximumOrders)
         => CrossingOrders(orders, command.side, EffectiveLimit(command)) # {}

(* The book is never crossed: no resting buy is priced at or above a resting
   sell, not even between two fills of one command.  submit must therefore
   have exhausted every crossing order before it rests a remainder. *)
NotCrossed ==
  \A b, s \in orders : b.side = "Buy" /\ s.side = "Sell" => b.price < s.price

(* No order is lost to its own replacement: once the old order has been taken
   out and Replaced emitted, submit(replacement) cannot reject, not even on a
   full book, so replace never ends with neither order resting nor traded. *)
ReplacementAdmitted ==
  \A i, j \in DOMAIN events :
    events[i].type = "Replaced" /\ i < j => events[j].type # "Rejected"

(* add_resting takes a free node unchecked and throws if the index refuses the
   identifier, with the order already linked in.  Neither goes wrong: when a limit
   order's remainder is about to rest, the book has room and the identifier is
   not resting already. *)
RestIsSafe ==
  LoopEnds /\ remaining > 0 /\ command.order_type = "Limit" =>
    /\ Cardinality(orders) < MaximumOrders
    /\ ~Resting(orders, command.order_id)

(* Fill-or-kill is all or nothing: can_fully_fill decided on admission, so the
   loop never stops short of the whole quantity. *)
FillOrKillFills ==
  LoopEnds /\ command.order_type = "FillOrKill" => remaining = 0

(* The units reported by events of the given types, and the units resting. *)
Reported(es, types) ==
  MapThenSumSet(LAMBDA i : es[i].quantity, {i \in DOMAIN es : es[i].type \in types})

OpenQuantity(book) == MapThenSumSet(LAMBDA o : o.quantity, book)

(* No unit is lost or made on either side, up to and including the step that
   ends a command.  After every step of submit, what the aggressor has left and
   what its Trade, Rested and Cancelled events report add up to the quantity it
   came with; and the resting orders lose what the trades of that step report
   and gain what Rested reports. *)
QuantityConserved ==
  [][command # NoCommand =>
       /\ remaining' + Reported(events', {"Trade", "Rested", "Cancelled"}) = command.quantity
       /\ OpenQuantity(orders') + Reported(events', {"Trade"})
            = OpenQuantity(orders) + Reported(events, {"Trade"}) + Reported(events', {"Rested"})]_vars

(* What process() does is determined by the book and the command, as a replay of
   the journal needs: an identifier names one resting order, the sequence that
   becomes an order's priority is never used twice, and so whenever anything
   crosses there is exactly one order to trade with next. *)
Deterministic ==
  /\ \A o, p \in orders : o.order_id = p.order_id \/ o.priority = p.priority => o = p
  /\ LET crossing == CrossingOrders(orders, command.side, EffectiveLimit(command)) IN
     command # NoCommand /\ crossing # {} =>
       \E o \in crossing : BestOpposite(orders, command.side, EffectiveLimit(command)) = {o}
==============================================================================
