------------------------- MODULE PriceTimeBookProofs -------------------------
(***************************************************************************)
(* The safety of the abstract book, for every ladder, capacity, set of     *)
(* identifiers and set of inputs.  IndInv is the inductive invariant.      *)
(***************************************************************************)
EXTENDS PriceTimeBook, InductionLemmas

IndInv == TypeOK /\ OrdersOK /\ CommandOK /\ NotCrossed /\ ReplacementAdmitted

-----------------------------------------------------------------------------
(* A book with no crossing order cannot fill a positive quantity. *)
LEMMA NothingCrossesNothingFills ==
  ASSUME NEW book, NEW c \in Command, c.quantity # 0, CanFill(book, c)
  PROVE  CrossingOrders(book, c.side, EffectiveLimit(c)) # {}
<1> SUFFICES ASSUME CrossingOrders(book, c.side, EffectiveLimit(c)) = {} PROVE FALSE
  OBVIOUS
<1> DEFINE Sum(iter) == iter = [s \in SUBSET {} |->
                          IF s = {} THEN 0
                          ELSE LET x == CHOOSE x \in s : TRUE
                               IN  x.quantity + iter[s \ {x}]]
<1>1. Sum([s \in SUBSET {} |-> 0])
  OBVIOUS
<1>2. Sum(CHOOSE iter : Sum(iter))
  BY <1>1
<1>3. (CHOOSE iter : Sum(iter))[{}] = 0
  BY <1>2
<1>4. MapThenSumSet(LAMBDA o : o.quantity, {}) = 0
  BY <1>3 DEF MapThenSumSet, MapThenFoldSet
<1>5. 0 >= c.quantity
  BY <1>4 DEF CanFill
<1>6. c.quantity \in Nat
  BY DEF Command
<1> QED
  BY <1>5, <1>6

-----------------------------------------------------------------------------
(* The commands a client may send are commands. *)
LEMMA CommandsTyped ==
  ASSUME NEW s \in Nat, NEW c \in Commands(s)
  PROVE  c \in Command
<1> DEFINE Submits == [sequence: {s}, type: {"New"}, side: Sides, order_type: OrderTypes,
                       order_id: OrderIds, price: Prices, quantity: Quantities]
           Replaces == [sequence: {s}, type: {"Replace"}, side: Sides,
                        order_type: {"Limit", "FillOrKill"},
                        order_id: OrderIds, price: Prices, quantity: Quantities]
           Cancels == [sequence: {s}, type: {"Cancel"}, side: Sides, order_type: {"Limit"},
                       order_id: OrderIds, price: {0}, quantity: {0}]
<1>1. c \in Submits \cup Replaces \cup Cancels
  BY DEF Commands
<1>2. Submits \subseteq Command
  BY InputAssumption DEF Command, CommandTypes
<1>3. Replaces \subseteq Command
  BY InputAssumption DEF Command, CommandTypes, OrderTypes
<1>4. Cancels \subseteq Command
  BY DEF Command, CommandTypes, OrderTypes
<1> QED
  BY <1>1, <1>2, <1>3, <1>4

(* emit builds an event. *)
LEMMA EmitTyped ==
  ASSUME NEW type \in EventTypes, NEW c \in Command, NEW contra \in OrderIds \cup {NoOrder},
         NEW price \in Int, NEW quantity \in Nat, NEW reason \in RejectReasons
  PROVE  /\ Emit(type, c, contra, price, quantity, reason) \in Event
         /\ Emit(type, c, contra, price, quantity, reason).type = type
BY DEF Emit, Event, Command

LEMMA RejectionTyped ==
  ASSUME NEW c \in Command, NEW reason \in RejectReasons
  PROVE  Rejection(c, reason) \in Event /\ Rejection(c, reason).type = "Rejected"
BY EmitTyped DEF Rejection, EventTypes

LEMMA AcceptanceTyped ==
  ASSUME NEW c \in Command
  PROVE  Acceptance(c) \in Event /\ Acceptance(c).type = "Accepted"
BY EmitTyped DEF Acceptance, EventTypes, RejectReasons

(* The event that ends a command with a remainder. *)
LEMMA RemainderTyped ==
  ASSUME NEW type \in {"Rested", "Cancelled"}, NEW c \in Command, NEW quantity \in Nat,
         NEW e, e = Emit(type, c, NoOrder, c.price, quantity, "None")
  PROVE  e \in Event /\ e.type = type /\ e.quantity = quantity
<1>1. c.price \in Int
  BY DEF Command
<1>2. type \in EventTypes /\ "None" \in RejectReasons /\ NoOrder \in OrderIds \cup {NoOrder}
  BY DEF EventTypes, RejectReasons
<1>3. e \in Event /\ e.type = type
  BY <1>1, <1>2 DEF Emit, Event, Command
<1>4. e.quantity = quantity
  BY DEF Emit
<1> QED
  BY <1>3, <1>4

(* A single event, or one more that is not a rejection, keeps a replace from
   being seen rejected. *)
LEMMA OneEventAdmits ==
  ASSUME NEW e, events' = <<e>>
  PROVE  ReplacementAdmitted'
BY DEF ReplacementAdmitted

LEMMA AppendAdmits ==
  ASSUME TypeOK, ReplacementAdmitted, NEW e \in Event, e.type # "Rejected",
         events' = Append(events, e)
  PROVE  events' \in Seq(Event) /\ ReplacementAdmitted'
<1>1. events \in Seq(Event)
  BY DEF TypeOK
<1>2. events' \in Seq(Event)
  BY <1>1
<1>3. ASSUME NEW i \in DOMAIN events', NEW j \in DOMAIN events',
             events'[i].type = "Replaced", i < j
      PROVE  events'[j].type # "Rejected"
  <2>1. CASE j = Len(events) + 1
    BY <1>1, <2>1
  <2>2. CASE j # Len(events) + 1
    <3>1. i \in DOMAIN events /\ j \in DOMAIN events
      BY <1>1, <1>3, <2>2
    <3>2. events'[i] = events[i] /\ events'[j] = events[j]
      BY <1>1, <3>1
    <3> QED
      BY <1>3, <3>1, <3>2 DEF ReplacementAdmitted
  <2> QED
    BY <2>1, <2>2
<1> QED
  BY <1>2, <1>3 DEF ReplacementAdmitted

-----------------------------------------------------------------------------
(* A replacement has passed every check of submit when it is submitted: its
   own node is free again. *)
LEMMA ReplacementPasses ==
  ASSUME NEW book, NEW c \in Command, c.quantity # 0, ValidPrice(c.price),
         c.order_type = "Limit", Cardinality(book) # MaximumOrders
  PROVE  SubmitReason(book, c, TRUE) = "None"
BY DEF SubmitReason, NoRoom

LEMMA SubmitReasonTyped ==
  ASSUME NEW book, NEW c, NEW replacement
  PROVE  SubmitReason(book, c, replacement) \in RejectReasons
BY DEF SubmitReason, RejectReasons

(* What an admitted command satisfies. *)
LEMMA AdmittedOK ==
  ASSUME NEW book, NEW c \in Command, NEW replacement \in BOOLEAN,
         replacement => ~Resting(book, c.order_id),
         SubmitReason(book, c, replacement) = "None"
  PROVE  /\ c.quantity # 0
         /\ ~Resting(book, c.order_id)
         /\ c.order_type # "Market" => ValidPrice(c.price)
         /\ (c.order_type = "Limit" /\ Cardinality(book) = MaximumOrders)
              => CrossingOrders(book, c.side, EffectiveLimit(c)) # {}
BY NothingCrossesNothingFills DEF SubmitReason, NoRoom

(* Removing an order keeps every book invariant and frees a place. *)
LEMMA RemovalOK ==
  ASSUME TypeOK, OrdersOK, NotCrossed, NEW o \in orders
  PROVE  LET rest == orders \ {o} IN
         /\ rest \in SUBSET RestingOrder /\ IsFiniteSet(rest)
         /\ Cardinality(rest) \in Nat /\ Cardinality(rest) < MaximumOrders
         /\ ~Resting(rest, o.order_id)
<1>1. IsFiniteSet(orders) /\ Cardinality(orders) \in Nat
  BY FS_CardinalityType DEF TypeOK
<1>2. IsFiniteSet(orders \ {o}) /\ Cardinality(orders \ {o}) = Cardinality(orders) - 1
  BY <1>1, FS_RemoveElement
<1>3. Cardinality(orders \ {o}) \in Nat
  BY <1>2, FS_CardinalityType
<1>4. Cardinality(orders \ {o}) < MaximumOrders
  BY <1>1, <1>2, ConfigAssumption DEF OrdersOK
<1> QED
  BY <1>2, <1>3, <1>4 DEF TypeOK, OrdersOK, Resting

(* submit, on the book as it is or with one order taken out of it. *)
LEMMA SubmitPreserves ==
  ASSUME IndInv, command = NoCommand, NEW c \in Command, NEW replacement \in BOOLEAN,
         NEW book \in SUBSET orders, IsFiniteSet(book),
         Cardinality(book) <= MaximumOrders,
         replacement => ~Resting(book, c.order_id),
         lastSequence' \in Nat,
         NEW before \in Seq(Event),
         replacement => /\ SubmitReason(book, c, TRUE) = "None"
                        /\ \E e : before = <<e>>,
         ~replacement => before = <<>>,
         Submit(book, c, before, replacement)
  PROVE  IndInv'
<1> DEFINE reason == SubmitReason(book, c, replacement)
<1>1. orders' = book
  BY DEF Submit
<1>2. OrdersOK' /\ NotCrossed'
  BY <1>1 DEF IndInv, OrdersOK, NotCrossed
<1>3. CASE reason = "None"
  <2>1. command' = c /\ remaining' = c.quantity
    BY <1>3 DEF Submit
  <2>2. events' = IF replacement THEN before ELSE <<Acceptance(c)>>
    <3>1. events' = IF replacement THEN before ELSE Append(before, Acceptance(c))
      BY <1>3 DEF Submit
    <3>2. Append(<<>>, Acceptance(c)) = <<Acceptance(c)>>
      OBVIOUS
    <3> QED
      BY <3>1, <3>2
  <2>3. events' \in Seq(Event)
    BY <2>2, AcceptanceTyped
  <2>4. ReplacementAdmitted'
    BY <2>2, OneEventAdmits
  <2>5. TypeOK'
    BY <1>1, <2>1, <2>3 DEF TypeOK, IndInv, Command
  <2>6. CommandOK'
    BY <1>1, <1>3, <2>1, AdmittedOK DEF CommandOK
  <2> QED
    BY <1>2, <2>4, <2>5, <2>6 DEF IndInv
<1>4. CASE reason # "None"
  <2>1. ~replacement /\ events' = <<Rejection(c, reason)>> /\ UNCHANGED <<command, remaining>>
    <3>1. ~replacement
      <4>1. SUFFICES ASSUME replacement = TRUE PROVE FALSE
        OBVIOUS
      <4> QED
        BY <1>4, <4>1
    <3>2. events' = Append(before, Rejection(c, reason)) /\ UNCHANGED <<command, remaining>>
      BY <1>4 DEF Submit
    <3>3. Append(<<>>, Rejection(c, reason)) = <<Rejection(c, reason)>>
      OBVIOUS
    <3> QED
      BY <3>1, <3>2, <3>3
  <2>2. events' \in Seq(Event)
    BY <2>1, RejectionTyped, SubmitReasonTyped
  <2>3. TypeOK'
    BY <1>1, <2>1, <2>2 DEF TypeOK, IndInv
  <2>4. CommandOK'
    BY <2>1 DEF CommandOK
  <2> QED
    BY <1>2, <2>1, <2>3, <2>4, OneEventAdmits DEF IndInv
<1> QED
  BY <1>3, <1>4

(* An early return leaves the book alone. *)
LEMMA RejectPreserves ==
  ASSUME IndInv, command = NoCommand, NEW c \in Command, NEW reason \in RejectReasons,
         lastSequence' \in Nat, Reject(c, reason)
  PROVE  IndInv'
<1>1. events' = <<Rejection(c, reason)>> /\ UNCHANGED <<orders, command, remaining>>
  BY DEF Reject
<1>2. events' \in Seq(Event)
  BY <1>1, RejectionTyped
<1>3. ReplacementAdmitted'
  BY <1>1, OneEventAdmits
<1> QED
  BY <1>1, <1>2, <1>3 DEF IndInv, TypeOK, OrdersOK, CommandOK, NotCrossed

(* Every outcome of process() on arrival. *)
LEMMA ProcessPreserves ==
  ASSUME IndInv, NEW c \in Command, Process(c)
  PROVE  IndInv'
<1> USE DEF IndInv
<1>0. command = NoCommand /\ lastSequence' \in Nat
  BY DEF Process, SequenceGap, New, Cancel, Replace, InSequence, Ready, TypeOK, Command
<1>1. CASE SequenceGap(c)
  BY <1>0, <1>1, RejectPreserves DEF SequenceGap, RejectReasons
<1>2. CASE New(c)
  <2>1. Submit(orders, c, <<>>, FALSE)
    BY <1>2 DEF New
  <2>2. IsFiniteSet(orders) /\ Cardinality(orders) <= MaximumOrders
    BY DEF TypeOK, OrdersOK
  <2>3. <<>> \in Seq(Event) /\ orders \in SUBSET orders
    OBVIOUS
  <2> HIDE DEF IndInv
  <2> QED
    BY <1>0, <2>1, <2>2, <2>3, SubmitPreserves
<1>3. CASE Cancel(c)
  <2>1. CASE Reject(c, "UnknownOrderId")
    BY <1>0, <2>1, RejectPreserves DEF RejectReasons
  <2>2. CASE ~Reject(c, "UnknownOrderId")
    <3>1. PICK o \in orders :
            /\ o.order_id = c.order_id
            /\ orders' = orders \ {o}
            /\ events' = <<Emit("Cancelled", c, NoOrder, o.price, o.quantity, "None")>>
            /\ UNCHANGED <<command, remaining>>
      BY <1>3, <2>2 DEF Cancel
    <3>2. o.price \in Int /\ o.quantity \in Nat
      BY DEF TypeOK, RestingOrder
    <3>3. events' \in Seq(Event)
      BY <3>1, <3>2, EmitTyped DEF EventTypes, RejectReasons
    <3>4. /\ orders' \in SUBSET RestingOrder /\ IsFiniteSet(orders')
          /\ Cardinality(orders') \in Nat /\ Cardinality(orders') < MaximumOrders
      BY <3>1, RemovalOK
    <3>5. TypeOK'
      BY <1>0, <3>1, <3>3, <3>4 DEF TypeOK
    <3>6. OrdersOK' /\ NotCrossed'
      BY <3>1, <3>4, ConfigAssumption DEF OrdersOK, NotCrossed
    <3>7. ReplacementAdmitted'
      BY <3>1, OneEventAdmits
    <3>8. CommandOK'
      BY <1>0, <3>1 DEF CommandOK
    <3> QED
      BY <3>5, <3>6, <3>7, <3>8
  <2> QED
    BY <2>1, <2>2
<1>4. CASE Replace(c)
  <2>1. CASE \E reason \in RejectReasons : Reject(c, reason)
    BY <1>0, <2>1, RejectPreserves
  <2>2. CASE ~\E reason \in RejectReasons : Reject(c, reason)
    <3>1. PICK o \in orders :
            LET r == Replacement(c, o.side) IN
            /\ c.quantity # 0
            /\ ValidPrice(c.price)
            /\ o.order_id = c.order_id
            /\ Submit(orders \ {o}, r,
                      <<Emit("Replaced", r, NoOrder, r.price, r.quantity, "None")>>, TRUE)
      <4>1. ReplaceReason(c) \in RejectReasons
        BY DEF ReplaceReason, RejectReasons
      <4>2. ReplaceReason(c) = "None" => c.quantity # 0 /\ ValidPrice(c.price)
        BY DEF ReplaceReason
      <4> QED
        BY <1>4, <2>2, <4>1, <4>2 DEF Replace, RejectReasons
    <3> DEFINE r == Replacement(c, o.side)
               rest == orders \ {o}
               e == Emit("Replaced", r, NoOrder, r.price, r.quantity, "None")
    <3>2. o.side \in Sides
      BY DEF TypeOK, RestingOrder
    <3>3. /\ r \in Command /\ r.quantity # 0 /\ ValidPrice(r.price)
          /\ r.order_type = "Limit" /\ r.order_id = o.order_id
      BY <3>1, <3>2 DEF Replacement, Command, OrderTypes
    <3>4. /\ rest \in SUBSET orders /\ IsFiniteSet(rest) /\ Cardinality(rest) \in Nat
          /\ Cardinality(rest) < MaximumOrders /\ ~Resting(rest, r.order_id)
      BY <3>3, RemovalOK
    <3>5. SubmitReason(rest, r, TRUE) = "None"
      <4>1. Cardinality(rest) # MaximumOrders
        BY <3>4, ConfigAssumption
      <4> HIDE DEF r, rest
      <4> QED
        BY <3>3, <4>1, ReplacementPasses
    <3>6. e \in Event
      BY <3>3, EmitTyped, ZenonT(40) DEF Command, EventTypes, RejectReasons
    <3>7. <<e>> \in Seq(Event)
      BY <3>6
    <3>8. Submit(rest, r, <<e>>, TRUE)
      BY <3>1
    <3>9. Cardinality(rest) <= MaximumOrders
      BY <3>4, ConfigAssumption
    <3> HIDE DEF IndInv, r, rest, e
    <3> QED
      BY <1>0, <3>3, <3>4, <3>5, <3>7, <3>8, <3>9, SubmitPreserves
  <2> QED
    BY <2>1, <2>2
<1> QED
  BY <1>1, <1>2, <1>3, <1>4 DEF Process

-----------------------------------------------------------------------------
(* One iteration of the matching loop. *)
LEMMA TradePreserves ==
  ASSUME IndInv, Trade
  PROVE  IndInv'
<1> USE DEF IndInv
<1>0. command \in Command /\ command # NoCommand /\ remaining \in Nat /\ remaining > 0
  BY DEF Trade, TypeOK
<1>1. UNCHANGED <<lastSequence, command>>
  BY DEF Trade
<1>2. PICK o \in orders :
        LET traded == Traded(remaining, o.quantity) IN
        /\ remaining' = remaining - traded
        /\ orders' = IF traded = o.quantity THEN orders \ {o}
                     ELSE (orders \ {o}) \cup {[o EXCEPT !.quantity = @ - traded]}
        /\ events' = Append(events, Emit("Trade", command, o.order_id, o.price, traded, "None"))
  BY DEF Trade, BestOpposite, CrossingOrders
<1> DEFINE traded == Traded(remaining, o.quantity)
           filled == [o EXCEPT !.quantity = @ - traded]
           e == Emit("Trade", command, o.order_id, o.price, traded, "None")
<1>3. o \in RestingOrder /\ o.quantity \in Nat /\ o.price \in Int /\ o.order_id \in OrderIds
  BY DEF TypeOK, RestingOrder
<1>4. /\ traded \in Nat /\ remaining' \in Nat
      /\ traded # o.quantity => remaining' = 0 /\ o.quantity - traded \in Nat \ {0}
  BY <1>0, <1>2, <1>3 DEF Traded
<1>5. traded # o.quantity =>
        /\ filled \in RestingOrder
        /\ filled.order_id = o.order_id /\ filled.price = o.price
        /\ filled.side = o.side /\ filled.quantity = o.quantity - traded
  BY <1>3, <1>4 DEF RestingOrder
<1>6. e \in Event /\ e.type = "Trade"
  BY <1>0, <1>3, <1>4, EmitTyped DEF EventTypes, RejectReasons
<1>7. events' \in Seq(Event) /\ ReplacementAdmitted'
  <2>1. e.type # "Rejected" /\ events' = Append(events, e)
    BY <1>2, <1>6
  <2> HIDE DEF e
  <2> QED
    BY <1>6, <2>1, AppendAdmits
<1>8. /\ orders \ {o} \in SUBSET RestingOrder /\ IsFiniteSet(orders \ {o})
      /\ Cardinality(orders \ {o}) \in Nat /\ Cardinality(orders \ {o}) < MaximumOrders
      /\ ~Resting(orders \ {o}, o.order_id)
  BY RemovalOK
<1>9. CASE traded = o.quantity
  <2>1. orders' = orders \ {o}
    BY <1>2, <1>9
  <2>2. TypeOK'
    BY <1>1, <1>4, <1>7, <1>8, <2>1 DEF TypeOK
  <2>3. OrdersOK' /\ NotCrossed'
    BY <1>8, <2>1, ConfigAssumption DEF OrdersOK, NotCrossed
  <2>4. CommandOK'
    BY <1>1, <1>8, <2>1, ConfigAssumption DEF CommandOK, Resting
  <2> QED
    BY <1>7, <2>2, <2>3, <2>4
<1>10. CASE traded # o.quantity
  <2>1. orders' = (orders \ {o}) \cup {filled}
    BY <1>2, <1>10
  <2> HIDE DEF traded, filled, e
  <2>2. /\ filled \in RestingOrder /\ filled.order_id = o.order_id /\ filled.price = o.price
        /\ filled.side = o.side /\ filled.quantity # 0
    BY <1>4, <1>5, <1>10
  <2>3. IsFiniteSet(orders') /\ Cardinality(orders') <= MaximumOrders
    BY <1>8, <2>1, FS_AddElement, ConfigAssumption
  <2>4. TypeOK'
    BY <1>1, <1>4, <1>7, <1>8, <2>1, <2>2, <2>3 DEF TypeOK
  <2>5. \A p \in orders' : /\ p.order_id = o.order_id => p = filled
                           /\ p # filled => p \in orders
    BY <1>8, <2>1, <2>2 DEF Resting
  <2>6. OrdersOK'
    <3>1. \A p \in orders' : ValidPrice(p.price) /\ p.quantity # 0
      BY <2>2, <2>5 DEF OrdersOK
    <3>2. \A p, q \in orders' : p.order_id = q.order_id => p = q
      BY <2>2, <2>5 DEF OrdersOK
    <3> QED
      BY <2>3, <3>1, <3>2 DEF OrdersOK
  <2>7. NotCrossed'
    BY <2>2, <2>5 DEF NotCrossed
  <2>8. CommandOK'
    <3>1. ~Resting(orders', command.order_id)
      BY <1>0, <2>2, <2>5 DEF CommandOK, Resting
    <3> QED
      BY <1>0, <1>1, <1>4, <1>10, <3>1 DEF CommandOK
  <2> QED
    BY <1>7, <2>4, <2>6, <2>7, <2>8
<1> QED
  BY <1>9, <1>10

(* A limit order's remainder is about to rest: RestIsSafe. *)
LEMMA RoomToRest ==
  ASSUME IndInv
  PROVE  RestIsSafe
<1> SUFFICES ASSUME LoopEnds, remaining > 0, command.order_type = "Limit"
             PROVE  /\ Cardinality(orders) < MaximumOrders
                    /\ ~Resting(orders, command.order_id)
  BY DEF RestIsSafe
<1>1. command # NoCommand /\ remaining \in Nat /\ Cardinality(orders) \in Nat
  BY FS_CardinalityType DEF LoopEnds, IndInv, TypeOK
<1>2. CrossingOrders(orders, command.side, EffectiveLimit(command)) = {}
  BY DEF LoopEnds, IndInv, TypeOK
<1>3. Cardinality(orders) # MaximumOrders /\ ~Resting(orders, command.order_id)
  BY <1>1, <1>2 DEF IndInv, CommandOK
<1> QED
  BY <1>1, <1>3, ConfigAssumption DEF IndInv, OrdersOK

(* The remainder of a limit order rests. *)
LEMMA RestPreserves ==
  ASSUME IndInv, Rest
  PROVE  IndInv'
<1> USE DEF IndInv
<1> DEFINE o == [order_id |-> command.order_id, side |-> command.side, price |-> command.price,
                 quantity |-> remaining, priority |-> command.sequence]
           e == Emit("Rested", command, NoOrder, command.price, remaining, "None")
<1>0. /\ command # NoCommand /\ command \in Command /\ command.order_type = "Limit"
      /\ remaining \in Nat /\ remaining > 0
      /\ CrossingOrders(orders, command.side, EffectiveLimit(command)) = {}
  BY DEF Rest, LoopEnds, TypeOK
<1>1. /\ orders' = orders \cup {o} /\ events' = Append(events, e)
      /\ command' = NoCommand /\ remaining' = 0 /\ lastSequence' = lastSequence
  BY DEF Rest
<1>2. o \in RestingOrder
  BY <1>0 DEF RestingOrder, Command
<1>3. ValidPrice(command.price) /\ ~Resting(orders, command.order_id)
  BY <1>0 DEF CommandOK
<1>4. IsFiniteSet(orders) /\ Cardinality(orders) \in Nat /\ Cardinality(orders) < MaximumOrders
  BY RoomToRest, FS_CardinalityType DEF RestIsSafe, Rest, TypeOK
<1>5. IsFiniteSet(orders') /\ Cardinality(orders') <= MaximumOrders
  <2> HIDE DEF o
  <2>1. /\ IsFiniteSet(orders \cup {o})
        /\ \/ Cardinality(orders \cup {o}) = Cardinality(orders)
           \/ Cardinality(orders \cup {o}) = Cardinality(orders) + 1
    BY <1>4, FS_AddElement
  <2> QED
    BY <1>1, <1>4, <2>1, ConfigAssumption
<1>6. e \in Event /\ e.type = "Rested"
  BY <1>0, RemainderTyped
<1>7. events' \in Seq(Event) /\ ReplacementAdmitted'
  <2>1. e.type # "Rejected"
    BY <1>6
  <2> HIDE DEF e
  <2> QED
    BY <1>1, <1>6, <2>1, AppendAdmits
<1>8. TypeOK'
  BY <1>1, <1>2, <1>5, <1>7 DEF TypeOK
<1>9. OrdersOK'
  BY <1>0, <1>1, <1>3, <1>5 DEF OrdersOK, Resting
<1>10. NotCrossed'
  <2>1. EffectiveLimit(command) = command.price
    BY <1>0 DEF EffectiveLimit
  <2>2. \A p \in orders : p.price \in Int
    BY DEF TypeOK, RestingOrder
  <2>3. command.price \in Int /\ command.side \in Sides
    BY <1>0 DEF Command
  <2>4. \A p \in orders : /\ command.side = "Buy" /\ p.side = "Sell" => command.price < p.price
                          /\ command.side = "Sell" /\ p.side = "Buy" => p.price < command.price
    BY <1>0, <2>1, <2>2, <2>3 DEF CrossingOrders, Crosses, Opposite
  <2>5. o.side = command.side /\ o.price = command.price
    OBVIOUS
  <2> HIDE DEF o
  <2> QED
    BY <1>1, <2>4, <2>5 DEF NotCrossed
<1>11. CommandOK'
  BY <1>1 DEF CommandOK
<1> QED
  BY <1>7, <1>8, <1>9, <1>10, <1>11

(* The other ends of a command, and the caller taking the events. *)
LEMMA EndPreserves ==
  ASSUME IndInv, DropRemainder \/ Filled \/ TakeEvents
  PROVE  IndInv'
<1> USE DEF IndInv
<1>1. CASE DropRemainder
  <2> DEFINE e == Emit("Cancelled", command, NoOrder, command.price, remaining, "None")
  <2>1. command \in Command /\ remaining \in Nat
    BY <1>1 DEF DropRemainder, LoopEnds, TypeOK
  <2>2. e \in Event /\ e.type = "Cancelled"
    BY <2>1, RemainderTyped
  <2>3. /\ events' = Append(events, e) /\ command' = NoCommand /\ remaining' = 0
        /\ UNCHANGED <<orders, lastSequence>>
    BY <1>1 DEF DropRemainder
  <2>4. events' \in Seq(Event) /\ ReplacementAdmitted'
    <3>1. e.type # "Rejected"
      BY <2>2
    <3> HIDE DEF e
    <3> QED
      BY <2>2, <2>3, <3>1, AppendAdmits
  <2> QED
    BY <2>3, <2>4 DEF TypeOK, OrdersOK, CommandOK, NotCrossed
<1>2. CASE Filled
  BY <1>2 DEF Filled, TypeOK, OrdersOK, CommandOK, NotCrossed, ReplacementAdmitted
<1>3. CASE TakeEvents
  BY <1>3 DEF TakeEvents, TypeOK, OrdersOK, CommandOK, NotCrossed, ReplacementAdmitted
<1> QED
  BY <1>1, <1>2, <1>3

-----------------------------------------------------------------------------
(* The inductive invariant holds in every reachable state. *)
THEOREM Inductive == Spec => []IndInv
<1>1. Init => IndInv
  <2> SUFFICES ASSUME Init PROVE IndInv
    OBVIOUS
  <2>1. TypeOK
    BY FS_EmptySet DEF Init, TypeOK
  <2>2. OrdersOK
    BY FS_EmptySet, ConfigAssumption DEF Init, OrdersOK
  <2>3. CommandOK /\ NotCrossed /\ ReplacementAdmitted
    BY DEF Init, CommandOK, NotCrossed, ReplacementAdmitted
  <2> QED
    BY <2>1, <2>2, <2>3 DEF IndInv
<1>2. IndInv /\ [Next]_vars => IndInv'
  <2> SUFFICES ASSUME IndInv, [Next]_vars PROVE IndInv'
    OBVIOUS
  <2>1. CASE Receive
    <3>1. PICK step \in SequenceSteps : \E c \in Commands(lastSequence + step) : Process(c)
      BY <2>1 DEF Receive
    <3>2. lastSequence + step \in Nat
      BY InputAssumption DEF IndInv, TypeOK
    <3> QED
      BY <3>1, <3>2, CommandsTyped, ProcessPreserves
  <2>2. CASE Trade
    BY <2>2, TradePreserves
  <2>3. CASE Rest
    BY <2>3, RestPreserves
  <2>4. CASE DropRemainder \/ Filled \/ TakeEvents
    BY <2>4, EndPreserves
  <2>5. CASE UNCHANGED vars
    BY <2>5 DEF vars, IndInv, TypeOK, OrdersOK, CommandOK, NotCrossed, ReplacementAdmitted
  <2> QED
    BY <2>1, <2>2, <2>3, <2>4, <2>5 DEF Next
<1> QED
  BY <1>1, <1>2, PTL DEF Spec

(* The resting orders, the command in flight and the events of process() keep
   their types for any configuration and any inputs. *)
THEOREM TypeCorrect == Spec => []TypeOK
<1>1. IndInv => TypeOK
  BY DEF IndInv
<1> QED
  BY <1>1, Inductive, PTL

(* What submit's early returns established of its command holds until the
   command is done, however its fills change the book. *)
THEOREM CommandsStayAdmitted == Spec => []CommandOK
<1>1. IndInv => CommandOK
  BY DEF IndInv
<1> QED
  BY <1>1, Inductive, PTL

(* The book is never crossed: submit's loop exhausts the crossing orders before
   the remainder of a limit order rests. *)
THEOREM NeverCrossed == Spec => []NotCrossed
<1>1. IndInv => NotCrossed
  BY DEF IndInv
<1> QED
  BY <1>1, Inductive, PTL

(* Once replace() has taken the old order out, submit() does not reject the
   new one: an order is never lost to its own replacement. *)
THEOREM ReplacementNeverRejected == Spec => []ReplacementAdmitted
<1>1. IndInv => ReplacementAdmitted
  BY DEF IndInv
<1> QED
  BY <1>1, Inductive, PTL

(* add_resting finds room, and an unused identifier, whenever submit calls it:
   the capacity check on admission is enough although the book changes between
   the check and the use. *)
THEOREM RestAlwaysSafe == Spec => []RestIsSafe
BY RoomToRest, Inductive, PTL

-----------------------------------------------------------------------------
(* The quantity a set of orders holds, what the crossing orders of a book offer,
   and what the events of the given types report, as numbers of units. *)
Held(book) == Total([o \in book |-> o.quantity], book)

Offered(book, side, limit) == Held(CrossingOrders(book, side, limit))

EventsOf(es, types) == {i \in DOMAIN es : es[i].type \in types}

Counted(es, types) == Total([i \in DOMAIN es |-> es[i].quantity], EventsOf(es, types))

(* While a fill-or-kill order is being matched the crossing orders still offer
   what it has left: each fill takes as much from both. *)
Covered ==
  command # NoCommand /\ command.order_type = "FillOrKill" =>
    remaining <= Offered(orders, command.side, EffectiveLimit(command))

(* Until the loop ends, what a command has left and what its trades reported make
   up its quantity, and no other event of its carries a quantity of its own. *)
Conserved ==
  command # NoCommand =>
    /\ remaining + Counted(events, {"Trade"}) = command.quantity
    /\ EventsOf(events, {"Rested", "Cancelled"}) = {}

Balanced == Covered /\ Conserved

(* The sums of the model are numbers of units. *)
LEMMA OfferedIsSum ==
  ASSUME NEW S, IsFiniteSet(S), \A o \in S : o.quantity \in Nat
  PROVE  MapThenSumSet(LAMBDA o : o.quantity, S) = Total([o \in S |-> o.quantity], S)
<1> DEFINE v == [o \in S |-> o.quantity]
           Sum(iter) == iter = [s \in SUBSET S |->
                          IF s = {} THEN 0
                          ELSE LET x == CHOOSE x \in s : TRUE
                               IN  x.quantity + iter[s \ {x}]]
<1>1. \A x \in S : v[x] \in Nat
  OBVIOUS
<1>2. ASSUME NEW f PROVE Sum(f) <=> IsSum(f, v, S)
  <2>1. ASSUME NEW s \in SUBSET S
        PROVE  (IF s = {} THEN 0
                ELSE LET x == CHOOSE x \in s : TRUE IN x.quantity + f[s \ {x}])
               = (IF s = {} THEN 0
                  ELSE LET x == CHOOSE x \in s : TRUE IN v[x] + f[s \ {x}])
    OBVIOUS
  <2> HIDE DEF v
  <2>2. [s \in SUBSET S |->
           IF s = {} THEN 0
           ELSE LET x == CHOOSE x \in s : TRUE IN x.quantity + f[s \ {x}]]
        = [s \in SUBSET S |->
             IF s = {} THEN 0
             ELSE LET x == CHOOSE x \in s : TRUE IN v[x] + f[s \ {x}]]
    BY <2>1
  <2> QED
    BY <2>2 DEF IsSum
<1>3. \E f : IsSum(f, v, S)
  <2> HIDE DEF v
  <2> QED
    BY <1>1, SumIsTotal
<1>4. \E f : Sum(f)
  <2> HIDE DEF v, Sum
  <2> QED
    BY <1>2, <1>3
<1>5. Sum(CHOOSE iter : Sum(iter))
  BY <1>4
<1>6. (CHOOSE iter : Sum(iter))[S] = Total(v, S)
  <2> HIDE DEF v, Sum
  <2> QED
    BY <1>1, <1>2, <1>5, SumIsTotal
<1> QED
  BY <1>6 DEF MapThenSumSet, MapThenFoldSet

LEMMA ReportedIsSum ==
  ASSUME NEW es, NEW S, IsFiniteSet(S), \A i \in S : es[i].quantity \in Nat
  PROVE  MapThenSumSet(LAMBDA i : es[i].quantity, S) = Total([i \in S |-> es[i].quantity], S)
<1> DEFINE v == [i \in S |-> es[i].quantity]
           Sum(iter) == iter = [s \in SUBSET S |->
                          IF s = {} THEN 0
                          ELSE LET x == CHOOSE x \in s : TRUE
                               IN  es[x].quantity + iter[s \ {x}]]
<1>1. \A x \in S : v[x] \in Nat
  OBVIOUS
<1>2. ASSUME NEW f PROVE Sum(f) <=> IsSum(f, v, S)
  <2>1. ASSUME NEW s \in SUBSET S
        PROVE  (IF s = {} THEN 0
                ELSE LET x == CHOOSE x \in s : TRUE IN es[x].quantity + f[s \ {x}])
               = (IF s = {} THEN 0
                  ELSE LET x == CHOOSE x \in s : TRUE IN v[x] + f[s \ {x}])
    OBVIOUS
  <2> HIDE DEF v
  <2>2. [s \in SUBSET S |->
           IF s = {} THEN 0
           ELSE LET x == CHOOSE x \in s : TRUE IN es[x].quantity + f[s \ {x}]]
        = [s \in SUBSET S |->
             IF s = {} THEN 0
             ELSE LET x == CHOOSE x \in s : TRUE IN v[x] + f[s \ {x}]]
    BY <2>1
  <2> QED
    BY <2>2 DEF IsSum
<1>3. \E f : IsSum(f, v, S)
  <2> HIDE DEF v
  <2> QED
    BY <1>1, SumIsTotal
<1>4. \E f : Sum(f)
  <2> HIDE DEF v, Sum
  <2> QED
    BY <1>2, <1>3
<1>5. Sum(CHOOSE iter : Sum(iter))
  BY <1>4
<1>6. (CHOOSE iter : Sum(iter))[S] = Total(v, S)
  <2> HIDE DEF v, Sum
  <2> QED
    BY <1>1, <1>2, <1>5, SumIsTotal
<1> QED
  BY <1>6 DEF MapThenSumSet, MapThenFoldSet

(* What an aggressor crosses is a finite set of orders. *)
LEMMA CrossingFinite ==
  ASSUME NEW book \in SUBSET RestingOrder, IsFiniteSet(book), NEW side, NEW limit
  PROVE  LET X == CrossingOrders(book, side, limit) IN
         IsFiniteSet(X) /\ X \subseteq book /\ \A o \in X : o.quantity \in Nat
<1>1. CrossingOrders(book, side, limit) \in SUBSET book
  BY DEF CrossingOrders
<1>2. IsFiniteSet(CrossingOrders(book, side, limit))
  BY <1>1, FS_Subset
<1> QED
  BY <1>1, <1>2 DEF RestingOrder

(* can_fully_fill's answer, in units. *)
LEMMA CanFillOffers ==
  ASSUME NEW book \in SUBSET RestingOrder, IsFiniteSet(book), NEW c \in Command,
         CanFill(book, c)
  PROVE  c.quantity <= Offered(book, c.side, EffectiveLimit(c))
<1> DEFINE X == CrossingOrders(book, c.side, EffectiveLimit(c))
<1>1. IsFiniteSet(X) /\ \A o \in X : o.quantity \in Nat
  BY CrossingFinite
<1>2. MapThenSumSet(LAMBDA o : o.quantity, X) = Total([o \in X |-> o.quantity], X)
  <2> HIDE DEF X
  <2> QED
    BY <1>1, OfferedIsSum
<1>3. MapThenSumSet(LAMBDA o : o.quantity, X) >= c.quantity
  BY DEF CanFill
<1>4. Total([o \in X |-> o.quantity], X) >= c.quantity
  BY <1>2, <1>3
<1> QED
  BY <1>4 DEF Offered, Held

(* What the events of some types report is what the model sums. *)
LEMMA ReportedCounted ==
  ASSUME NEW es \in Seq(Event), NEW types
  PROVE  Reported(es, types) = Counted(es, types) /\ IsFiniteSet(EventsOf(es, types))
<1> DEFINE M == EventsOf(es, types)
           v == [i \in DOMAIN es |-> es[i].quantity]
           w == [i \in M |-> es[i].quantity]
<1>1. M \subseteq DOMAIN es /\ DOMAIN es = 1 .. Len(es) /\ Len(es) \in Nat
  BY DEF EventsOf
<1>2. \A i \in M : es[i].quantity \in Nat
  <2>1. \A i \in DOMAIN es : es[i] \in Event
    OBVIOUS
  <2> QED
    BY <1>1, <2>1 DEF Event
<1>3. IsFiniteSet(M)
  <2>1. IsFiniteSet(1 .. Len(es))
    BY <1>1, FS_Interval
  <2> HIDE DEF M
  <2> QED
    BY <1>1, <2>1, FS_Subset
<1>4. \A i \in M : w[i] = v[i]
  BY <1>1
<1>5. MapThenSumSet(LAMBDA i : es[i].quantity, M) = Total(w, M)
  <2> HIDE DEF M
  <2> QED
    BY <1>2, <1>3, ReportedIsSum
<1>6. Total(w, M) = Total(v, M)
  <2> HIDE DEF v, w, M
  <2> QED
    BY <1>4, TotalSame
<1> QED
  BY <1>3, <1>5, <1>6 DEF Reported, Counted, EventsOf

(* Events of none of the types report nothing. *)
LEMMA NothingCounted ==
  ASSUME NEW es, NEW types, EventsOf(es, types) = {}
  PROVE  Counted(es, types) = 0
BY TotalEmpty DEF Counted

(* One more event adds its quantity, or nothing, to what the events report. *)
LEMMA EventCounted ==
  ASSUME NEW es \in Seq(Event), NEW e \in Event, NEW types
  PROVE  /\ Counted(es, types) \in Nat
         /\ e.type \in types => Counted(Append(es, e), types) = e.quantity + Counted(es, types)
         /\ e.type \notin types => /\ Counted(Append(es, e), types) = Counted(es, types)
                                  /\ EventsOf(Append(es, e), types) = EventsOf(es, types)
<1> DEFINE n == Len(es) + 1
           fs == Append(es, e)
           v == [i \in DOMAIN es |-> es[i].quantity]
           w == [i \in DOMAIN fs |-> fs[i].quantity]
           M == EventsOf(es, types)
<1>1. /\ DOMAIN es = 1 .. Len(es) /\ DOMAIN fs = 1 .. n /\ Len(es) \in Nat
      /\ fs[n] = e /\ \A i \in DOMAIN es : fs[i] = es[i]
  OBVIOUS
<1>2. /\ EventsOf(fs, types) = IF e.type \in types THEN M \cup {n} ELSE M
      /\ n \notin M /\ M \subseteq DOMAIN es
  <2> HIDE DEF fs
  <2> QED
    BY <1>1 DEF EventsOf
<1>3. IsFiniteSet(M \cup {n})
  <2>1. M \cup {n} \subseteq 1 .. n
    BY <1>1 DEF EventsOf
  <2>2. IsFiniteSet(1 .. n)
    BY <1>1, FS_Interval
  <2> HIDE DEF M, n
  <2> QED
    BY <2>1, <2>2, FS_Subset
<1>4. /\ \A i \in M \cup {n} : w[i] \in Nat
      /\ \A i \in M : w[i] = v[i]
      /\ w[n] = e.quantity
  <2>1. \A i \in DOMAIN es : es[i] \in Event
    OBVIOUS
  <2>2. \A i \in DOMAIN es : es[i].quantity \in Nat
    BY <2>1 DEF Event
  <2>3. e.quantity \in Nat
    BY DEF Event
  <2> HIDE DEF fs, M
  <2> QED
    BY <1>1, <1>2, <2>2, <2>3
<1>5. Counted(es, types) = Total(v, M) /\ Counted(fs, types) = Total(w, EventsOf(fs, types))
  BY DEF Counted
<1> HIDE DEF M, n, v, w, fs
<1>6. (M \cup {n}) \ {n} = M
  BY <1>2
<1>7. Total(w, M \cup {n}) = w[n] + Total(w, M) /\ Total(w, M) \in Nat
  BY <1>3, <1>4, <1>6, TotalRemove
<1>8. Total(w, M) = Total(v, M)
  BY <1>4, TotalSame
<1> QED
  BY <1>2, <1>4, <1>5, <1>7, <1>8 DEF fs, M

(* A fill takes its quantity from any set of orders that the maker belongs to. *)
LEMMA FillTakes ==
  ASSUME NEW X \in SUBSET RestingOrder, IsFiniteSet(X),
         \A p, q \in X : p.order_id = q.order_id => p = q,
         NEW o \in X, NEW traded \in Nat, traded <= o.quantity,
         NEW q, q.order_id = o.order_id, q.quantity = o.quantity - traded,
         NEW Z, Z = IF traded = o.quantity THEN X \ {o} ELSE (X \ {o}) \cup {q}
  PROVE  /\ Held(X) \in Nat /\ Held(Z) \in Nat
         /\ Held(X) = Held(Z) + traded
<1> DEFINE Y == X \ {o}
           v == [p \in X |-> p.quantity]
           w == [p \in Z |-> p.quantity]
<1>1. \A p \in X : p.quantity \in Nat
  BY DEF RestingOrder
<1>2. o \in RestingOrder /\ o.quantity \in Nat
  BY <1>1
<1>3. Total(v, X) \in Nat /\ Total(v, Y) \in Nat /\ Total(v, X) = o.quantity + Total(v, Y)
  <2>1. \A p \in X : v[p] \in Nat
    BY <1>1
  <2>2. v[o] = o.quantity
    OBVIOUS
  <2> HIDE DEF v
  <2> QED
    BY <2>1, <2>2, TotalRemove
<1>4. Held(X) = Total(v, X) /\ Held(Z) = Total(w, Z)
  BY DEF Held
<1>5. CASE traded = o.quantity
  <2>1. Z = Y
    BY <1>5
  <2>2. Total(w, Z) = Total(v, Y)
    <3>1. \A p \in Y : w[p] = v[p]
      BY <2>1
    <3> HIDE DEF v, w, Y
    <3>2. Total(w, Y) = Total(v, Y)
      BY ONLY <3>1, TotalSame
    <3> QED
      BY <2>1, <3>2
  <2> HIDE DEF v, w, Y
  <2> QED
    BY <1>2, <1>3, <1>4, <1>5, <2>2
<1>6. CASE traded # o.quantity
  <2>1. Z = Y \cup {q}
    BY <1>6
  <2>2. q.quantity \in Nat
    BY <1>2
  <2>3. q \notin Y
    OBVIOUS
  <2>4. Z \ {q} = Y
    BY <2>1, <2>3
  <2>5. IsFiniteSet(Z)
    <3>1. IsFiniteSet(Y)
      BY FS_RemoveElement
    <3> HIDE DEF Y
    <3> QED
      BY <2>1, <3>1, FS_AddElement
  <2>6. \A p \in Z : p.quantity \in Nat
    BY <1>1, <2>1, <2>2
  <2>7. /\ \A p \in Z : w[p] \in Nat
        /\ w[q] = o.quantity - traded
        /\ \A p \in Y : w[p] = v[p]
        /\ q \in Z
    BY <2>1, <2>2, <2>6
  <2> HIDE DEF v, w, Y
  <2>8. Total(w, Z) = w[q] + Total(w, Y) /\ Total(w, Y) \in Nat /\ Total(w, Z) \in Nat
    <3>1. Total(w, Z) = w[q] + Total(w, Z \ {q}) /\ Total(w, Z \ {q}) \in Nat
          /\ Total(w, Z) \in Nat
      BY ONLY <2>5, <2>7, TotalRemove
    <3> QED
      BY <2>4, <3>1
  <2>9. Total(w, Y) = Total(v, Y)
    BY <2>7, TotalSame
  <2> QED
    BY <1>2, <1>3, <1>4, <2>7, <2>8, <2>9
<1> QED
  BY <1>5, <1>6

(* A fill takes the same quantity from the aggressor and from what crosses it. *)
LEMMA FillTakesFromOffered ==
  ASSUME NEW book \in SUBSET RestingOrder, IsFiniteSet(book),
         \A p, q \in book : p.order_id = q.order_id => p = q,
         NEW side, NEW limit, NEW o \in CrossingOrders(book, side, limit),
         NEW traded \in Nat, traded <= o.quantity,
         NEW after, after = IF traded = o.quantity THEN book \ {o}
                            ELSE (book \ {o}) \cup {[o EXCEPT !.quantity = @ - traded]}
  PROVE  /\ Offered(book, side, limit) \in Nat /\ Offered(after, side, limit) \in Nat
         /\ Offered(after, side, limit) = Offered(book, side, limit) - traded
<1> DEFINE X == CrossingOrders(book, side, limit)
           Z == CrossingOrders(after, side, limit)
<1>1. IsFiniteSet(X) /\ X \subseteq book
  BY CrossingFinite
<1>2. o \in RestingOrder
  BY <1>1
<1> DEFINE q == [o EXCEPT !.quantity = @ - traded]
<1>3. /\ q.side = o.side /\ q.price = o.price /\ q.order_id = o.order_id
      /\ q.quantity = o.quantity - traded
  BY <1>2 DEF RestingOrder
<1>4. after = IF traded = o.quantity THEN book \ {o} ELSE (book \ {o}) \cup {q}
  OBVIOUS
<1> HIDE DEF q
<1>5. Z = IF traded = o.quantity THEN X \ {o} ELSE (X \ {o}) \cup {q}
  <2>1. CASE traded = o.quantity
    BY <1>4, <2>1 DEF CrossingOrders
  <2>2. CASE traded # o.quantity
    <3>1. after = (book \ {o}) \cup {q}
      BY <1>4, <2>2
    <3> QED
      BY <1>3, <2>2, <3>1 DEF CrossingOrders
  <2> QED
    BY <2>1, <2>2
<1>6. X \in SUBSET RestingOrder /\ \A p, r \in X : p.order_id = r.order_id => p = r
  BY <1>1
<1>7. o \in X
  OBVIOUS
<1> HIDE DEF X, Z
<1>8. Held(X) \in Nat /\ Held(Z) \in Nat /\ Held(X) = Held(Z) + traded
  BY ONLY <1>1, <1>3, <1>6, <1>7, <1>5, traded \in Nat, traded <= o.quantity, FillTakes
<1>9. Held(Z) = Held(X) - traded
  BY <1>8
<1> QED
  BY <1>8, <1>9 DEF Offered, X, Z

(* The units resting, as the model sums them; a new order adds its own. *)
LEMMA OpenIsHeld ==
  ASSUME NEW book \in SUBSET RestingOrder, IsFiniteSet(book)
  PROVE  OpenQuantity(book) = Held(book)
<1>1. \A o \in book : o.quantity \in Nat
  BY DEF RestingOrder
<1> QED
  BY <1>1, OfferedIsSum DEF OpenQuantity, Held

LEMMA RestAdds ==
  ASSUME NEW book \in SUBSET RestingOrder, IsFiniteSet(book), NEW o \in RestingOrder, o \notin book
  PROVE  /\ Held(book) \in Nat
         /\ Held(book \cup {o}) = o.quantity + Held(book)
<1> DEFINE Z == book \cup {o}
           v == [p \in book |-> p.quantity]
           w == [p \in Z |-> p.quantity]
<1>1. IsFiniteSet(Z)
  BY FS_AddElement
<1>2. /\ \A p \in Z : w[p] \in Nat
      /\ w[o] = o.quantity /\ o \in Z
      /\ \A p \in book : w[p] = v[p]
  BY DEF RestingOrder
<1>3. Z \ {o} = book
  OBVIOUS
<1> HIDE DEF Z, v, w
<1>4. Total(w, Z) = w[o] + Total(w, book) /\ Total(w, book) \in Nat
  BY <1>1, <1>2, <1>3, TotalRemove
<1>5. Total(w, book) = Total(v, book)
  BY <1>2, TotalSame
<1> QED
  BY <1>2, <1>4, <1>5 DEF Held, Z, v, w

(* Admission: nothing has been traded, and a fill-or-kill order is covered. *)
LEMMA SubmitBalances ==
  ASSUME NEW book \in SUBSET RestingOrder, IsFiniteSet(book), command = NoCommand,
         NEW c \in Command, NEW replacement \in BOOLEAN,
         NEW before, ~replacement => before = <<>>,
         replacement => \E e : before = <<e>> /\ e.type = "Replaced",
         Submit(book, c, before, replacement)
  PROVE  Balanced'
<1> DEFINE reason == SubmitReason(book, c, replacement)
<1>1. orders' = book
  BY DEF Submit
<1>2. CASE reason = "None"
  <2>1. command' = c /\ remaining' = c.quantity
    BY <1>2 DEF Submit
  <2>2. c.quantity \in Nat
    BY DEF Command
  <2>3. PICK e : events' = <<e>> /\ e.type \in {"Accepted", "Replaced"}
    <3>1. events' = IF replacement THEN before ELSE Append(before, Acceptance(c))
      BY <1>2 DEF Submit
    <3>2. Append(<<>>, Acceptance(c)) = <<Acceptance(c)>>
      OBVIOUS
    <3>3. Acceptance(c).type = "Accepted"
      BY AcceptanceTyped
    <3> QED
      BY <3>1, <3>2, <3>3
  <2>4. EventsOf(events', {"Trade"}) = {} /\ EventsOf(events', {"Rested", "Cancelled"}) = {}
    BY <2>3 DEF EventsOf
  <2>5. Conserved'
    <3>1. Counted(events', {"Trade"}) = 0
      BY <2>4, NothingCounted
    <3>2. remaining' + Counted(events', {"Trade"}) = command'.quantity
      BY <2>1, <2>2, <3>1
    <3> QED
      BY <2>4, <3>2 DEF Conserved, Counted, EventsOf
  <2>6. Covered'
    <3> SUFFICES ASSUME c.order_type = "FillOrKill"
                 PROVE  remaining' <= Offered(orders', command'.side, EffectiveLimit(command'))
      BY <2>1 DEF Covered, Offered, Held, CrossingOrders, EffectiveLimit
    <3>1. CanFill(book, c)
      BY <1>2 DEF SubmitReason
    <3> QED
      BY <1>1, <2>1, <3>1, CanFillOffers
  <2> QED
    BY <2>5, <2>6 DEF Balanced
<1>3. CASE reason # "None"
  BY <1>3 DEF Submit, Balanced, Covered, Conserved
<1> QED
  BY <1>2, <1>3

LEMMA ProcessBalances ==
  ASSUME IndInv, NEW c \in Command, Process(c)
  PROVE  Balanced'
<1>0. command = NoCommand /\ orders \in SUBSET RestingOrder /\ IsFiniteSet(orders)
  BY DEF Process, SequenceGap, New, Cancel, Replace, InSequence, Ready, IndInv, TypeOK
<1>1. CASE command' = NoCommand
  BY <1>1 DEF Balanced, Covered, Conserved
<1>2. CASE New(c)
  BY <1>0, <1>2, SubmitBalances DEF New
<1>3. CASE command' # NoCommand /\ ~New(c)
  <2>1. Replace(c) /\ ~\E reason : Reject(c, reason)
    BY <1>0, <1>3 DEF Process, SequenceGap, Cancel, Reject
  <2>2. PICK o \in orders :
          LET r == Replacement(c, o.side) IN
          Submit(orders \ {o}, r,
                 <<Emit("Replaced", r, NoOrder, r.price, r.quantity, "None")>>, TRUE)
    BY <2>1 DEF Replace
  <2> DEFINE r == Replacement(c, o.side)
             e == Emit("Replaced", r, NoOrder, r.price, r.quantity, "None")
  <2>3. r \in Command
    <3>1. o.side \in Sides
      BY <1>0 DEF RestingOrder
    <3> QED
      BY <3>1 DEF Replacement, Command, OrderTypes
  <2>4. e.type = "Replaced"
    BY DEF Emit
  <2>5. orders \ {o} \in SUBSET RestingOrder /\ IsFiniteSet(orders \ {o})
    BY <1>0, FS_RemoveElement
  <2>6. Submit(orders \ {o}, r, <<e>>, TRUE)
    BY <2>2
  <2> HIDE DEF r, e
  <2> QED
    BY <1>0, <2>3, <2>4, <2>5, <2>6, SubmitBalances
<1> QED
  BY <1>1, <1>2, <1>3

(* One iteration of the matching loop: the maker, the quantity and the event. *)
LEMMA TradeStep ==
  ASSUME IndInv, Trade
  PROVE  \E o \in CrossingOrders(orders, command.side, EffectiveLimit(command)),
            traded \in Nat, e \in Event :
           /\ traded <= o.quantity /\ traded <= remaining
           /\ remaining' = remaining - traded
           /\ orders' = IF traded = o.quantity THEN orders \ {o}
                        ELSE (orders \ {o}) \cup {[o EXCEPT !.quantity = @ - traded]}
           /\ e.type = "Trade" /\ e.quantity = traded
           /\ events' = Append(events, e)
<1>0. command \in Command /\ remaining \in Nat /\ orders \in SUBSET RestingOrder
  BY DEF Trade, IndInv, TypeOK
<1> DEFINE X == CrossingOrders(orders, command.side, EffectiveLimit(command))
<1>1. PICK o \in X :
        LET traded == Traded(remaining, o.quantity) IN
        /\ remaining' = remaining - traded
        /\ orders' = IF traded = o.quantity THEN orders \ {o}
                     ELSE (orders \ {o}) \cup {[o EXCEPT !.quantity = @ - traded]}
        /\ events' = Append(events, Emit("Trade", command, o.order_id, o.price, traded, "None"))
  BY DEF Trade, BestOpposite
<1>2. o.quantity \in Nat /\ o.price \in Int /\ o.order_id \in OrderIds
  BY <1>0 DEF CrossingOrders, RestingOrder
<1>3. PICK traded : traded = Traded(remaining, o.quantity)
  OBVIOUS
<1>4. traded \in Nat /\ traded <= o.quantity /\ traded <= remaining
  BY <1>0, <1>2, <1>3 DEF Traded
<1>5. PICK e : e = Emit("Trade", command, o.order_id, o.price, traded, "None")
  OBVIOUS
<1>6. e \in Event /\ e.type = "Trade" /\ e.quantity = traded
  <2>1. e \in Event /\ e.type = "Trade"
    BY <1>0, <1>2, <1>4, <1>5, EmitTyped DEF EventTypes, RejectReasons
  <2> QED
    BY <1>5, <2>1 DEF Emit
<1>7. /\ remaining' = remaining - traded
      /\ orders' = IF traded = o.quantity THEN orders \ {o}
                   ELSE (orders \ {o}) \cup {[o EXCEPT !.quantity = @ - traded]}
      /\ events' = Append(events, e)
  BY <1>1, <1>3, <1>5
<1> QED
  BY <1>4, <1>6, <1>7

LEMMA TradeBalances ==
  ASSUME IndInv, Balanced, Trade
  PROVE  Balanced'
<1>0. /\ command \in Command /\ command # NoCommand /\ remaining \in Nat
      /\ events \in Seq(Event) /\ command' = command
      /\ orders \in SUBSET RestingOrder /\ IsFiniteSet(orders)
      /\ \A p, q \in orders : p.order_id = q.order_id => p = q
  BY DEF Trade, IndInv, TypeOK, OrdersOK
<1>1. PICK o \in CrossingOrders(orders, command.side, EffectiveLimit(command)),
           traded \in Nat, e \in Event :
        /\ traded <= o.quantity /\ traded <= remaining
        /\ remaining' = remaining - traded
        /\ orders' = IF traded = o.quantity THEN orders \ {o}
                     ELSE (orders \ {o}) \cup {[o EXCEPT !.quantity = @ - traded]}
        /\ e.type = "Trade" /\ e.quantity = traded
        /\ events' = Append(events, e)
  BY TradeStep
<1>2. Conserved'
  <2>1. /\ Counted(events', {"Trade"}) = traded + Counted(events, {"Trade"})
        /\ Counted(events, {"Trade"}) \in Nat
    BY <1>0, <1>1, EventCounted
  <2>2. EventsOf(events', {"Rested", "Cancelled"}) = EventsOf(events, {"Rested", "Cancelled"})
    <3>1. e.type \notin {"Rested", "Cancelled"}
      BY <1>1
    <3> QED
      BY <1>0, <1>1, <3>1, EventCounted
  <2>3. /\ remaining + Counted(events, {"Trade"}) = command.quantity
        /\ EventsOf(events, {"Rested", "Cancelled"}) = {}
    BY <1>0 DEF Balanced, Conserved
  <2>4. remaining' = remaining - traded
    BY <1>1
  <2>5. remaining' + Counted(events', {"Trade"}) = command'.quantity
    BY <1>0, <2>1, <2>3, <2>4
  <2> QED
    BY <2>2, <2>3, <2>5 DEF Conserved, Counted, EventsOf
<1>3. Covered'
  <2> DEFINE limit == EffectiveLimit(command)
  <2>1. /\ Offered(orders, command.side, limit) \in Nat
        /\ Offered(orders', command.side, limit) = Offered(orders, command.side, limit) - traded
    <3>1. PICK book, after, side, l :
            book = orders /\ after = orders' /\ side = command.side /\ l = limit
      OBVIOUS
    <3>2. /\ book \in SUBSET RestingOrder /\ IsFiniteSet(book)
          /\ \A p, q \in book : p.order_id = q.order_id => p = q
          /\ o \in CrossingOrders(book, side, l)
          /\ after = IF traded = o.quantity THEN book \ {o}
                     ELSE (book \ {o}) \cup {[o EXCEPT !.quantity = @ - traded]}
      BY <1>0, <1>1, <3>1
    <3>3. /\ Offered(book, side, l) \in Nat
          /\ Offered(after, side, l) = Offered(book, side, l) - traded
      BY <1>1, <3>2, FillTakesFromOffered
    <3> HIDE DEF limit
    <3> QED
      BY <3>1, <3>3
  <2> SUFFICES ASSUME command.order_type = "FillOrKill"
               PROVE  remaining' <= Offered(orders', command'.side, EffectiveLimit(command'))
    BY <1>0 DEF Covered, Offered, Held, CrossingOrders, EffectiveLimit
  <2>2. remaining <= Offered(orders, command.side, limit)
    BY <1>0 DEF Balanced, Covered
  <2>3. remaining' = remaining - traded
    BY <1>1
  <2>4. remaining' <= Offered(orders', command.side, limit)
    BY <1>0, <2>1, <2>2, <2>3
  <2> QED
    BY <1>0, <2>4
<1> QED
  BY <1>2, <1>3 DEF Balanced

(* In every reachable state a fill-or-kill order in flight is covered by the
   orders it crosses, and the command's quantity is what its trades reported
   plus what it has left. *)
THEOREM AlwaysBalanced == Spec => []Balanced
<1>1. Init => Balanced
  BY DEF Init, Balanced, Covered, Conserved
<1>2. IndInv /\ Balanced /\ [Next]_vars => Balanced'
  <2> SUFFICES ASSUME IndInv, Balanced, [Next]_vars PROVE Balanced'
    OBVIOUS
  <2>1. CASE Receive
    <3>1. PICK step \in SequenceSteps : \E c \in Commands(lastSequence + step) : Process(c)
      BY <2>1 DEF Receive
    <3>2. lastSequence + step \in Nat
      BY InputAssumption DEF IndInv, TypeOK
    <3> QED
      BY <3>1, <3>2, CommandsTyped, ProcessBalances
  <2>2. CASE Trade
    BY <2>2, TradeBalances
  <2>3. CASE Rest \/ DropRemainder \/ Filled \/ TakeEvents
    <3>1. command' = NoCommand
      BY <2>3 DEF Rest, DropRemainder, Filled, TakeEvents
    <3> QED
      BY <3>1 DEF Balanced, Covered, Conserved
  <2>4. CASE UNCHANGED vars
    BY <2>4 DEF vars, Balanced, Covered, Conserved, Offered, Held, Counted, EventsOf,
                CrossingOrders, EffectiveLimit
  <2> QED
    BY <2>1, <2>2, <2>3, <2>4 DEF Next
<1> QED
  BY <1>1, <1>2, Inductive, PTL DEF Spec

(* Fill-or-kill is all or nothing: what can_fully_fill decided on admission
   still holds after every fill, so the loop of submit never ends short. *)
THEOREM FillOrKillAlwaysFills == Spec => []FillOrKillFills
<1>1. IndInv /\ Balanced => FillOrKillFills
  <2> SUFFICES ASSUME IndInv, Balanced,
                      LoopEnds, command.order_type = "FillOrKill", remaining # 0
               PROVE  FALSE
    BY DEF FillOrKillFills
  <2>1. CrossingOrders(orders, command.side, EffectiveLimit(command)) = {}
    BY DEF LoopEnds
  <2>2. Offered(orders, command.side, EffectiveLimit(command)) = 0
    BY <2>1, TotalEmpty DEF Offered, Held
  <2>3. remaining <= 0 /\ remaining \in Nat
    BY <2>2 DEF Balanced, Covered, LoopEnds, IndInv, TypeOK
  <2> QED
    BY <2>3
<1> QED
  BY <1>1, Inductive, AlwaysBalanced, PTL

-----------------------------------------------------------------------------
(* The events that account for an aggressor's units, and what QuantityConserved
   asks of one step, in units. *)
Outcomes == {"Trade", "Rested", "Cancelled"}

StepConserves ==
  /\ remaining' + Counted(events', Outcomes) = command.quantity
  /\ Held(orders') + Counted(events', {"Trade"})
       = Held(orders) + Counted(events, {"Trade"}) + Counted(events', {"Rested"})

(* What the events of a command in flight report before a step. *)
LEMMA BeforeStep ==
  ASSUME IndInv, Balanced, command # NoCommand
  PROVE  /\ Counted(events, Outcomes) = Counted(events, {"Trade"})
         /\ Counted(events, {"Trade"}) \in Nat
         /\ Counted(events, {"Rested"}) = 0
         /\ remaining + Counted(events, {"Trade"}) = command.quantity
         /\ remaining \in Nat /\ command.quantity \in Nat
<1>1. EventsOf(events, {"Rested", "Cancelled"}) = {}
  BY DEF Balanced, Conserved
<1>2. EventsOf(events, Outcomes) = EventsOf(events, {"Trade"}) /\ EventsOf(events, {"Rested"}) = {}
  BY <1>1 DEF EventsOf, Outcomes
<1>3. Counted(events, Outcomes) = Counted(events, {"Trade"})
  BY <1>2 DEF Counted
<1>4. Counted(events, {"Rested"}) = 0
  BY <1>2, NothingCounted
<1>5. remaining \in Nat /\ command.quantity \in Nat /\ events \in Seq(Event)
  BY DEF IndInv, TypeOK, Command
<1>6. Counted(events, {"Trade"}) \in Nat
  <2>1. PICK e \in Event : TRUE
    <3>1. command \in Command
      BY DEF IndInv, TypeOK
    <3> QED
      BY <3>1, AcceptanceTyped
  <2> QED
    BY <1>5, <2>1, EventCounted
<1>7. remaining + Counted(events, {"Trade"}) = command.quantity
  BY DEF Balanced, Conserved
<1> QED
  BY <1>3, <1>4, <1>5, <1>6, <1>7

LEMMA TradeConserves ==
  ASSUME IndInv, Balanced, Trade
  PROVE  StepConserves
<1>0. /\ events \in Seq(Event) /\ orders \in SUBSET RestingOrder /\ IsFiniteSet(orders)
      /\ \A p, q \in orders : p.order_id = q.order_id => p = q
      /\ command # NoCommand
  BY DEF Trade, IndInv, TypeOK, OrdersOK
<1>1. PICK o \in CrossingOrders(orders, command.side, EffectiveLimit(command)),
           traded \in Nat, e \in Event :
        /\ traded <= o.quantity /\ traded <= remaining
        /\ remaining' = remaining - traded
        /\ orders' = IF traded = o.quantity THEN orders \ {o}
                     ELSE (orders \ {o}) \cup {[o EXCEPT !.quantity = @ - traded]}
        /\ e.type = "Trade" /\ e.quantity = traded
        /\ events' = Append(events, e)
  BY TradeStep
<1>2. /\ Counted(events', Outcomes) = traded + Counted(events, Outcomes)
      /\ Counted(events', {"Trade"}) = traded + Counted(events, {"Trade"})
  <2>1. e.type \in Outcomes /\ e.type \in {"Trade"}
    BY <1>1 DEF Outcomes
  <2> QED
    BY <1>0, <1>1, <2>1, EventCounted
<1>3. Counted(events', {"Rested"}) = Counted(events, {"Rested"})
  <2>1. e.type \notin {"Rested"}
    BY <1>1
  <2> QED
    BY <1>0, <1>1, <2>1, EventCounted
<1>4. Held(orders) \in Nat /\ Held(orders') \in Nat /\ Held(orders) = Held(orders') + traded
  <2>1. o \in orders /\ o \in RestingOrder
    BY <1>0 DEF CrossingOrders
  <2>2. PICK q : q = [o EXCEPT !.quantity = @ - traded]
    OBVIOUS
  <2>3. q.order_id = o.order_id /\ q.quantity = o.quantity - traded
    BY <2>1, <2>2 DEF RestingOrder
  <2>4. orders' = IF traded = o.quantity THEN orders \ {o} ELSE (orders \ {o}) \cup {q}
    BY <1>1, <2>2
  <2>5. PICK X, Z : X = orders /\ Z = orders'
    OBVIOUS
  <2>6. traded \in Nat /\ traded <= o.quantity
    BY <1>1
  <2>7. /\ X \in SUBSET RestingOrder /\ IsFiniteSet(X) /\ o \in X
        /\ \A p, r \in X : p.order_id = r.order_id => p = r
        /\ Z = IF traded = o.quantity THEN X \ {o} ELSE (X \ {o}) \cup {q}
    BY <1>0, <2>1, <2>4, <2>5
  <2>8. Held(X) \in Nat /\ Held(Z) \in Nat /\ Held(X) = Held(Z) + traded
    BY ONLY <2>3, <2>6, <2>7, FillTakes
  <2> QED
    BY <2>5, <2>8
<1>5. remaining' = remaining - traded /\ traded \in Nat
  BY <1>1
<1>6. /\ Counted(events, Outcomes) = Counted(events, {"Trade"})
      /\ Counted(events, {"Trade"}) \in Nat
      /\ Counted(events, {"Rested"}) = 0
      /\ remaining + Counted(events, {"Trade"}) = command.quantity
      /\ remaining \in Nat /\ command.quantity \in Nat
  BY <1>0, BeforeStep
<1>7. remaining' + Counted(events', Outcomes) = command.quantity
  BY <1>2, <1>5, <1>6
<1>8. Held(orders') + Counted(events', {"Trade"})
        = Held(orders) + Counted(events, {"Trade"}) + Counted(events', {"Rested"})
  BY <1>2, <1>3, <1>4, <1>5, <1>6
<1> QED
  BY <1>7, <1>8 DEF StepConserves

LEMMA RestConserves ==
  ASSUME IndInv, Balanced, Rest
  PROVE  StepConserves
<1>0. /\ events \in Seq(Event) /\ orders \in SUBSET RestingOrder /\ IsFiniteSet(orders)
      /\ command # NoCommand /\ command \in Command /\ remaining \in Nat
      /\ remaining' = 0 /\ command.price \in Int
  BY DEF Rest, LoopEnds, IndInv, TypeOK, Command
<1>1. PICK o, e :
        /\ o = [order_id |-> command.order_id, side |-> command.side, price |-> command.price,
                quantity |-> remaining, priority |-> command.sequence]
        /\ e = Emit("Rested", command, NoOrder, command.price, remaining, "None")
        /\ orders' = orders \cup {o} /\ events' = Append(events, e)
  BY DEF Rest
<1>2. o \in RestingOrder /\ o.quantity = remaining /\ o.order_id = command.order_id
  BY <1>0, <1>1 DEF RestingOrder, Command
<1>3. o \notin orders
  BY <1>2, RoomToRest DEF RestIsSafe, Rest, Resting
<1>4. e \in Event /\ e.type = "Rested" /\ e.quantity = remaining
  BY <1>0, <1>1, RemainderTyped
<1>5. /\ Counted(events', Outcomes) = remaining + Counted(events, Outcomes)
      /\ Counted(events', {"Rested"}) = remaining + Counted(events, {"Rested"})
  <2>1. e.type \in Outcomes /\ e.type \in {"Rested"}
    BY <1>4 DEF Outcomes
  <2> QED
    BY <1>0, <1>1, <1>4, <2>1, EventCounted
<1>6. Counted(events', {"Trade"}) = Counted(events, {"Trade"})
  <2>1. e.type \notin {"Trade"}
    BY <1>4
  <2> QED
    BY <1>0, <1>1, <1>4, <2>1, EventCounted
<1>7. Held(orders) \in Nat /\ Held(orders') = remaining + Held(orders)
  BY <1>0, <1>1, <1>2, <1>3, RestAdds
<1>8. /\ Counted(events, Outcomes) = Counted(events, {"Trade"})
      /\ Counted(events, {"Trade"}) \in Nat
      /\ Counted(events, {"Rested"}) = 0
      /\ remaining + Counted(events, {"Trade"}) = command.quantity
  BY <1>0, BeforeStep
<1>9. remaining' + Counted(events', Outcomes) = command.quantity
  BY <1>0, <1>5, <1>8
<1>10. Held(orders') + Counted(events', {"Trade"})
         = Held(orders) + Counted(events, {"Trade"}) + Counted(events', {"Rested"})
  BY <1>0, <1>5, <1>6, <1>7, <1>8
<1> QED
  BY <1>9, <1>10 DEF StepConserves

(* The other ends of a command: a remainder that is dropped, or none. *)
LEMMA EndConserves ==
  ASSUME IndInv, Balanced, DropRemainder \/ Filled
  PROVE  StepConserves
<1>0. /\ events \in Seq(Event) /\ orders \in SUBSET RestingOrder /\ IsFiniteSet(orders)
      /\ command # NoCommand /\ command \in Command /\ remaining \in Nat
      /\ command.price \in Int
  BY DEF DropRemainder, Filled, LoopEnds, IndInv, TypeOK, Command
<1>1. remaining' = 0 /\ orders' = orders
  BY DEF DropRemainder, Filled
<1>2. Held(orders) \in Nat
  <2> DEFINE v == [p \in orders |-> p.quantity]
  <2>1. \A p \in orders : v[p] \in Nat
    BY <1>0 DEF RestingOrder
  <2>2. CASE orders = {}
    BY <2>2, TotalEmpty DEF Held
  <2>3. CASE orders # {}
    <3>1. PICK o : o \in orders
      BY <2>3
    <3> HIDE DEF v
    <3>2. Total(v, orders) \in Nat
      BY <1>0, <2>1, <3>1, TotalRemove
    <3> QED
      BY <3>2 DEF Held, v
  <2> QED
    BY <2>2, <2>3
<1>3. /\ Counted(events, Outcomes) = Counted(events, {"Trade"})
      /\ Counted(events, {"Trade"}) \in Nat
      /\ Counted(events, {"Rested"}) = 0
      /\ remaining + Counted(events, {"Trade"}) = command.quantity
  BY <1>0, BeforeStep
<1>4. /\ Counted(events', Outcomes) = remaining + Counted(events, Outcomes)
      /\ Counted(events', {"Rested"}) = Counted(events, {"Rested"})
      /\ Counted(events', {"Trade"}) = Counted(events, {"Trade"})
  <2>1. CASE DropRemainder
    <3>1. PICK e : /\ e = Emit("Cancelled", command, NoOrder, command.price, remaining, "None")
                   /\ events' = Append(events, e)
      BY <2>1 DEF DropRemainder
    <3>2. e \in Event /\ e.type = "Cancelled" /\ e.quantity = remaining
      BY <1>0, <3>1, RemainderTyped
    <3>3. e.type \in Outcomes /\ e.type \notin {"Rested"} /\ e.type \notin {"Trade"}
      BY <3>2 DEF Outcomes
    <3> QED
      BY <1>0, <3>1, <3>2, <3>3, EventCounted
  <2>2. CASE Filled
    <3>1. events' = events /\ remaining = 0
      BY <2>2 DEF Filled
    <3> QED
      BY <1>3, <3>1 DEF Counted, EventsOf
  <2> QED
    BY <2>1, <2>2
<1>5. remaining' + Counted(events', Outcomes) = command.quantity
  BY <1>0, <1>1, <1>3, <1>4
<1>6. Held(orders') + Counted(events', {"Trade"})
        = Held(orders) + Counted(events, {"Trade"}) + Counted(events', {"Rested"})
  BY <1>1, <1>2, <1>3, <1>4
<1> QED
  BY <1>5, <1>6 DEF StepConserves

(* No unit of quantity is lost or made by a step of submit, for the aggressor
   (traded, rested, cancelled or left) or for the resting orders (traded against,
   joined by the remainder), and the events say so. *)
THEOREM QuantityAlwaysConserved == Spec => QuantityConserved
<1> DEFINE Conserves ==
      command # NoCommand =>
        /\ remaining' + Reported(events', {"Trade", "Rested", "Cancelled"}) = command.quantity
        /\ OpenQuantity(orders') + Reported(events', {"Trade"})
             = OpenQuantity(orders) + Reported(events, {"Trade"}) + Reported(events', {"Rested"})
<1>1. IndInv /\ IndInv' /\ Balanced /\ [Next]_vars => [Conserves]_vars
  <2> SUFFICES ASSUME IndInv, IndInv', Balanced, Next, command # NoCommand PROVE Conserves
    OBVIOUS
  <2>1. StepConserves
    BY TradeConserves, RestConserves, EndConserves DEF Next, Receive, Ready, TakeEvents
  <2>2. /\ events \in Seq(Event) /\ events' \in Seq(Event)
        /\ orders \in SUBSET RestingOrder /\ IsFiniteSet(orders)
        /\ orders' \in SUBSET RestingOrder /\ IsFiniteSet(orders')
    BY DEF IndInv, TypeOK
  <2>3. /\ Reported(events', Outcomes) = Counted(events', Outcomes)
        /\ Reported(events', {"Trade"}) = Counted(events', {"Trade"})
        /\ Reported(events', {"Rested"}) = Counted(events', {"Rested"})
        /\ Reported(events, {"Trade"}) = Counted(events, {"Trade"})
    BY <2>2, ReportedCounted
  <2>4. OpenQuantity(orders) = Held(orders) /\ OpenQuantity(orders') = Held(orders')
    BY <2>2, OpenIsHeld
  <2>5. /\ remaining' + Reported(events', Outcomes) = command.quantity
        /\ OpenQuantity(orders') + Reported(events', {"Trade"})
             = OpenQuantity(orders) + Reported(events, {"Trade"}) + Reported(events', {"Rested"})
    BY <2>1, <2>3, <2>4 DEF StepConserves
  <2> QED
    BY <2>5 DEF Outcomes
<1> QED
  BY <1>1, Inductive, AlwaysBalanced, PTL DEF Spec, QuantityConserved

-----------------------------------------------------------------------------
(* The sequences of the resting orders are those of distinct earlier commands. *)
Sequenced ==
  /\ \A o \in orders : o.priority <= lastSequence
  /\ \A o, p \in orders : o.priority = p.priority => o = p
  /\ command # NoCommand =>
       /\ command.sequence = lastSequence
       /\ \A o \in orders : o.priority < lastSequence

LEMMA ProcessSequences ==
  ASSUME IndInv, Sequenced, NEW c \in Command, Process(c)
  PROVE  Sequenced'
<1>1. /\ lastSequence \in Nat /\ command = NoCommand
      /\ \A o \in orders : o.priority \in Nat
  BY DEF IndInv, TypeOK, RestingOrder, Process, SequenceGap, New, Cancel, Replace, InSequence, Ready
<1>2. CASE SequenceGap(c)
  BY <1>2 DEF SequenceGap, Reject, Sequenced
<1>3. CASE New(c) \/ Cancel(c) \/ Replace(c)
  <2>1. lastSequence' = lastSequence + 1 /\ lastSequence' = c.sequence
    BY <1>3 DEF New, Cancel, Replace, InSequence
  <2>2. orders' \subseteq orders
    BY <1>3 DEF New, Cancel, Replace, Submit, Reject
  <2>3. command' # NoCommand => command'.sequence = c.sequence
    <3>1. \A side : Replacement(c, side).sequence = c.sequence
      BY DEF Replacement, Command
    <3>2. CASE New(c)
      BY <1>1, <3>2 DEF New, Submit
    <3>3. CASE Cancel(c)
      BY <1>1, <3>3 DEF Cancel, Reject
    <3>4. CASE Replace(c)
      BY <1>1, <3>1, <3>4 DEF Replace, Submit, Reject
    <3> QED
      BY <1>3, <3>2, <3>3, <3>4
  <2>4. \A o \in orders' : o.priority < lastSequence'
    BY <1>1, <2>1, <2>2 DEF Sequenced
  <2>5. \A o \in orders' : o.priority <= lastSequence'
    BY <1>1, <2>1, <2>2, <2>4
  <2> QED
    BY <2>1, <2>2, <2>3, <2>4, <2>5 DEF Sequenced
<1> QED
  BY <1>2, <1>3 DEF Process

LEMMA TradeSequences ==
  ASSUME IndInv, Sequenced, Trade
  PROVE  Sequenced'
<1>1. command # NoCommand /\ command' = command /\ lastSequence' = lastSequence
  BY DEF Trade
<1>2. PICK o \in CrossingOrders(orders, command.side, EffectiveLimit(command)), traded \in Nat :
        orders' = IF traded = o.quantity THEN orders \ {o}
                  ELSE (orders \ {o}) \cup {[o EXCEPT !.quantity = @ - traded]}
  BY TradeStep
<1>3. PICK q : q = [o EXCEPT !.quantity = @ - traded]
  OBVIOUS
<1>4. o \in orders /\ o \in RestingOrder
  BY DEF CrossingOrders, IndInv, TypeOK
<1>5. q.priority = o.priority
  BY <1>3, <1>4 DEF RestingOrder
<1>6. orders' \subseteq (orders \ {o}) \cup {q}
  BY <1>2, <1>3
<1>7. \A p \in orders' : p.priority < lastSequence /\ p.priority <= lastSequence
  BY <1>1, <1>4, <1>5, <1>6 DEF Sequenced
<1>8. \A p, r \in orders' : p.priority = r.priority => p = r
  BY <1>4, <1>5, <1>6 DEF Sequenced
<1> QED
  BY <1>1, <1>7, <1>8 DEF Sequenced

LEMMA RestSequences ==
  ASSUME IndInv, Sequenced, Rest
  PROVE  Sequenced'
<1>1. /\ command # NoCommand /\ command' = NoCommand /\ lastSequence' = lastSequence
      /\ lastSequence \in Nat
  BY DEF Rest, LoopEnds, IndInv, TypeOK
<1>2. PICK o : orders' = orders \cup {o} /\ o.priority = command.sequence
  <2> DEFINE new == [order_id |-> command.order_id, side |-> command.side, price |-> command.price,
                     quantity |-> remaining, priority |-> command.sequence]
  <2>1. orders' = orders \cup {new} /\ new.priority = command.sequence
    BY DEF Rest
  <2> QED
    BY <2>1
<1>3. command.sequence = lastSequence /\ \A p \in orders : p.priority < lastSequence
  BY <1>1 DEF Sequenced
<1>4. \A p \in orders' : p.priority <= lastSequence
  BY <1>1, <1>2, <1>3 DEF Sequenced
<1>5. \A p, q \in orders' : p.priority = q.priority => p = q
  BY <1>1, <1>2, <1>3 DEF Sequenced
<1> QED
  BY <1>1, <1>4, <1>5 DEF Sequenced

(* Among orders of distinct priorities one comes first. *)
LEMMA OneComesFirst ==
  ASSUME NEW X \in SUBSET RestingOrder, X # {}, NEW side \in Sides,
         \A o \in X : ValidPrice(o.price),
         \A o, p \in X : o.priority = p.priority => o = p
  PROVE  \E o \in X : {p \in X : \A q \in X : Precedes(side, p, q)} = {o}
<1> DEFINE Distance(o) == IF side = "Buy" THEN o.price - MinimumPrice ELSE MaximumPrice - o.price
           D == {Distance(o) : o \in X}
<1>1. \A o \in X : o.price \in Int /\ o.priority \in Nat /\ Distance(o) \in Nat
  BY ConfigAssumption DEF RestingOrder, ValidPrice
<1>2. PICK d \in D : \A k \in D : d <= k
  <2>1. D \in SUBSET Nat /\ D # {}
    BY <1>1
  <2> HIDE DEF D
  <2> QED
    BY <2>1, LeastNatural
<1> DEFINE Y == {o \in X : Distance(o) = d}
           P == {o.priority : o \in Y}
<1>3. PICK m \in P : \A k \in P : m <= k
  <2>1. P \in SUBSET Nat /\ P # {}
    BY <1>1
  <2> HIDE DEF P
  <2> QED
    BY <2>1, LeastNatural
<1>4. PICK o \in Y : o.priority = m
  OBVIOUS
<1>5. \A q \in X : /\ Distance(o) <= Distance(q)
                   /\ Distance(o) = Distance(q) => o.priority <= q.priority
  BY <1>2, <1>3, <1>4
<1>6. \A q \in X : /\ side = "Buy" => o.price <= q.price
                   /\ side = "Sell" => q.price <= o.price
                   /\ o.price = q.price => o.priority <= q.priority
  BY <1>1, <1>4, <1>5, ConfigAssumption DEF Sides
<1> HIDE DEF Y, P, D, Distance
<1>7. o \in X
  BY DEF Y
<1>8. \A q \in X : Precedes(side, o, q)
  BY <1>1, <1>6, <1>7 DEF Precedes, Sides
<1>9. ASSUME NEW p \in X, \A q \in X : Precedes(side, p, q)
      PROVE  p = o
  <2>1. Precedes(side, p, o)
    BY <1>7, <1>9
  <2>2. p.price = o.price /\ p.priority = o.priority
    BY <1>1, <1>6, <1>7, <2>1 DEF Precedes, Sides
  <2> QED
    BY <1>7, <2>2
<1> QED
  BY <1>7, <1>8, <1>9

(* What process() does is determined by the book and the command: identifiers
   and priorities name one order each, and price-time priority picks exactly one
   order whenever anything crosses. *)
THEOREM AlwaysDeterministic == Spec => []Deterministic
<1>1. Init => Sequenced
  BY DEF Init, Sequenced
<1>2. IndInv /\ Sequenced /\ [Next]_vars => Sequenced'
  <2> SUFFICES ASSUME IndInv, Sequenced, [Next]_vars PROVE Sequenced'
    OBVIOUS
  <2>1. CASE Receive
    <3>1. PICK step \in SequenceSteps : \E c \in Commands(lastSequence + step) : Process(c)
      BY <2>1 DEF Receive
    <3>2. lastSequence + step \in Nat
      BY InputAssumption DEF IndInv, TypeOK
    <3> QED
      BY <3>1, <3>2, CommandsTyped, ProcessSequences
  <2>2. CASE Trade
    BY <2>2, TradeSequences
  <2>3. CASE Rest
    BY <2>3, RestSequences
  <2>4. CASE DropRemainder \/ Filled \/ TakeEvents
    BY <2>4 DEF DropRemainder, Filled, TakeEvents, Sequenced
  <2>5. CASE UNCHANGED vars
    BY <2>5 DEF vars, Sequenced
  <2> QED
    BY <2>1, <2>2, <2>3, <2>4, <2>5 DEF Next
<1>3. IndInv /\ Sequenced => Deterministic
  <2> SUFFICES ASSUME IndInv, Sequenced PROVE Deterministic
    OBVIOUS
  <2>1. \A o, p \in orders : o.order_id = p.order_id \/ o.priority = p.priority => o = p
    BY DEF Sequenced, IndInv, OrdersOK
  <2> DEFINE X == CrossingOrders(orders, command.side, EffectiveLimit(command))
  <2>2. ASSUME command # NoCommand, X # {}
        PROVE  \E o \in X : BestOpposite(orders, command.side, EffectiveLimit(command)) = {o}
    <3>1. X \subseteq orders /\ orders \in SUBSET RestingOrder
      BY DEF CrossingOrders, IndInv, TypeOK
    <3>2. \A o \in X : ValidPrice(o.price)
      BY <3>1 DEF IndInv, OrdersOK
    <3>3. \A o, p \in X : o.priority = p.priority => o = p
      BY <2>1, <3>1
    <3>4. command.side \in Sides
      BY <2>2 DEF IndInv, TypeOK, Command
    <3> HIDE DEF X
    <3>5. \E o \in X : {p \in X : \A q \in X : Precedes(command.side, p, q)} = {o}
      BY <2>2, <3>1, <3>2, <3>3, <3>4, OneComesFirst
    <3> QED
      BY <3>5 DEF BestOpposite, X
  <2> QED
    BY <2>1, <2>2 DEF Deterministic
<1> QED
  BY <1>1, <1>2, <1>3, Inductive, PTL DEF Spec
==============================================================================
