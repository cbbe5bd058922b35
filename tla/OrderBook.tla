------------------------------ MODULE OrderBook ------------------------------
(***************************************************************************)
(* OrderBook as it is built: a node arena with a free stack, two ladders   *)
(* of price levels whose orders form intrusive doubly linked FIFOs, one    *)
(* activity bitmap per side, and the index from order identifiers to nodes *)
(* (a map here; FixedOrderIndex is its open-addressing table).  The stats  *)
(* counters commands, trades and rejected, which nothing reads back, are   *)
(* left out.                                                               *)
(*                                                                         *)
(* The steps are those of PriceTimeBook, which this module implements.     *)
(***************************************************************************)
EXTENDS BookTypes, FiniteSetsExt

CONSTANTS
  WordBits,  \* bits per bitmap word, 64 in the code
  QMod       \* Quantity is unsigned and wraps modulo QMod, 2^64 in the code

ASSUME WidthAssumption ==
  /\ WordBits \in Nat \ {0}
  /\ QMod \in Nat \ {0} /\ Quantities \subseteq 0 .. QMod - 1

VARIABLES
  book,          \* the containers of class OrderBook, as one record
  lastSequence,  \* stats_.last_sequence
  command,       \* submit's argument while its loop runs, or NoCommand
  remaining,     \* submit's local
  events         \* the caller's event vector

vars == <<book, lastSequence, command, remaining, events>>

InvalidNode == -1
NoPrice == -1

Nodes == 0 .. MaximumOrders - 1
PriceCount == (MaximumPrice - MinimumPrice) \div TickSize + 1
Levels == 0 .. PriceCount - 1
Words == 0 .. (PriceCount + WordBits - 1) \div WordBits - 1

OrderNode == [id: OrderIds \cup {NoOrder}, price: Int, remaining: Nat, priority: Nat,
              previous: Nodes \cup {InvalidNode}, next: Nodes \cup {InvalidNode}, side: Sides]
PriceLevel == [total_quantity: 0 .. QMod - 1, head: Nodes \cup {InvalidNode},
               tail: Nodes \cup {InvalidNode}, count: Nat]

FreshNode == [id |-> NoOrder, price |-> 0, remaining |-> 0, priority |-> 0,
              previous |-> InvalidNode, next |-> InvalidNode, side |-> "Buy"]
FreshLevel == [total_quantity |-> 0, head |-> InvalidNode, tail |-> InvalidNode, count |-> 0]

(* The constructor. The free stack is filled so that node 0 comes off first. *)
EmptyBook ==
  [nodes |-> [n \in Nodes |-> FreshNode],
   free |-> [i \in 1 .. MaximumOrders |-> MaximumOrders - i],
   levels |-> [side \in Sides |-> [i \in Levels |-> FreshLevel]],
   bits |-> [side \in Sides |-> [w \in Words |-> {}]],
   index |-> [id \in OrderIds |-> InvalidNode],
   resting |-> 0]

Init ==
  /\ book = EmptyBook
  /\ lastSequence = 0
  /\ command = NoCommand
  /\ remaining = 0
  /\ events = <<>>

-----------------------------------------------------------------------------
PriceIndex(price) == (price - MinimumPrice) \div TickSize
IndexPrice(index) == MinimumPrice + index * TickSize

SetActive(bits, side, index) ==
  [bits EXCEPT ![side][index \div WordBits] = @ \cup {index % WordBits}]

ClearActive(bits, side, index) ==
  [bits EXCEPT ![side][index \div WordBits] = @ \ {index % WordBits}]

(* Mutant: both sides scan the words from the lowest. *)
FaultyBestIndex(b, side) ==
  LET bits == b.bits[side]
      active == {w \in Words : bits[w] # {}}
      word == Min(active) IN
  IF active = {} THEN NoPrice
  ELSE word * WordBits + IF side = "Sell" THEN Min(bits[word]) ELSE Max(bits[word])

(* The lowest ask or the highest bid, found by scanning the bitmap by words. *)
BestIndex(b, side) ==
  LET bits == b.bits[side]
      active == {w \in Words : bits[w] # {}} IN
  IF active = {} THEN NoPrice
  ELSE IF side = "Sell"
  THEN LET word == Min(active) IN word * WordBits + Min(bits[word])
  ELSE LET word == Max(active) IN word * WordBits + Max(bits[word])

(* best_bid and best_ask *)
BestPrice(b, side) ==
  IF BestIndex(b, side) = NoPrice THEN 0 ELSE IndexPrice(BestIndex(b, side))

QuantityAt(b, side, price) ==
  IF ValidPrice(price) THEN b.levels[side][PriceIndex(price)].total_quantity ELSE 0

CrossesLevel(aggressor, limit, index) ==
  index # NoPrice /\ Crosses(aggressor, limit, IndexPrice(index))

(* The levels can_fully_fill visits: the best opposite one, by the bitmap,
   then every non-empty one behind it, by its count, while they cross. *)
ScannedLevels(b, side, limit) ==
  LET opposite == Opposite(side)
      best == BestIndex(b, opposite)
      Behind(i) == IF side = "Buy" THEN i > best ELSE i < best IN
  IF ~CrossesLevel(side, limit, best) THEN {}
  ELSE {best} \cup {i \in Levels : /\ Behind(i)
                                   /\ b.levels[opposite][i].count # 0
                                   /\ CrossesLevel(side, limit, i)}

CanFullyFill(b, side, limit, quantity) ==
  MapThenSumSet(LAMBDA i : b.levels[Opposite(side)][i].total_quantity,
                ScannedLevels(b, side, limit)) >= quantity

-----------------------------------------------------------------------------
(* A level with an order appended, or taken out. *)
Grown(level, n, quantity) ==
  [total_quantity |-> (level.total_quantity + quantity) % QMod,
   head |-> IF level.tail = InvalidNode THEN n ELSE level.head,
   tail |-> n,
   count |-> level.count + 1]

(* Mutant: the cancelled quantity stays in the total. *)
FaultyShrunk(level, node) ==
  [total_quantity |-> level.total_quantity,
   head |-> IF node.previous = InvalidNode THEN node.next ELSE level.head,
   tail |-> IF node.next = InvalidNode THEN node.previous ELSE level.tail,
   count |-> level.count - 1]

Shrunk(level, node) ==
  [total_quantity |-> (level.total_quantity - node.remaining) % QMod,
   head |-> IF node.previous = InvalidNode THEN node.next ELSE level.head,
   tail |-> IF node.next = InvalidNode THEN node.previous ELSE level.tail,
   count |-> level.count - 1]

(* The arena with a node appended behind a tail. *)
Linked(nodes, n, node) ==
  [m \in Nodes |-> IF m = n THEN node
                   ELSE IF m = node.previous THEN [nodes[m] EXCEPT !.next = n]
                   ELSE nodes[m]]

(* Mutant: the back link of the following order is not repaired. *)
FaultyUnlinked(nodes, n) ==
  [m \in Nodes |-> IF m = n THEN FreshNode
                   ELSE IF m = nodes[n].previous THEN [nodes[m] EXCEPT !.next = nodes[n].next]
                   ELSE nodes[m]]

(* The arena with a node taken out of its list and reset. *)
Unlinked(nodes, n) ==
  [m \in Nodes |->
     IF m = n THEN FreshNode
     ELSE [nodes[m] EXCEPT
             !.next = IF m = nodes[n].previous THEN nodes[n].next ELSE @,
             !.previous = IF m = nodes[n].next THEN nodes[n].previous ELSE @]]

(* add_resting: take a free node, append it to its level's FIFO, index it. *)
AddResting(b, id, side, price, quantity, priority) ==
  LET n == b.free[Len(b.free)]
      i == PriceIndex(price)
      level == b.levels[side][i] IN
  [nodes |-> Linked(b.nodes, n,
               [id |-> id, price |-> price, remaining |-> quantity, priority |-> priority,
                previous |-> level.tail, next |-> InvalidNode, side |-> side]),
   free |-> SubSeq(b.free, 1, Len(b.free) - 1),
   levels |-> [b.levels EXCEPT ![side][i] = Grown(@, n, quantity)],
   bits |-> IF level.count = 0 THEN SetActive(b.bits, side, i) ELSE b.bits,
   index |-> [b.index EXCEPT ![id] = n],
   resting |-> b.resting + 1]

(* Mutant: the identifier stays in the index. *)
FaultyRemoveNode(b, n) ==
  LET node == b.nodes[n]
      i == PriceIndex(node.price) IN
  [b EXCEPT
     !.nodes = Unlinked(@, n),
     !.free = Append(@, n),
     !.levels[node.side][i] = Shrunk(@, node),
     !.bits = IF b.levels[node.side][i].count = 1 THEN ClearActive(@, node.side, i) ELSE @,
     !.resting = @ - 1]

(* remove_node: unlink a node, erase its identifier, push it on the stack. *)
RemoveNode(b, n) ==
  LET node == b.nodes[n]
      i == PriceIndex(node.price)
      level == b.levels[node.side][i] IN
  [nodes |-> Unlinked(b.nodes, n),
   free |-> Append(b.free, n),
   levels |-> [b.levels EXCEPT ![node.side][i] = Shrunk(@, node)],
   bits |-> IF level.count = 1 THEN ClearActive(b.bits, node.side, i) ELSE b.bits,
   index |-> [b.index EXCEPT ![node.id] = InvalidNode],
   resting |-> b.resting - 1]

(* The body of the matching loop against the node at the head of its level. *)
TradeWith(b, n, traded) ==
  LET node == b.nodes[n]
      i == PriceIndex(node.price)
      filled == [b EXCEPT !.nodes[n].remaining = @ - traded,
                          !.levels[node.side][i].total_quantity = (@ - traded) % QMod] IN
  IF node.remaining = traded THEN RemoveNode(filled, n) ELSE filled

-----------------------------------------------------------------------------
(* The orders the FIFOs hold, as resting_orders() walks them: from each head
   along next.  A corrupt list is cut after MaximumOrders nodes. *)
Fifo(b, side, i) ==
  LET At[k \in 1 .. MaximumOrders] ==
        IF k = 1 THEN b.levels[side][i].head
        ELSE IF At[k - 1] = InvalidNode THEN InvalidNode
        ELSE b.nodes[At[k - 1]].next
      length == Cardinality({k \in 1 .. MaximumOrders : At[k] # InvalidNode}) IN
  [k \in 1 .. length |-> At[k]]

FifoNodes(b, side, i) == LET fifo == Fifo(b, side, i) IN {fifo[k] : k \in DOMAIN fifo}

OrderAt(b, n) ==
  [order_id |-> b.nodes[n].id, side |-> b.nodes[n].side, price |-> b.nodes[n].price,
   quantity |-> b.nodes[n].remaining, priority |-> b.nodes[n].priority]

RestingOrders(b) ==
  {OrderAt(b, n) : n \in UNION {FifoNodes(b, side, i) : side \in Sides, i \in Levels}}

(* restore: a new book filled in priority order. *)
Acceptable(sequence, orders) ==
  /\ Cardinality(orders) <= MaximumOrders
  /\ \A o \in orders : /\ ValidPrice(o.price)
                       /\ o.quantity # 0
                       /\ o.priority <= sequence
                       /\ \A p \in orders : p.order_id = o.order_id => p = o

(* Mutant: the comparator is reversed. *)
FaultyYoungest(orders) == CHOOSE o \in orders : \A p \in orders : p.priority >= o.priority

Youngest(orders) == CHOOSE o \in orders : \A p \in orders : p.priority <= o.priority

Restore(orders) ==
  MapThenFoldSet(
    LAMBDA o, b : AddResting(b, o.order_id, o.side, o.price, o.quantity, o.priority),
    EmptyBook, LAMBDA o : o, Youngest, orders)

-----------------------------------------------------------------------------
(* Mutant: the capacity check leaves liquidity on the other side out. *)
FaultyNoRoom(b, c) ==
  /\ b.free = <<>>
  /\ c.order_type = "Limit"
  /\ BestIndex(b, Opposite(c.side)) = NoPrice

NoRoom(b, c) ==
  /\ b.free = <<>>
  /\ c.order_type = "Limit"
  /\ ~CanFullyFill(b, c.side, EffectiveLimit(c), c.quantity)

(* The early returns of submit, in order. *)
SubmitReason(b, c, replacement) ==
  IF c.quantity = 0 THEN "InvalidQuantity"
  ELSE IF c.order_type # "Market" /\ ~ValidPrice(c.price) THEN "InvalidPrice"
  ELSE IF ~replacement /\ b.index[c.order_id] # InvalidNode THEN "DuplicateOrderId"
  ELSE IF /\ c.order_type = "FillOrKill"
          /\ ~CanFullyFill(b, c.side, EffectiveLimit(c), c.quantity) THEN "WouldNotFill"
  ELSE IF NoRoom(b, c) THEN "BookCapacity"
  ELSE "None"

Submit(b, c, before, replacement) ==
  LET reason == SubmitReason(b, c, replacement) IN
  /\ IF reason = "None"
     THEN /\ command' = c
          /\ remaining' = c.quantity
          /\ events' = IF replacement THEN before ELSE Append(before, Acceptance(c))
     ELSE /\ events' = Append(before, Rejection(c, reason))
          /\ UNCHANGED <<command, remaining>>
  /\ book' = b

Ready == command = NoCommand /\ events = <<>>

Reject(c, reason) ==
  /\ events' = <<Rejection(c, reason)>>
  /\ UNCHANGED <<book, command, remaining>>

InSequence(c) ==
  /\ Ready
  /\ c.sequence = lastSequence + 1
  /\ lastSequence' = c.sequence

SequenceGap(c) ==
  /\ Ready
  /\ c.sequence # lastSequence + 1
  /\ Reject(c, "SequenceGap")
  /\ UNCHANGED lastSequence

New(c) ==
  /\ c.type = "New"
  /\ InSequence(c)
  /\ Submit(book, c, <<>>, FALSE)

Cancel(c) ==
  LET found == book.index[c.order_id] IN
  /\ c.type = "Cancel"
  /\ InSequence(c)
  /\ \/ /\ found = InvalidNode
        /\ Reject(c, "UnknownOrderId")
     \/ /\ found # InvalidNode
        /\ book' = RemoveNode(book, found)
        /\ events' = <<Emit("Cancelled", c, NoOrder, book.nodes[found].price,
                            book.nodes[found].remaining, "None")>>
        /\ UNCHANGED <<command, remaining>>

Replace(c) ==
  LET found == book.index[c.order_id] IN
  /\ c.type = "Replace"
  /\ InSequence(c)
  /\ \/ /\ found = InvalidNode
        /\ Reject(c, "UnknownOrderId")
     \/ /\ found # InvalidNode
        /\ ReplaceReason(c) # "None"
        /\ Reject(c, ReplaceReason(c))
     \/ /\ found # InvalidNode
        /\ ReplaceReason(c) = "None"
        /\ LET r == Replacement(c, book.nodes[found].side) IN
           Submit(RemoveNode(book, found), r,
                  <<Emit("Replaced", r, NoOrder, r.price, r.quantity, "None")>>, TRUE)

BestOpposite == BestIndex(book, Opposite(command.side))

LoopContinues ==
  /\ command # NoCommand
  /\ remaining > 0
  /\ CrossesLevel(command.side, EffectiveLimit(command), BestOpposite)

LoopEnds == command # NoCommand /\ ~LoopContinues

(* Mutant: the newest order of the level trades first. *)
FaultyMaker(level) == level.tail

Maker(level) == level.head

(* One iteration of the matching loop. *)
Trade ==
  /\ LoopContinues
  /\ LET n == Maker(book.levels[Opposite(command.side)][BestOpposite])
         resting == book.nodes[n]
         traded == Traded(remaining, resting.remaining) IN
     /\ remaining' = remaining - traded
     /\ book' = TradeWith(book, n, traded)
     /\ events' = Append(events, Emit("Trade", command, resting.id, resting.price, traded, "None"))
  /\ UNCHANGED <<lastSequence, command>>

Rest ==
  /\ LoopEnds
  /\ remaining > 0
  /\ command.order_type = "Limit"
  /\ book' = AddResting(book, command.order_id, command.side, command.price,
                        remaining, command.sequence)
  /\ events' = Append(events, Emit("Rested", command, NoOrder, command.price, remaining, "None"))
  /\ command' = NoCommand
  /\ remaining' = 0
  /\ UNCHANGED lastSequence

DropRemainder ==
  /\ LoopEnds
  /\ remaining > 0
  /\ command.order_type # "Limit"
  /\ events' = Append(events, Emit("Cancelled", command, NoOrder, command.price, remaining, "None"))
  /\ command' = NoCommand
  /\ remaining' = 0
  /\ UNCHANGED <<book, lastSequence>>

Filled ==
  /\ LoopEnds
  /\ remaining = 0
  /\ command' = NoCommand
  /\ UNCHANGED <<book, lastSequence, remaining, events>>

TakeEvents ==
  /\ command = NoCommand
  /\ events # <<>>
  /\ events' = <<>>
  /\ UNCHANGED <<book, lastSequence, command, remaining>>

(* The process restarts from a snapshot of resting_orders() taken here. *)
Recover ==
  /\ Ready
  /\ Acceptable(lastSequence, RestingOrders(book))
  /\ book' = Restore(RestingOrders(book))
  /\ UNCHANGED <<lastSequence, command, remaining, events>>

Process(c) == SequenceGap(c) \/ New(c) \/ Cancel(c) \/ Replace(c)

Receive ==
  /\ Ready
  /\ lastSequence < MaxSequence
  /\ \E step \in SequenceSteps : \E c \in Commands(lastSequence + step) : Process(c)

Next == Receive \/ Trade \/ Rest \/ DropRemainder \/ Filled \/ TakeEvents \/ Recover

Spec == Init /\ [][Next]_vars

-----------------------------------------------------------------------------
LiveNodes == {book.index[id] : id \in OrderIds} \ {InvalidNode}

(* The index inverted: the abstract book's resting orders. *)
IndexedOrders == {OrderAt(book, n) : n \in LiveNodes}

TypeOK ==
  /\ book \in [nodes: [Nodes -> OrderNode], free: Seq(Nodes),
               levels: [Sides -> [Levels -> PriceLevel]],
               bits: [Sides -> [Words -> SUBSET (0 .. WordBits - 1)]],
               index: [OrderIds -> Nodes \cup {InvalidNode}], resting: Nat]
  /\ lastSequence \in Nat
  /\ command \in Command \cup {NoCommand}
  /\ remaining \in Nat
  /\ events \in Seq(Event)

(* DESIGN 5, items 1, 6 and 7: the index and the arena agree on every live
   order, the free stack holds exactly the other nodes and each of them once,
   and the counter resting_orders counts the live ones, through every reuse of
   a node by add_resting and remove_node and across a restore; every variable
   keeps its type. *)
ArenaConsistent ==
  /\ TypeOK
  /\ \A id \in OrderIds :
       book.index[id] # InvalidNode => book.nodes[book.index[id]].id = id
  /\ {book.free[k] : k \in DOMAIN book.free} = Nodes \ LiveNodes
  /\ Len(book.free) = MaximumOrders - Cardinality(LiveNodes)
  /\ book.resting = Cardinality(LiveNodes)

(* DESIGN 5, items 2, 3 and 8: the FIFOs partition the live nodes by side and
   price, in strictly increasing priority, and following `previous` from the
   tail visits the same nodes as following `next` from the head. *)
FifosConsistent ==
  /\ \A side \in Sides, i \in Levels :
       LET fifo == Fifo(book, side, i)
           level == book.levels[side][i] IN
       /\ level.count = Len(fifo)
       /\ level.count = 0 => level.head = InvalidNode /\ level.tail = InvalidNode
       /\ level.count # 0 => /\ level.tail = fifo[Len(fifo)]
                             /\ book.nodes[level.head].previous = InvalidNode
                             /\ book.nodes[level.tail].next = InvalidNode
       /\ \A k \in 1 .. Len(fifo) :
            /\ fifo[k] \in LiveNodes
            /\ book.nodes[fifo[k]].side = side
            /\ book.nodes[fifo[k]].price = IndexPrice(i)
            /\ k > 1 => /\ book.nodes[fifo[k]].previous = fifo[k - 1]
                        /\ book.nodes[fifo[k - 1]].priority < book.nodes[fifo[k]].priority
  /\ LiveNodes \subseteq UNION {FifoNodes(book, side, i) : side \in Sides, i \in Levels}

(* DESIGN 5, item 4: what quantity_at reports and can_fully_fill sums, the
   level's running total, is the sum of the remaining quantities resting there. *)
AggregatesExact ==
  \A side \in Sides, price \in MinimumPrice - 1 .. MaximumPrice + 1 :
    QuantityAt(book, side, price) =
      MapThenSumSet(LAMBDA n : book.nodes[n].remaining,
                    {n \in LiveNodes : book.nodes[n].side = side /\ book.nodes[n].price = price})

(* DESIGN 5, item 5, as the matching loop, best_bid and best_ask use it:
   best_index finds the best price at which an order rests, or none exactly when
   the side is empty, in both scan directions and across words. *)
BestIndexExact ==
  \A side \in Sides :
    LET prices == {book.nodes[n].price : n \in {m \in LiveNodes : book.nodes[m].side = side}} IN
    /\ BestIndex(book, side) = NoPrice <=> prices = {}
    /\ prices # {} => BestPrice(book, side) = IF side = "Sell" THEN Min(prices) ELSE Max(prices)

(* add_resting pops the free stack unchecked, and throws half-way if the
   identifier is indexed already: neither can happen when a remainder rests. *)
NodeAvailable ==
  LoopEnds /\ remaining > 0 /\ command.order_type = "Limit" =>
    /\ book.free # <<>>
    /\ book.index[command.order_id] = InvalidNode

(* Between two commands a snapshot is never refused by restore, and the book
   rebuilt from it has the same queues in the same order, though its nodes and
   free stack differ. *)
SnapshotFaithful ==
  Ready =>
    LET snapshot == RestingOrders(book)
        rebuilt == Restore(snapshot)
        Queue(b, side, i) == [k \in DOMAIN Fifo(b, side, i) |-> OrderAt(b, Fifo(b, side, i)[k])] IN
    /\ Acceptable(lastSequence, snapshot)
    /\ \A side \in Sides, i \in Levels : Queue(rebuilt, side, i) = Queue(book, side, i)

-----------------------------------------------------------------------------
(* The book implements PriceTimeBook: every event of every command, and every
   resting order, is the one price-time priority demands; Recover is a
   stuttering step. *)
Abstract == INSTANCE PriceTimeBook WITH orders <- IndexedOrders

ImplementsPriceTime == Abstract!Spec
==============================================================================
