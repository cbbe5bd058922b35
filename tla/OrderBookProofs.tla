--------------------------- MODULE OrderBookProofs ---------------------------
(***************************************************************************)
(* What is proved of OrderBook for every ladder, word width, capacity and  *)
(* input: the invariant IndInv of its containers, the properties its runs  *)
(* check, and that it implements PriceTimeBook.  Sound says of one book    *)
(* what DESIGN 5 lists; each container operation preserves it, and what    *)
(* the operation does to the resting orders (Orders) is all that the rest  *)
(* needs to know of it.                                                    *)
(***************************************************************************)
EXTENDS OrderBook, InductionLemmas

-----------------------------------------------------------------------------
(* Arithmetic, the ladder and the bitmap. *)

(* Division with a remainder, for the ladder's index, the bitmap's words and a
   quantity's width. *)
LEMMA DivisionLaw ==
  ASSUME NEW n \in Nat \ {0}, NEW x \in Int
  PROVE  /\ x \div n \in Int /\ (x % n) \in 0 .. n - 1
         /\ x = n * (x \div n) + (x % n)
OBVIOUS

(* A quotient of natural numbers is natural. *)
LEMMA QuotientNatural ==
  ASSUME NEW n \in Nat \ {0}, NEW x \in Nat
  PROVE  x \div n \in Nat
OBVIOUS

(* Quotient and remainder are determined by the equation. *)
LEMMA DivisionUnique ==
  ASSUME NEW n \in Nat \ {0}, NEW q \in Int, NEW r \in 0 .. n - 1
  PROVE  (n * q + r) \div n = q /\ ((n * q + r) % n) = r
OBVIOUS

(* Multiples are ordered as their factors are. *)
LEMMA MultipleOrder ==
  ASSUME NEW n \in Nat \ {0}, NEW a \in Int, NEW b \in Int
  PROVE  /\ a < b <=> n * a < n * b
         /\ a = b <=> n * a = n * b
         /\ a < b => n * a + n <= n * b
OBVIOUS

(* A remainder may be taken before or after an addition. *)
LEMMA RemainderOfSum ==
  ASSUME NEW n \in Nat \ {0}, NEW x \in Int, NEW y \in Int
  PROVE  (((x % n) + y) % n) = ((x + y) % n)
<1> DEFINE q == x \div n
           r == x % n
           s == (r + y) \div n
           t == (r + y) % n
<1>1. q \in Int /\ r \in 0 .. n - 1 /\ x = n * q + r
  BY DivisionLaw
<1>2. r + y \in Int
  BY <1>1
<1>3. s \in Int /\ t \in 0 .. n - 1 /\ r + y = n * s + t
  <2> HIDE DEF r
  <2> QED
    BY <1>2, DivisionLaw
<1> HIDE DEF q, r, s, t
<1>4. x + y = n * (q + s) + t
  <2>1. n * (q + s) = n * q + n * s
    BY <1>1, <1>3
  <2>2. n * q \in Int /\ n * s \in Int
    BY <1>1, <1>3
  <2> QED
    BY <1>1, <1>3, <2>1, <2>2
<1>5. q + s \in Int
  BY <1>1, <1>3
<1>6. ((n * (q + s) + t) % n) = t
  BY <1>3, <1>5, DivisionUnique
<1> QED
  BY <1>4, <1>6 DEF r, t

(* The ladder: prices on a tick and levels correspond, in order. *)
LEMMA LadderSize ==
  /\ PriceCount \in Nat \ {0}
  /\ MaximumPrice = MinimumPrice + TickSize * (PriceCount - 1)
<1>1. MaximumPrice - MinimumPrice \in Nat /\ TickSize \in Nat \ {0}
      /\ MaximumPrice \in Int /\ MinimumPrice \in Int
      /\ ((MaximumPrice - MinimumPrice) % TickSize) = 0
  BY ConfigAssumption
<1> DEFINE span == MaximumPrice - MinimumPrice
<1>2. span \div TickSize \in Nat /\ span = TickSize * (span \div TickSize) + (span % TickSize)
  <2>1. span \in Nat
    BY <1>1
  <2> HIDE DEF span
  <2> QED
    BY <1>1, <2>1, DivisionLaw, QuotientNatural
<1>3. PriceCount = (span \div TickSize) + 1
  BY DEF PriceCount
<1> QED
  BY <1>1, <1>2, <1>3

(* A valid price has a level, and it is the price of that level. *)
LEMMA PriceToLevel ==
  ASSUME NEW price \in Int, ValidPrice(price)
  PROVE  PriceIndex(price) \in Levels /\ IndexPrice(PriceIndex(price)) = price
<1>1. TickSize \in Nat \ {0} /\ MinimumPrice \in Int /\ MaximumPrice \in Int
  BY ConfigAssumption
<1> DEFINE x == price - MinimumPrice
           q == x \div TickSize
<1>2. q \in Nat /\ x = TickSize * q /\ q = PriceIndex(price)
  <2>1. x \in Nat /\ (x % TickSize) = 0
    BY <1>1 DEF ValidPrice
  <2>2. q = PriceIndex(price)
    BY DEF PriceIndex
  <2> HIDE DEF x
  <2>3. q \in Nat
    BY <1>1, <2>1, QuotientNatural
  <2>4. x = TickSize * q + (x % TickSize)
    BY <1>1, <2>1, DivisionLaw
  <2> QED
    BY <1>1, <2>1, <2>2, <2>3, <2>4
<1> HIDE DEF q
<1>3. PriceCount \in Nat /\ TickSize * q <= TickSize * (PriceCount - 1)
  BY <1>1, <1>2, LadderSize DEF ValidPrice
<1>4. q <= PriceCount - 1
  <2>1. PriceCount - 1 \in Int /\ q \in Int
    BY <1>2, <1>3
  <2>2. PriceCount - 1 < q => TickSize * (PriceCount - 1) < TickSize * q
    BY <1>1, <2>1, MultipleOrder
  <2>3. TickSize * (PriceCount - 1) \in Int /\ TickSize * q \in Int
    BY <1>1, <2>1
  <2> QED
    BY <1>3, <2>1, <2>2, <2>3
<1>5. IndexPrice(q) = price
  BY <1>1, <1>2 DEF IndexPrice
<1> QED
  BY <1>2, <1>3, <1>4, <1>5 DEF Levels

(* Every level has a valid price, and that price has this level. *)
LEMMA LevelToPrice ==
  ASSUME NEW i \in Levels
  PROVE  /\ i \in Nat /\ i < PriceCount
         /\ IndexPrice(i) \in Int /\ ValidPrice(IndexPrice(i)) /\ PriceIndex(IndexPrice(i)) = i
<1>1. TickSize \in Nat \ {0} /\ MinimumPrice \in Int /\ MaximumPrice \in Int
  BY ConfigAssumption
<1>2. i \in Nat /\ PriceCount \in Nat /\ i <= PriceCount - 1
  BY LadderSize DEF Levels
<1>3. IndexPrice(i) - MinimumPrice = TickSize * i + 0 /\ IndexPrice(i) \in Int
  BY <1>1, <1>2 DEF IndexPrice
<1>4. TickSize * i <= TickSize * (PriceCount - 1) /\ TickSize * i >= 0
  <2>1. i < PriceCount - 1 \/ i = PriceCount - 1
    BY <1>2
  <2>2. i < PriceCount - 1 => TickSize * i < TickSize * (PriceCount - 1)
    BY <1>1, <1>2, MultipleOrder
  <2>3. 0 < i => TickSize * 0 < TickSize * i
    BY <1>1, <1>2, MultipleOrder
  <2> QED
    BY <1>1, <1>2, <2>1, <2>2, <2>3
<1>5. (TickSize * i + 0) \div TickSize = i /\ ((TickSize * i + 0) % TickSize) = 0
  <2>1. 0 \in 0 .. TickSize - 1 /\ i \in Int
    BY <1>1, <1>2
  <2> QED
    BY <1>1, <2>1, DivisionUnique
<1>6. PriceIndex(IndexPrice(i)) = i
  BY <1>3, <1>5 DEF PriceIndex
<1>7. ValidPrice(IndexPrice(i))
  BY <1>1, <1>2, <1>3, <1>4, <1>5, LadderSize DEF ValidPrice
<1> QED
  BY <1>2, <1>3, <1>6, <1>7

(* The ladder is ordered by price. *)
LEMMA LadderOrder ==
  ASSUME NEW i \in Levels, NEW j \in Levels
  PROVE  i < j <=> IndexPrice(i) < IndexPrice(j)
<1>1. TickSize \in Nat \ {0} /\ MinimumPrice \in Int /\ i \in Int /\ j \in Int
  BY ConfigAssumption, LevelToPrice
<1>2. i < j <=> TickSize * i < TickSize * j
  BY <1>1, MultipleOrder
<1> QED
  BY <1>1, <1>2 DEF IndexPrice

(* The bitmap: every level has its bit, and the words are in order. *)
LEMMA BitOfLevel ==
  ASSUME NEW i \in Levels
  PROVE  /\ i \div WordBits \in Words /\ (i % WordBits) \in 0 .. WordBits - 1
         /\ (i \div WordBits) * WordBits + (i % WordBits) = i
<1>1. WordBits \in Nat \ {0} /\ PriceCount \in Nat /\ i \in Nat /\ i <= PriceCount - 1
  BY WidthAssumption, LadderSize DEF Levels
<1> DEFINE q == i \div WordBits
           r == i % WordBits
           last == PriceCount + WordBits - 1
           d == last \div WordBits
           e == last % WordBits
<1>2. q \in Nat /\ r \in 0 .. WordBits - 1 /\ i = WordBits * q + r
  <2>1. q \in Nat
    BY <1>1, QuotientNatural
  <2> QED
    BY <1>1, <2>1, DivisionLaw
<1>3. last \in Nat /\ last >= i + WordBits
  BY <1>1
<1>4. d \in Nat /\ e \in 0 .. WordBits - 1 /\ last = WordBits * d + e
  <2> HIDE DEF last
  <2>1. d \in Nat
    BY <1>1, <1>3, QuotientNatural
  <2> QED
    BY <1>1, <1>3, <2>1, DivisionLaw
<1>5. q < d
  <2> HIDE DEF q, r, last, d, e
  <2> SUFFICES ASSUME d <= q PROVE FALSE
    BY <1>2, <1>4
  <2>1. WordBits * d <= WordBits * q
    BY <1>1, <1>2, <1>4, MultipleOrder
  <2>2. WordBits * d \in Int /\ WordBits * q \in Int
    BY <1>1, <1>2, <1>4
  <2> QED
    BY <1>1, <1>2, <1>3, <1>4, <2>1, <2>2
<1>6. q \in Words
  BY <1>2, <1>4, <1>5 DEF Words
<1>7. q * WordBits + r = i
  <2> HIDE DEF q, r
  <2> QED
    BY <1>1, <1>2
<1> QED
  BY <1>2, <1>6, <1>7

(* A bit of a word belongs to one index. *)
LEMMA LevelOfBit ==
  ASSUME NEW w \in Words, NEW k \in 0 .. WordBits - 1
  PROVE  /\ w \in Nat /\ w * WordBits + k \in Nat
         /\ (w * WordBits + k) \div WordBits = w
         /\ ((w * WordBits + k) % WordBits) = k
<1>1. WordBits \in Nat \ {0} /\ PriceCount \in Nat
  BY WidthAssumption, LadderSize
<1>2. w \in Nat
  <2>1. (PriceCount + WordBits - 1) \div WordBits \in Nat
    BY <1>1, QuotientNatural
  <2> QED
    BY <2>1 DEF Words
<1>3. w * WordBits + k = WordBits * w + k /\ w * WordBits + k \in Nat
  BY <1>1, <1>2
<1> QED
  BY <1>1, <1>2, <1>3, DivisionUnique

(* Indices are ordered by word, then by bit. *)
LEMMA WordOrder ==
  ASSUME NEW i \in Levels, NEW j \in Levels
  PROVE  /\ i \div WordBits < j \div WordBits => i < j
         /\ i \div WordBits = j \div WordBits =>
              (i < j <=> (i % WordBits) < (j % WordBits))
<1>1. WordBits \in Nat \ {0} /\ i \in Nat /\ j \in Nat
  BY WidthAssumption, LevelToPrice
<1> DEFINE q == i \div WordBits
           r == i % WordBits
           p == j \div WordBits
           s == j % WordBits
<1>2. /\ q \in Int /\ r \in 0 .. WordBits - 1 /\ i = WordBits * q + r
      /\ p \in Int /\ s \in 0 .. WordBits - 1 /\ j = WordBits * p + s
  BY <1>1, DivisionLaw
<1> HIDE DEF q, r, p, s
<1>3. q < p => WordBits * q + WordBits <= WordBits * p
  BY <1>1, <1>2, MultipleOrder
<1>4. q < p => i < j
  BY <1>1, <1>2, <1>3
<1>5. q = p => (i < j <=> r < s)
  BY <1>1, <1>2
<1> QED
  BY <1>4, <1>5 DEF q, r, p, s

-----------------------------------------------------------------------------
(* The invariant of the containers. *)

(* The containers' types, the nodes in use, and the ones of a level. *)
BookType ==
  [nodes: [Nodes -> OrderNode], free: Seq(Nodes), levels: [Sides -> [Levels -> PriceLevel]],
   bits: [Sides -> [Words -> SUBSET (0 .. WordBits - 1)]],
   index: [OrderIds -> Nodes \cup {InvalidNode}], resting: Nat]

Live(b) == {n \in Nodes : b.nodes[n].id # NoOrder}

Queued(b, side, i) ==
  {n \in Live(b) : b.nodes[n].side = side /\ PriceIndex(b.nodes[n].price) = i}

SameQueue(b, m, n) ==
  /\ b.nodes[m].side = b.nodes[n].side
  /\ PriceIndex(b.nodes[m].price) = PriceIndex(b.nodes[n].price)

Quantity(b) == [n \in Nodes |-> b.nodes[n].remaining]

(* Index and arena agree. *)
IndexOK(b) ==
  /\ \A id \in OrderIds : b.index[id] # InvalidNode => b.nodes[b.index[id]].id = id
  /\ \A n \in Live(b) : b.index[b.nodes[n].id] = n

(* The free stack holds every other node once. *)
FreeOK(b) ==
  /\ \A n \in Nodes : n \notin Live(b) <=> \E k \in 1 .. Len(b.free) : b.free[k] = n
  /\ \A k, l \in 1 .. Len(b.free) : b.free[k] = b.free[l] => k = l
  /\ b.resting = Cardinality(Live(b))

(* What distinguishes the live orders. *)
OrdersOK(b) ==
  /\ \A n \in Live(b) : ValidPrice(b.nodes[n].price)
  /\ \A m, n \in Live(b) : b.nodes[m].priority = b.nodes[n].priority => m = n

(* The links lead to the neighbours in priority order. *)
NextOK(b) ==
  \A n \in Live(b) :
    LET next == b.nodes[n].next IN
    IF next = InvalidNode
    THEN \A m \in Live(b) : SameQueue(b, m, n) => b.nodes[m].priority <= b.nodes[n].priority
    ELSE /\ next \in Live(b) /\ SameQueue(b, next, n)
         /\ b.nodes[n].priority < b.nodes[next].priority
         /\ \A m \in Live(b) : SameQueue(b, m, n) =>
              \/ b.nodes[m].priority <= b.nodes[n].priority
              \/ b.nodes[next].priority <= b.nodes[m].priority

PreviousOK(b) ==
  \A n \in Live(b) :
    LET previous == b.nodes[n].previous IN
    IF previous = InvalidNode
    THEN \A m \in Live(b) : SameQueue(b, m, n) => b.nodes[n].priority <= b.nodes[m].priority
    ELSE /\ previous \in Live(b) /\ SameQueue(b, previous, n)
         /\ b.nodes[previous].priority < b.nodes[n].priority
         /\ \A m \in Live(b) : SameQueue(b, m, n) =>
              \/ b.nodes[n].priority <= b.nodes[m].priority
              \/ b.nodes[m].priority <= b.nodes[previous].priority

(* The ends of a level's list are its oldest and its youngest order. *)
EndsOK(b) ==
  \A side \in Sides, i \in Levels :
    LET level == b.levels[side][i]
        queued == Queued(b, side, i) IN
    IF queued = {} THEN level.head = InvalidNode /\ level.tail = InvalidNode
    ELSE /\ level.head \in queued
         /\ \A m \in queued : b.nodes[level.head].priority <= b.nodes[m].priority
         /\ level.tail \in queued
         /\ \A m \in queued : b.nodes[m].priority <= b.nodes[level.tail].priority

CountsOK(b) ==
  \A side \in Sides, i \in Levels : b.levels[side][i].count = Cardinality(Queued(b, side, i))

TotalsOK(b) ==
  \A side \in Sides, i \in Levels :
    b.levels[side][i].total_quantity = Total(Quantity(b), Queued(b, side, i)) % QMod

(* Exactly the levels with orders have their bit set. *)
BitsOK(b) ==
  \A side \in Sides :
    /\ \A i \in Levels :
         (i % WordBits) \in b.bits[side][i \div WordBits] <=> Queued(b, side, i) # {}
    /\ \A w \in Words : \A k \in b.bits[side][w] : w * WordBits + k \in Levels

Sound(b) ==
  /\ b \in BookType /\ IndexOK(b) /\ FreeOK(b) /\ OrdersOK(b) /\ NextOK(b) /\ PreviousOK(b)
  /\ EndsOK(b) /\ CountsOK(b) /\ TotalsOK(b) /\ BitsOK(b)

-----------------------------------------------------------------------------
(* add_resting. *)

(* The arena has MaximumOrders nodes. *)
LEMMA NodesFinite ==
  /\ IsFiniteSet(Nodes) /\ Cardinality(Nodes) = MaximumOrders /\ Nodes \subseteq Nat
  /\ InvalidNode \notin Nodes
<1>1. MaximumOrders \in Nat \ {0}
  BY ConfigAssumption
<1>2. IsFiniteSet(Nodes) /\ Cardinality(Nodes) = MaximumOrders
  BY <1>1, FS_Interval DEF Nodes
<1> QED
  BY <1>1, <1>2 DEF Nodes, InvalidNode

(* The live nodes, and those of a level, are finitely many. *)
LEMMA LiveFinite ==
  ASSUME NEW b
  PROVE  /\ IsFiniteSet(Live(b)) /\ Cardinality(Live(b)) \in Nat
         /\ Cardinality(Live(b)) <= MaximumOrders /\ Live(b) \subseteq Nodes
         /\ \A side, i : /\ Queued(b, side, i) \subseteq Live(b)
                         /\ IsFiniteSet(Queued(b, side, i))
                         /\ Cardinality(Queued(b, side, i)) \in Nat
                         /\ Cardinality(Queued(b, side, i)) <= MaximumOrders
<1>1. Live(b) \in SUBSET Nodes
  BY DEF Live
<1>2. IsFiniteSet(Live(b)) /\ Cardinality(Live(b)) <= MaximumOrders
  BY <1>1, NodesFinite, FS_Subset
<1>3. ASSUME NEW side, NEW i
      PROVE  /\ Queued(b, side, i) \subseteq Live(b)
             /\ IsFiniteSet(Queued(b, side, i))
             /\ Cardinality(Queued(b, side, i)) \in Nat
             /\ Cardinality(Queued(b, side, i)) <= MaximumOrders
  <2>1. Queued(b, side, i) \in SUBSET Live(b) /\ Queued(b, side, i) \in SUBSET Nodes
    BY DEF Queued, Live
  <2>2. IsFiniteSet(Queued(b, side, i)) /\ Cardinality(Queued(b, side, i)) <= MaximumOrders
    BY <2>1, NodesFinite, FS_Subset
  <2> QED
    BY <2>1, <2>2, FS_CardinalityType
<1> QED
  BY <1>1, <1>2, <1>3, FS_CardinalityType

(* Sets and clears of bits touch the bit of their level only. *)
LEMMA BitsUpdated ==
  ASSUME NEW bits \in [Sides -> [Words -> SUBSET (0 .. WordBits - 1)]],
         NEW side \in Sides, NEW i \in Levels
  PROVE  /\ SetActive(bits, side, i) \in [Sides -> [Words -> SUBSET (0 .. WordBits - 1)]]
         /\ ClearActive(bits, side, i) \in [Sides -> [Words -> SUBSET (0 .. WordBits - 1)]]
         /\ \A s \in Sides, j \in Levels :
              /\ (j % WordBits) \in SetActive(bits, side, i)[s][j \div WordBits]
                   <=> (s = side /\ j = i) \/ (j % WordBits) \in bits[s][j \div WordBits]
              /\ (j % WordBits) \in ClearActive(bits, side, i)[s][j \div WordBits]
                   <=> ~(s = side /\ j = i) /\ (j % WordBits) \in bits[s][j \div WordBits]
         /\ \A s \in Sides, w \in Words :
              /\ ClearActive(bits, side, i)[s][w] \subseteq bits[s][w]
              /\ \A k \in SetActive(bits, side, i)[s][w] :
                   k \in bits[s][w] \/ w * WordBits + k = i
<1> DEFINE q == i \div WordBits
           r == i % WordBits
<1>1. q \in Words /\ r \in 0 .. WordBits - 1 /\ q * WordBits + r = i
  BY BitOfLevel
<1> HIDE DEF q, r
<1>2. ASSUME NEW s \in Sides, NEW w \in Words
      PROVE  /\ SetActive(bits, side, i)[s][w]
                  = IF s = side /\ w = q THEN bits[s][w] \cup {r} ELSE bits[s][w]
             /\ ClearActive(bits, side, i)[s][w]
                  = IF s = side /\ w = q THEN bits[s][w] \ {r} ELSE bits[s][w]
  BY <1>1 DEF SetActive, ClearActive, q, r
<1>3. /\ SetActive(bits, side, i) \in [Sides -> [Words -> SUBSET (0 .. WordBits - 1)]]
      /\ ClearActive(bits, side, i) \in [Sides -> [Words -> SUBSET (0 .. WordBits - 1)]]
  BY <1>1 DEF SetActive, ClearActive, q, r
<1>4. ASSUME NEW s \in Sides, NEW j \in Levels
      PROVE  /\ (j % WordBits) \in SetActive(bits, side, i)[s][j \div WordBits]
                   <=> (s = side /\ j = i) \/ (j % WordBits) \in bits[s][j \div WordBits]
             /\ (j % WordBits) \in ClearActive(bits, side, i)[s][j \div WordBits]
                   <=> ~(s = side /\ j = i) /\ (j % WordBits) \in bits[s][j \div WordBits]
  <2> DEFINE p == j \div WordBits
             t == j % WordBits
  <2>1. p \in Words /\ t \in 0 .. WordBits - 1 /\ p * WordBits + t = j
    BY BitOfLevel
  <2>2. j = i <=> p = q /\ t = r
    <3>1. j = i => p = q /\ t = r
      BY DEF q, r
    <3> HIDE DEF p, t
    <3> QED
      BY <1>1, <2>1, <3>1
  <2> HIDE DEF p, t
  <2>3. /\ t \in SetActive(bits, side, i)[s][p] <=> (s = side /\ j = i) \/ t \in bits[s][p]
        /\ t \in ClearActive(bits, side, i)[s][p] <=> ~(s = side /\ j = i) /\ t \in bits[s][p]
    BY <1>2, <2>1, <2>2
  <2> QED
    BY <2>3 DEF p, t
<1>5. ASSUME NEW s \in Sides, NEW w \in Words
      PROVE  /\ ClearActive(bits, side, i)[s][w] \subseteq bits[s][w]
             /\ \A k \in SetActive(bits, side, i)[s][w] :
                   k \in bits[s][w] \/ w * WordBits + k = i
  BY <1>1, <1>2, ZenonT(30)
<1> QED
  BY <1>3, <1>4, <1>5

(* What add_resting changes, container by container. *)
Added(b, c, id, side, price, quantity, priority) ==
  LET n == b.free[Len(b.free)]
      i == PriceIndex(price)
      tail == b.levels[side][i].tail IN
  /\ n \in Nodes /\ i \in Levels /\ Len(b.free) \in Nat \ {0}
  /\ c \in BookType
  /\ c.nodes[n] = [id |-> id, price |-> price, remaining |-> quantity,
                   priority |-> priority, previous |-> tail,
                   next |-> InvalidNode, side |-> side]
  /\ \A m \in Nodes \ {n} :
       /\ c.nodes[m].id = b.nodes[m].id
       /\ c.nodes[m].price = b.nodes[m].price
       /\ c.nodes[m].remaining = b.nodes[m].remaining
       /\ c.nodes[m].priority = b.nodes[m].priority
       /\ c.nodes[m].side = b.nodes[m].side
       /\ c.nodes[m].previous = b.nodes[m].previous
       /\ c.nodes[m].next = IF m = tail THEN n ELSE b.nodes[m].next
  /\ Len(c.free) = Len(b.free) - 1
  /\ \A k \in 1 .. Len(b.free) - 1 : c.free[k] = b.free[k]
  /\ \A s \in Sides, j \in Levels :
       c.levels[s][j] = IF s = side /\ j = i THEN Grown(b.levels[s][j], n, quantity)
                        ELSE b.levels[s][j]
  /\ c.bits = IF b.levels[side][i].count = 0 THEN SetActive(b.bits, side, i) ELSE b.bits
  /\ c.index = [b.index EXCEPT ![id] = n]
  /\ c.resting = b.resting + 1

(* add_resting changes what Added says. *)
LEMMA AddFrame ==
  ASSUME NEW b \in BookType, b.free # <<>>,
         NEW id \in OrderIds, NEW side \in Sides, NEW price \in Int, ValidPrice(price),
         NEW quantity \in Nat, NEW priority \in Nat
  PROVE  Added(b, AddResting(b, id, side, price, quantity, priority),
               id, side, price, quantity, priority)
<1> DEFINE n == b.free[Len(b.free)]
           i == PriceIndex(price)
           level == b.levels[side][i]
           tail == level.tail
           node == [id |-> id, price |-> price, remaining |-> quantity,
                    priority |-> priority, previous |-> tail,
                    next |-> InvalidNode, side |-> side]
           c == AddResting(b, id, side, price, quantity, priority)
<1>1. /\ b.nodes \in [Nodes -> OrderNode] /\ b.free \in Seq(Nodes)
      /\ b.levels \in [Sides -> [Levels -> PriceLevel]]
      /\ b.bits \in [Sides -> [Words -> SUBSET (0 .. WordBits - 1)]]
      /\ b.index \in [OrderIds -> Nodes \cup {InvalidNode}] /\ b.resting \in Nat
  BY DEF BookType
<1>2. Len(b.free) \in Nat \ {0} /\ n \in Nodes
  BY <1>1
<1>3. i \in Levels
  BY PriceToLevel
<1> HIDE DEF n, i
<1>4. level \in PriceLevel /\ tail \in Nodes \cup {InvalidNode}
  BY <1>1, <1>3 DEF PriceLevel
<1>5. node \in OrderNode
  BY <1>4 DEF OrderNode
<1>6. /\ c.nodes = Linked(b.nodes, n, node)
      /\ c.free = SubSeq(b.free, 1, Len(b.free) - 1)
      /\ c.levels = [b.levels EXCEPT ![side][i] = Grown(@, n, quantity)]
      /\ c.bits = IF level.count = 0 THEN SetActive(b.bits, side, i) ELSE b.bits
      /\ c.index = [b.index EXCEPT ![id] = n]
      /\ c.resting = b.resting + 1
      /\ c = [nodes |-> c.nodes, free |-> c.free, levels |-> c.levels, bits |-> c.bits,
              index |-> c.index, resting |-> c.resting]
  BY DEF AddResting, n, i
<1> HIDE DEF level, node, c
<1>7. node.previous = tail
  BY DEF node
<1> HIDE DEF tail
<1>8. /\ c.nodes[n] = node
      /\ \A m \in Nodes \ {n} :
           c.nodes[m] = IF m = tail THEN [b.nodes[m] EXCEPT !.next = n] ELSE b.nodes[m]
  BY <1>2, <1>6, <1>7 DEF Linked
<1>9. \A m \in Nodes \ {n} :
              /\ c.nodes[m].id = b.nodes[m].id
              /\ c.nodes[m].price = b.nodes[m].price
              /\ c.nodes[m].remaining = b.nodes[m].remaining
              /\ c.nodes[m].priority = b.nodes[m].priority
              /\ c.nodes[m].side = b.nodes[m].side
              /\ c.nodes[m].previous = b.nodes[m].previous
              /\ c.nodes[m].next = IF m = tail THEN n ELSE b.nodes[m].next
              /\ c.nodes[m] \in OrderNode
  <2> SUFFICES ASSUME NEW m \in Nodes \ {n}
      PROVE   /\ c.nodes[m].id = b.nodes[m].id
              /\ c.nodes[m].price = b.nodes[m].price
              /\ c.nodes[m].remaining = b.nodes[m].remaining
              /\ c.nodes[m].priority = b.nodes[m].priority
              /\ c.nodes[m].side = b.nodes[m].side
              /\ c.nodes[m].previous = b.nodes[m].previous
              /\ c.nodes[m].next = IF m = tail THEN n ELSE b.nodes[m].next
              /\ c.nodes[m] \in OrderNode
    OBVIOUS
  <2>1. b.nodes[m] \in OrderNode
    BY <1>1
  <2>2. [b.nodes[m] EXCEPT !.next = n] \in OrderNode
    BY <1>2, <2>1 DEF OrderNode
  <2>3. c.nodes[m] = IF m = tail THEN [b.nodes[m] EXCEPT !.next = n] ELSE b.nodes[m]
    BY <1>8
  <2> QED
    BY <2>1, <2>2, <2>3 DEF OrderNode
<1>10. c.nodes \in [Nodes -> OrderNode]
  <2>1. c.nodes = [m \in Nodes |-> c.nodes[m]]
    BY <1>6 DEF Linked
  <2>2. \A m \in Nodes : c.nodes[m] \in OrderNode
    BY <1>5, <1>8, <1>9
  <2> QED
    BY <2>1, <2>2
<1>11. Len(c.free) = Len(b.free) - 1 /\ c.free \in Seq(Nodes)
       /\ \A k \in 1 .. Len(b.free) - 1 : c.free[k] = b.free[k]
  BY <1>1, <1>2, <1>6
<1>12. Grown(level, n, quantity) \in PriceLevel
  <2>1. QMod \in Nat \ {0}
    BY WidthAssumption
  <2>2. (level.total_quantity + quantity) \in Int /\ level.count + 1 \in Nat
    BY <1>4, <2>1 DEF PriceLevel
  <2>3. ((level.total_quantity + quantity) % QMod) \in 0 .. QMod - 1
    BY <2>1, <2>2, DivisionLaw
  <2> QED
    BY <1>2, <1>4, <2>2, <2>3 DEF Grown, PriceLevel
<1>13. c.levels \in [Sides -> [Levels -> PriceLevel]]
       /\ \A s \in Sides, j \in Levels :
              c.levels[s][j] = IF s = side /\ j = i THEN Grown(b.levels[s][j], n, quantity)
                               ELSE b.levels[s][j]
  BY <1>1, <1>3, <1>6, <1>12 DEF level
<1>14. c.bits \in [Sides -> [Words -> SUBSET (0 .. WordBits - 1)]]
  <2>1. SetActive(b.bits, side, i) \in [Sides -> [Words -> SUBSET (0 .. WordBits - 1)]]
    BY <1>1, <1>3, BitsUpdated, Zenon
  <2> QED
    BY <1>1, <1>6, <2>1, Zenon
<1>15. c.index \in [OrderIds -> Nodes \cup {InvalidNode}] /\ c.resting \in Nat
  BY <1>1, <1>2, <1>6
<1>16. c \in BookType
  BY <1>6, <1>10, <1>11, <1>13, <1>14, <1>15 DEF BookType
<1> QED
  BY <1>2, <1>3, <1>6, <1>8, <1>9, <1>11, <1>13, <1>16, ZenonT(30) DEF n, i, tail, level, node, c, Added

(* The facts of a sum the books need: a quantity more, less or changed. *)
LEMMA QuantityTyped ==
  ASSUME NEW b \in BookType, NEW S \in SUBSET Nodes
  PROVE  /\ \A x \in S : Quantity(b)[x] \in Nat /\ Quantity(b)[x] = b.nodes[x].remaining
         /\ IsFiniteSet(S) /\ Total(Quantity(b), S) \in Nat
<1>1. \A x \in S : Quantity(b)[x] \in Nat /\ Quantity(b)[x] = b.nodes[x].remaining
  BY DEF BookType, OrderNode, Quantity
<1>2. IsFiniteSet(S)
  BY NodesFinite, FS_Subset
<1>3. IsFiniteSet(Units(Quantity(b), S))
  <2>1. S \in SUBSET S
    OBVIOUS
  <2> QED
    BY <1>1, <1>2, <2>1, UnitsFinite
<1> QED
  BY <1>1, <1>2, <1>3, FS_CardinalityType DEF Total

(* add_resting keeps the containers consistent, as long as the identifier is
   new, a node is free and the order is the youngest. *)
LEMMA AddSound ==
  ASSUME NEW b, Sound(b), b.free # <<>>,
         NEW id \in OrderIds, b.index[id] = InvalidNode,
         NEW side \in Sides, NEW price \in Int, ValidPrice(price),
         NEW quantity \in Nat, NEW priority \in Nat,
         \A m \in Live(b) : b.nodes[m].priority < priority
  PROVE  LET n == b.free[Len(b.free)]
             c == AddResting(b, id, side, price, quantity, priority) IN
         /\ Sound(c)
         /\ n \in Nodes \ Live(b) /\ Live(c) = Live(b) \cup {n}
         /\ \A m \in Live(b) : OrderAt(c, m) = OrderAt(b, m)
         /\ OrderAt(c, n) = [order_id |-> id, side |-> side, price |-> price,
                             quantity |-> quantity, priority |-> priority]
         /\ c.index = [b.index EXCEPT ![id] = n]
<1> DEFINE n == b.free[Len(b.free)]
           i == PriceIndex(price)
           tail == b.levels[side][i].tail
           c == AddResting(b, id, side, price, quantity, priority)
<1>0. /\ b \in BookType /\ IndexOK(b) /\ FreeOK(b) /\ OrdersOK(b) /\ NextOK(b) /\ PreviousOK(b)
      /\ EndsOK(b) /\ CountsOK(b) /\ TotalsOK(b) /\ BitsOK(b)
  BY DEF Sound
<1>f. Added(b, c, id, side, price, quantity, priority)
  BY <1>0, AddFrame, Zenon
<1>1. /\ n \in Nodes /\ i \in Levels /\ Len(b.free) \in Nat \ {0}
      /\ c \in BookType
  BY <1>f DEF Added
<1>2. /\ c.nodes[n] = [id |-> id, price |-> price, remaining |-> quantity,
                       priority |-> priority, previous |-> tail,
                       next |-> InvalidNode, side |-> side]
      /\ \A m \in Nodes \ {n} :
           /\ c.nodes[m].id = b.nodes[m].id
           /\ c.nodes[m].price = b.nodes[m].price
           /\ c.nodes[m].remaining = b.nodes[m].remaining
           /\ c.nodes[m].priority = b.nodes[m].priority
           /\ c.nodes[m].side = b.nodes[m].side
           /\ c.nodes[m].previous = b.nodes[m].previous
           /\ c.nodes[m].next = IF m = tail THEN n ELSE b.nodes[m].next
  BY <1>f DEF Added
<1>3. /\ Len(c.free) = Len(b.free) - 1
      /\ \A k \in 1 .. Len(b.free) - 1 : c.free[k] = b.free[k]
  BY <1>f DEF Added
<1>4. \A s \in Sides, j \in Levels :
        c.levels[s][j] = IF s = side /\ j = i THEN Grown(b.levels[s][j], n, quantity)
                         ELSE b.levels[s][j]
  BY <1>f DEF Added
<1>5. /\ c.bits = IF b.levels[side][i].count = 0 THEN SetActive(b.bits, side, i) ELSE b.bits
      /\ c.index = [b.index EXCEPT ![id] = n]
      /\ c.resting = b.resting + 1
  BY <1>f DEF Added
<1>n. n \notin Live(b)
  <2>1. Len(b.free) \in 1 .. Len(b.free)
    BY <1>1
  <2> QED
    BY <1>0, <1>1, <2>1 DEF FreeOK
<1>t. /\ b.nodes \in [Nodes -> OrderNode] /\ \A m \in Nodes : b.nodes[m].priority \in Nat
      /\ b.index \in [OrderIds -> Nodes \cup {InvalidNode}] /\ b.resting \in Nat
      /\ b.levels \in [Sides -> [Levels -> PriceLevel]]
      /\ b.bits \in [Sides -> [Words -> SUBSET (0 .. WordBits - 1)]]
  BY <1>0 DEF BookType, OrderNode
<1>d. i = PriceIndex(price) /\ tail = b.levels[side][i].tail
  OBVIOUS
<1> HIDE DEF n, i, tail, c
<1>6. /\ c.nodes[n].id = id /\ c.nodes[n].price = price /\ c.nodes[n].remaining = quantity
      /\ c.nodes[n].priority = priority /\ c.nodes[n].previous = tail
      /\ c.nodes[n].next = InvalidNode /\ c.nodes[n].side = side
  BY <1>2
<1>7. Live(c) = Live(b) \cup {n}
  BY <1>1, <1>2, <1>6, InputAssumption DEF Live
<1>8. \A m \in Live(b) : m \in Nodes \ {n} /\ m \in Live(c)
  BY <1>7, <1>n DEF Live
<1>9. ASSUME NEW s \in Sides, NEW j \in Levels
      PROVE  Queued(c, s, j) = IF s = side /\ j = i THEN Queued(b, s, j) \cup {n}
                               ELSE Queued(b, s, j)
  BY <1>2, <1>6, <1>7, <1>8, <1>d DEF Queued
<1>10. IndexOK(c)
  <2>1. ASSUME NEW x \in OrderIds, c.index[x] # InvalidNode
        PROVE  c.nodes[c.index[x]].id = x
    <3>1. CASE x = id
      BY <1>5, <1>6, <1>t, <3>1
    <3>2. CASE x # id
      <4>1. c.index[x] = b.index[x] /\ b.index[x] \in Nodes
        BY <1>5, <1>t, <2>1, <3>2
      <4>2. b.nodes[b.index[x]].id = x
        BY <1>0, <2>1, <4>1 DEF IndexOK
      <4>3. b.index[x] \in Live(b)
        BY <4>1, <4>2, InputAssumption DEF Live
      <4> QED
        BY <1>2, <1>8, <4>1, <4>2, <4>3
    <3> QED
      BY <3>1, <3>2
  <2>2. ASSUME NEW m \in Live(c) PROVE c.index[c.nodes[m].id] = m
    <3>1. CASE m = n
      BY <1>5, <1>6, <1>t, <3>1
    <3>2. CASE m # n
      <4>1. m \in Live(b) /\ c.nodes[m].id = b.nodes[m].id
        BY <1>2, <1>7, <1>8, <3>2
      <4>2. b.index[b.nodes[m].id] = m /\ b.nodes[m].id \in OrderIds
        BY <1>0, <1>t, <1>8, <4>1 DEF IndexOK, OrderNode, Live
      <4>3. b.nodes[m].id # id
        BY <1>8, <4>1, <4>2, NodesFinite
      <4> QED
        BY <1>5, <1>t, <4>1, <4>2, <4>3
    <3> QED
      BY <3>1, <3>2
  <2> QED
    BY <2>1, <2>2 DEF IndexOK
<1>11. FreeOK(c)
  <2>0. Len(c.free) = Len(b.free) - 1 /\ Len(b.free) \in Nat \ {0} /\ n = b.free[Len(b.free)]
    BY <1>1, <1>3 DEF n
  <2>1. ASSUME NEW m \in Nodes
        PROVE  m \notin Live(c) <=> \E k \in 1 .. Len(c.free) : c.free[k] = m
    <3>1. ASSUME m \notin Live(c) PROVE \E k \in 1 .. Len(c.free) : c.free[k] = m
      <4>1. PICK k \in 1 .. Len(b.free) : b.free[k] = m
        BY <1>0, <1>7, <3>1 DEF FreeOK
      <4>2. k # Len(b.free)
        BY <1>7, <2>0, <3>1, <4>1
      <4>3. k \in 1 .. Len(b.free) - 1
        BY <2>0, <4>2
      <4> QED
        BY <1>3, <2>0, <4>1, <4>3
    <3>2. ASSUME NEW k \in 1 .. Len(c.free), c.free[k] = m PROVE m \notin Live(c)
      <4>1. k \in 1 .. Len(b.free) /\ b.free[k] = m /\ k # Len(b.free)
            /\ Len(b.free) \in 1 .. Len(b.free)
        BY <1>3, <2>0, <3>2
      <4>2. m \notin Live(b) /\ m # n
        BY <1>0, <2>0, <4>1 DEF FreeOK
      <4> QED
        BY <1>7, <4>2
    <3> QED
      BY <3>1, <3>2
  <2>2. ASSUME NEW k \in 1 .. Len(c.free), NEW l \in 1 .. Len(c.free), c.free[k] = c.free[l]
        PROVE  k = l
    BY <1>0, <1>3, <2>0, <2>2 DEF FreeOK
  <2>3. c.resting = Cardinality(Live(c))
    <3>1. Cardinality(Live(b) \cup {n}) = Cardinality(Live(b)) + 1
      BY <1>n, LiveFinite, FS_AddElement
    <3> QED
      BY <1>0, <1>5, <1>7, <3>1 DEF FreeOK
  <2> QED
    BY <2>1, <2>2, <2>3 DEF FreeOK
<1>12. OrdersOK(c)
  <2>1. ASSUME NEW m \in Live(c) PROVE ValidPrice(c.nodes[m].price)
    <3>1. CASE m = n
      BY <1>6, <3>1
    <3>2. CASE m # n
      BY <1>0, <1>2, <1>7, <1>8, <3>2 DEF OrdersOK
    <3> QED
      BY <3>1, <3>2
  <2>2. ASSUME NEW m \in Live(c), NEW l \in Live(c), c.nodes[m].priority = c.nodes[l].priority
        PROVE  m = l
    BY <1>0, <1>2, <1>6, <1>7, <1>8, <1>t, <2>2 DEF OrdersOK
  <2> QED
    BY <2>1, <2>2 DEF OrdersOK
<1>13. /\ \A m \in Live(b) : /\ c.nodes[m].priority = b.nodes[m].priority
                             /\ b.nodes[m].priority \in Nat /\ b.nodes[m].priority < priority
                             /\ c.nodes[m].previous = b.nodes[m].previous
                             /\ c.nodes[m].next = IF m = tail THEN n ELSE b.nodes[m].next
       /\ \A l, m \in Live(b) : SameQueue(c, l, m) <=> SameQueue(b, l, m)
       /\ \A m \in Live(b) : /\ SameQueue(c, m, n) <=> m \in Queued(b, side, i)
                             /\ SameQueue(c, n, m) <=> m \in Queued(b, side, i)
       /\ SameQueue(c, n, n)
  BY <1>2, <1>6, <1>8, <1>d, <1>t DEF SameQueue, Queued
<1>14. IF Queued(b, side, i) = {} THEN tail = InvalidNode
       ELSE /\ tail \in Queued(b, side, i) /\ tail \in Live(b) /\ tail # InvalidNode
            /\ \A m \in Queued(b, side, i) : b.nodes[m].priority <= b.nodes[tail].priority
  BY <1>0, <1>1, <1>d, NodesFinite, LiveFinite DEF EndsOK
<1>15. ASSUME NEW l \in Live(b), NEW m \in Queued(b, side, i)
       PROVE  SameQueue(b, l, m) <=> l \in Queued(b, side, i)
  BY DEF SameQueue, Queued
<1>i. InvalidNode \notin Nodes /\ n \in Nodes /\ n # InvalidNode /\ Live(b) \subseteq Nodes
  BY <1>1, NodesFinite, LiveFinite
<1>16. NextOK(c)
  <2> SUFFICES ASSUME NEW m \in Live(c)
               PROVE  LET next == c.nodes[m].next IN
                 IF next = InvalidNode
                 THEN \A l \in Live(c) : SameQueue(c, l, m) => c.nodes[l].priority <= c.nodes[m].priority
                 ELSE /\ next \in Live(c) /\ SameQueue(c, next, m)
                      /\ c.nodes[m].priority < c.nodes[next].priority
                      /\ \A l \in Live(c) : SameQueue(c, l, m) =>
                           \/ c.nodes[l].priority <= c.nodes[m].priority
                           \/ c.nodes[next].priority <= c.nodes[l].priority
    BY DEF NextOK
  <2>1. CASE m = n
    <3>1. c.nodes[m].next = InvalidNode /\ c.nodes[m].priority = priority
      BY <1>6, <2>1
    <3>2. \A l \in Live(c) : c.nodes[l].priority <= priority
      BY <1>6, <1>7, <1>13
    <3> QED
      BY <3>1, <3>2
  <2>2. CASE m # n /\ m = tail
    <3>1. m \in Live(b) /\ m \in Queued(b, side, i)
          /\ \A l \in Queued(b, side, i) : b.nodes[l].priority <= b.nodes[m].priority
      BY <1>7, <1>14, <1>i, <2>2
    <3>2. c.nodes[m].next = n /\ n \in Live(c) /\ SameQueue(c, n, m)
          /\ c.nodes[m].priority < c.nodes[n].priority
      BY <1>6, <1>7, <1>13, <2>2, <3>1
    <3>3. ASSUME NEW l \in Live(c), SameQueue(c, l, m)
          PROVE  \/ c.nodes[l].priority <= c.nodes[m].priority
                 \/ c.nodes[n].priority <= c.nodes[l].priority
      BY <1>6, <1>7, <1>13, <1>15, <3>1, <3>3
    <3> QED
      BY <1>i, <3>2, <3>3
  <2>3. CASE m # n /\ m # tail
    <3>1. m \in Live(b) /\ c.nodes[m].next = b.nodes[m].next
          /\ c.nodes[m].priority = b.nodes[m].priority
      BY <1>7, <1>13, <2>3
    <3>2. CASE b.nodes[m].next = InvalidNode
      <4>1. \A l \in Live(b) : SameQueue(b, l, m) => b.nodes[l].priority <= b.nodes[m].priority
        BY <1>0, <3>1, <3>2 DEF NextOK
      <4>2. ~SameQueue(c, n, m)
        <5> SUFFICES ASSUME m \in Queued(b, side, i) PROVE FALSE
          BY <1>13, <3>1
        <5>1. tail \in Live(b) /\ tail \in Queued(b, side, i)
              /\ b.nodes[m].priority <= b.nodes[tail].priority
          BY <1>14
        <5>2. b.nodes[tail].priority <= b.nodes[m].priority
          BY <1>15, <4>1, <5>1
        <5>3. b.nodes[m].priority = b.nodes[tail].priority
          BY <1>13, <3>1, <5>1, <5>2
        <5> QED
          BY <1>0, <2>3, <3>1, <5>1, <5>3 DEF OrdersOK
      <4> QED
        BY <1>7, <1>13, <3>1, <3>2, <4>1, <4>2
    <3>3. CASE b.nodes[m].next # InvalidNode
      <4> DEFINE x == b.nodes[m].next
      <4>1. /\ x \in Live(b) /\ SameQueue(b, x, m) /\ b.nodes[m].priority < b.nodes[x].priority
            /\ \A l \in Live(b) : SameQueue(b, l, m) =>
              \/ b.nodes[l].priority <= b.nodes[m].priority
              \/ b.nodes[x].priority <= b.nodes[l].priority
        BY <1>0, <3>1, <3>3 DEF NextOK
      <4> HIDE DEF x
      <4>2. x \in Live(c) /\ SameQueue(c, x, m) /\ c.nodes[m].priority < c.nodes[x].priority
        BY <1>8, <1>13, <3>1, <4>1
      <4>3. ASSUME NEW l \in Live(c), SameQueue(c, l, m)
            PROVE  \/ c.nodes[l].priority <= c.nodes[m].priority
                   \/ c.nodes[x].priority <= c.nodes[l].priority
        BY <1>6, <1>7, <1>13, <3>1, <4>1, <4>3
      <4> QED
        BY <3>1, <3>3, <4>2, <4>3 DEF x
    <3> QED
      BY <3>2, <3>3
  <2> QED
    BY <2>1, <2>2, <2>3
<1>17. PreviousOK(c)
  <2> SUFFICES ASSUME NEW m \in Live(c)
               PROVE  LET previous == c.nodes[m].previous IN
                 IF previous = InvalidNode
                 THEN \A l \in Live(c) : SameQueue(c, l, m) => c.nodes[m].priority <= c.nodes[l].priority
                 ELSE /\ previous \in Live(c) /\ SameQueue(c, previous, m)
                      /\ c.nodes[previous].priority < c.nodes[m].priority
                      /\ \A l \in Live(c) : SameQueue(c, l, m) =>
                           \/ c.nodes[m].priority <= c.nodes[l].priority
                           \/ c.nodes[l].priority <= c.nodes[previous].priority
    BY DEF PreviousOK
  <2>1. CASE m = n
    <3>1. c.nodes[m].previous = tail /\ c.nodes[m].priority = priority
      BY <1>6, <2>1
    <3>2. CASE tail = InvalidNode
      <4>1. Queued(b, side, i) = {}
        BY <1>14, <3>2
      <4> QED
        BY <1>6, <1>7, <1>13, <2>1, <3>1, <3>2, <4>1
    <3>3. CASE tail # InvalidNode
      <4>1. tail \in Live(b) /\ tail \in Queued(b, side, i)
            /\ \A l \in Queued(b, side, i) : b.nodes[l].priority <= b.nodes[tail].priority
        BY <1>14, <3>3
      <4>2. tail \in Live(c) /\ SameQueue(c, tail, m) /\ c.nodes[tail].priority < priority
        BY <1>8, <1>13, <2>1, <4>1
      <4>3. ASSUME NEW l \in Live(c), SameQueue(c, l, m)
            PROVE  priority <= c.nodes[l].priority \/ c.nodes[l].priority <= c.nodes[tail].priority
        BY <1>6, <1>7, <1>13, <2>1, <4>1, <4>3
      <4> QED
        BY <3>1, <3>3, <4>2, <4>3
    <3> QED
      BY <3>2, <3>3
  <2>2. CASE m # n
    <3>1. m \in Live(b) /\ c.nodes[m].previous = b.nodes[m].previous
          /\ c.nodes[m].priority = b.nodes[m].priority
      BY <1>7, <1>13, <2>2
    <3>2. CASE b.nodes[m].previous = InvalidNode
      <4>1. \A l \in Live(b) : SameQueue(b, l, m) => b.nodes[m].priority <= b.nodes[l].priority
        BY <1>0, <3>1, <3>2 DEF PreviousOK
      <4> QED
        BY <1>6, <1>7, <1>13, <3>1, <3>2, <4>1
    <3>3. CASE b.nodes[m].previous # InvalidNode
      <4> DEFINE x == b.nodes[m].previous
      <4>1. /\ x \in Live(b) /\ SameQueue(b, x, m) /\ b.nodes[x].priority < b.nodes[m].priority
            /\ \A l \in Live(b) : SameQueue(b, l, m) =>
              \/ b.nodes[m].priority <= b.nodes[l].priority
              \/ b.nodes[l].priority <= b.nodes[x].priority
        BY <1>0, <3>1, <3>3 DEF PreviousOK
      <4> HIDE DEF x
      <4>2. x \in Live(c) /\ SameQueue(c, x, m) /\ c.nodes[x].priority < c.nodes[m].priority
        BY <1>8, <1>13, <3>1, <4>1
      <4>3. ASSUME NEW l \in Live(c), SameQueue(c, l, m)
            PROVE  \/ c.nodes[m].priority <= c.nodes[l].priority
                   \/ c.nodes[l].priority <= c.nodes[x].priority
        BY <1>6, <1>7, <1>13, <3>1, <4>1, <4>3
      <4> QED
        BY <3>1, <3>3, <4>2, <4>3 DEF x
    <3> QED
      BY <3>2, <3>3
  <2> QED
    BY <2>1, <2>2
<1>18. EndsOK(c)
  <2> SUFFICES ASSUME NEW s \in Sides, NEW j \in Levels
               PROVE  LET level == c.levels[s][j]
                          queued == Queued(c, s, j) IN
                 IF queued = {} THEN level.head = InvalidNode /\ level.tail = InvalidNode
                 ELSE /\ level.head \in queued
                      /\ \A m \in queued : c.nodes[level.head].priority <= c.nodes[m].priority
                      /\ level.tail \in queued
                      /\ \A m \in queued : c.nodes[m].priority <= c.nodes[level.tail].priority
    BY DEF EndsOK
  <2> DEFINE old == b.levels[s][j]
  <2>0. IF Queued(b, s, j) = {} THEN old.head = InvalidNode /\ old.tail = InvalidNode
        ELSE /\ old.head \in Queued(b, s, j)
             /\ \A m \in Queued(b, s, j) : b.nodes[old.head].priority <= b.nodes[m].priority
             /\ old.tail \in Queued(b, s, j)
             /\ \A m \in Queued(b, s, j) : b.nodes[m].priority <= b.nodes[old.tail].priority
    BY <1>0 DEF EndsOK
  <2>q. Queued(b, s, j) \subseteq Live(b)
    BY LiveFinite
  <2>1. CASE ~(s = side /\ j = i)
    <3>1. c.levels[s][j] = old /\ Queued(c, s, j) = Queued(b, s, j)
      BY <1>4, <1>9, <2>1
    <3> HIDE DEF old
    <3> QED
      BY <1>13, <2>0, <2>q, <3>1
  <2>2. CASE s = side /\ j = i
    <3>1. c.levels[s][j] = Grown(old, n, quantity) /\ Queued(c, s, j) = Queued(b, s, j) \cup {n}
      BY <1>4, <1>9, <2>2
    <3>2. c.levels[s][j].tail = n
          /\ c.levels[s][j].head = IF old.tail = InvalidNode THEN n ELSE old.head
      BY <3>1 DEF Grown
    <3> HIDE DEF old
    <3>3. CASE Queued(b, s, j) = {}
      BY <1>6, <2>0, <3>1, <3>2, <3>3
    <3>4. CASE Queued(b, s, j) # {}
      <4>1. c.levels[s][j].head = old.head /\ old.head \in Queued(b, s, j)
        BY <1>i, <2>0, <2>q, <3>2, <3>4
      <4>2. ASSUME NEW m \in Queued(c, s, j)
            PROVE  /\ c.nodes[old.head].priority <= c.nodes[m].priority
                   /\ c.nodes[m].priority <= c.nodes[n].priority
        <5>1. CASE m = n
          BY <1>6, <1>13, <2>q, <4>1, <5>1
        <5>2. CASE m \in Queued(b, s, j)
          BY <1>6, <1>13, <2>0, <2>q, <3>4, <4>1, <5>2
        <5> QED
          BY <3>1, <5>1, <5>2
      <4> QED
        BY <3>1, <3>2, <4>1, <4>2
    <3> QED
      BY <3>3, <3>4
  <2> QED
    BY <2>1, <2>2
<1>q. \A s, j : /\ Queued(b, s, j) \subseteq Live(b) /\ IsFiniteSet(Queued(b, s, j))
               /\ Cardinality(Queued(b, s, j)) \in Nat /\ n \notin Queued(b, s, j)
  BY <1>n, LiveFinite
<1>19. CountsOK(c)
  <2> SUFFICES ASSUME NEW s \in Sides, NEW j \in Levels
               PROVE  c.levels[s][j].count = Cardinality(Queued(c, s, j))
    BY DEF CountsOK
  <2>0. b.levels[s][j].count = Cardinality(Queued(b, s, j))
    BY <1>0 DEF CountsOK
  <2>1. CASE ~(s = side /\ j = i)
    BY <1>4, <1>9, <2>0, <2>1
  <2>2. CASE s = side /\ j = i
    <3>0. c.levels[s][j] = Grown(b.levels[s][j], n, quantity)
      BY <1>4, <2>2
    <3>1. c.levels[s][j].count = b.levels[s][j].count + 1
      BY <3>0 DEF Grown
    <3>2. Cardinality(Queued(b, s, j) \cup {n}) = Cardinality(Queued(b, s, j)) + 1
      BY <1>q, FS_AddElement
    <3> QED
      BY <1>9, <2>0, <2>2, <3>1, <3>2
  <2> QED
    BY <2>1, <2>2
<1>20. TotalsOK(c)
  <2> SUFFICES ASSUME NEW s \in Sides, NEW j \in Levels
               PROVE  c.levels[s][j].total_quantity = Total(Quantity(c), Queued(c, s, j)) % QMod
    BY DEF TotalsOK
  <2> DEFINE Q == Queued(b, s, j)
  <2>0. b.levels[s][j].total_quantity = Total(Quantity(b), Q) % QMod
    BY <1>0 DEF TotalsOK
  <2>q. Q \in SUBSET Nodes /\ n \notin Q /\ Q \subseteq Live(b)
    BY <1>q, LiveFinite
  <2>t. \A x \in Q : Quantity(c)[x] = Quantity(b)[x]
    BY <1>2, <1>8, <2>q DEF Quantity
  <2> HIDE DEF Q
  <2>1. Total(Quantity(c), Q) = Total(Quantity(b), Q) /\ Total(Quantity(b), Q) \in Nat
    <3>1. Total(Quantity(b), Q) \in Nat
      BY <1>0, <2>q, QuantityTyped
    <3> QED
      BY <2>t, <3>1, TotalSame
  <2>2. CASE ~(s = side /\ j = i)
    BY <1>4, <1>9, <2>0, <2>1, <2>2 DEF Q
  <2>3. CASE s = side /\ j = i
    <3>0. c.levels[s][j] = Grown(b.levels[s][j], n, quantity)
      BY <1>4, <2>3
    <3>1. c.levels[s][j].total_quantity = ((b.levels[s][j].total_quantity + quantity) % QMod)
      BY <3>0 DEF Grown
    <3>2. Total(Quantity(c), Q \cup {n}) = quantity + Total(Quantity(c), Q)
      <4> DEFINE S == Q \cup {n}
      <4>1. S \in SUBSET Nodes /\ n \in S /\ S \ {n} = Q
        BY <1>1, <2>q
      <4> HIDE DEF S
      <4>2. IsFiniteSet(S) /\ \A x \in S : Quantity(c)[x] \in Nat
        BY <1>1, <4>1, QuantityTyped
      <4>3. Quantity(c)[n] = quantity
        BY <1>1, <1>6 DEF Quantity
      <4>4. Total(Quantity(c), S) = Quantity(c)[n] + Total(Quantity(c), S \ {n})
        BY <4>1, <4>2, TotalRemove
      <4> QED
        BY <4>1, <4>3, <4>4 DEF S
    <3> DEFINE t == Total(Quantity(b), Q)
    <3>3. (((t % QMod) + quantity) % QMod) = ((t + quantity) % QMod)
      <4> HIDE DEF t
      <4>1. t \in Int /\ quantity \in Int /\ QMod \in Nat \ {0}
        BY <2>1, WidthAssumption DEF t
      <4> QED
        BY <4>1, RemainderOfSum
    <3>4. Queued(c, s, j) = Q \cup {n}
      BY <1>9, <2>3 DEF Q
    <3> QED
      BY <2>0, <2>1, <3>1, <3>2, <3>3, <3>4
  <2> QED
    BY <2>2, <2>3
<1>21. BitsOK(c)
  <2>b. /\ \A s \in Sides, j \in Levels :
             (j % WordBits) \in b.bits[s][j \div WordBits] <=> Queued(b, s, j) # {}
        /\ \A s \in Sides, w \in Words : \A k \in b.bits[s][w] : w * WordBits + k \in Levels
    BY <1>0 DEF BitsOK
  <2>e. b.levels[side][i].count = 0 <=> Queued(b, side, i) = {}
    BY <1>0, <1>1, <1>q, FS_EmptySet DEF CountsOK
  <2>q. \A s \in Sides, j \in Levels : Queued(c, s, j) # {} <=> (s = side /\ j = i) \/ Queued(b, s, j) # {}
    BY <1>9
  <2>1. CASE Queued(b, side, i) # {}
    <3>1. c.bits = b.bits
      BY <1>5, <2>e, <2>1
    <3>2. \A s \in Sides, j \in Levels : Queued(c, s, j) # {} <=> Queued(b, s, j) # {}
      BY <2>1, <2>q
    <3> QED
      BY <2>b, <3>1, <3>2 DEF BitsOK
  <2>2. CASE Queued(b, side, i) = {}
    <3>1. c.bits = SetActive(b.bits, side, i)
      BY <1>5, <2>e, <2>2
    <3> DEFINE bits == SetActive(b.bits, side, i)
    <3>r. /\ \A s \in Sides, j \in Levels :
               (j % WordBits) \in bits[s][j \div WordBits]
                 <=> (s = side /\ j = i) \/ (j % WordBits) \in b.bits[s][j \div WordBits]
          /\ \A s \in Sides, w \in Words :
               \A k \in bits[s][w] : k \in b.bits[s][w] \/ w * WordBits + k = i
      BY <1>1, <1>t, BitsUpdated
    <3> HIDE DEF bits
    <3>2. \A s \in Sides, j \in Levels :
            (j % WordBits) \in c.bits[s][j \div WordBits]
              <=> (s = side /\ j = i) \/ (j % WordBits) \in b.bits[s][j \div WordBits]
      BY <3>1, <3>r, Zenon DEF bits
    <3>3. \A s \in Sides, w \in Words :
            \A k \in c.bits[s][w] : k \in b.bits[s][w] \/ w * WordBits + k = i
      BY <3>1, <3>r, Zenon DEF bits
    <3>4. \A s \in Sides, j \in Levels :
            (j % WordBits) \in c.bits[s][j \div WordBits] <=> Queued(c, s, j) # {}
      BY <2>b, <2>q, <3>2, Zenon
    <3>5. \A s \in Sides, w \in Words : \A k \in c.bits[s][w] : w * WordBits + k \in Levels
      BY <1>1, <2>b, <3>3, Zenon
    <3> QED
      BY <3>4, <3>5, Zenon DEF BitsOK
  <2> QED
    BY <2>1, <2>2
<1>22. Sound(c)
  BY <1>1, <1>10, <1>11, <1>12, <1>16, <1>17, <1>18, <1>19, <1>20, <1>21 DEF Sound
<1>23. \A m \in Live(b) : OrderAt(c, m) = OrderAt(b, m)
  BY <1>2, <1>8 DEF OrderAt
<1>24. OrderAt(c, n) = [order_id |-> id, side |-> side, price |-> price,
                        quantity |-> quantity, priority |-> priority]
  BY <1>6 DEF OrderAt
<1> QED
  BY <1>i, <1>n, <1>5, <1>7, <1>22, <1>23, <1>24 DEF n, c

-----------------------------------------------------------------------------
(* remove_node. *)

(* What remove_node changes, container by container. *)
Removed(b, c, n) ==
  LET node == b.nodes[n]
      i == PriceIndex(node.price) IN
  /\ node.side \in Sides /\ i \in Levels
  /\ c \in BookType
  /\ c.nodes[n].id = NoOrder
  /\ \A m \in Nodes \ {n} :
       /\ c.nodes[m].id = b.nodes[m].id
       /\ c.nodes[m].price = b.nodes[m].price
       /\ c.nodes[m].remaining = b.nodes[m].remaining
       /\ c.nodes[m].priority = b.nodes[m].priority
       /\ c.nodes[m].side = b.nodes[m].side
       /\ c.nodes[m].previous = IF m = node.next THEN node.previous ELSE b.nodes[m].previous
       /\ c.nodes[m].next = IF m = node.previous THEN node.next ELSE b.nodes[m].next
  /\ c.free = Append(b.free, n)
  /\ \A s \in Sides, j \in Levels :
       c.levels[s][j] = IF s = node.side /\ j = i THEN Shrunk(b.levels[s][j], node)
                        ELSE b.levels[s][j]
  /\ c.bits = IF b.levels[node.side][i].count = 1 THEN ClearActive(b.bits, node.side, i)
              ELSE b.bits
  /\ c.index = [b.index EXCEPT ![node.id] = InvalidNode]
  /\ c.resting = b.resting - 1

(* A live node is counted, by the book and by its level. *)
LEMMA LiveCounted ==
  ASSUME NEW b, Sound(b), NEW n \in Live(b)
  PROVE  /\ n \in Nodes /\ b.nodes[n] \in OrderNode /\ b.nodes[n].id \in OrderIds
         /\ ValidPrice(b.nodes[n].price)
         /\ b.nodes[n].side \in Sides /\ PriceIndex(b.nodes[n].price) \in Levels
         /\ b.levels[b.nodes[n].side][PriceIndex(b.nodes[n].price)].count \in Nat \ {0}
         /\ b.resting \in Nat \ {0}
         /\ n \in Queued(b, b.nodes[n].side, PriceIndex(b.nodes[n].price))
<1>1. n \in Nodes /\ b.nodes[n] \in OrderNode /\ b.nodes[n].id # NoOrder
  BY DEF Live, Sound, BookType
<1>2. b.nodes[n].id \in OrderIds /\ b.nodes[n].side \in Sides /\ b.nodes[n].price \in Int
  BY <1>1 DEF OrderNode
<1>3. ValidPrice(b.nodes[n].price)
  BY DEF Sound, OrdersOK
<1>4. PriceIndex(b.nodes[n].price) \in Levels
  BY <1>2, <1>3, PriceToLevel
<1> DEFINE s == b.nodes[n].side
           j == PriceIndex(b.nodes[n].price)
<1>5. n \in Queued(b, s, j)
  BY DEF Queued
<1>6. b.levels[s][j].count = Cardinality(Queued(b, s, j)) /\ b.resting = Cardinality(Live(b))
  BY <1>2, <1>4 DEF Sound, CountsOK, FreeOK
<1> HIDE DEF s, j
<1>7. Cardinality(Queued(b, s, j)) \in Nat \ {0} /\ Cardinality(Live(b)) \in Nat \ {0}
  BY <1>5, LiveFinite, FS_EmptySet, SMTT(30)
<1> QED
  BY <1>1, <1>2, <1>3, <1>4, <1>5, <1>6, <1>7 DEF s, j

(* remove_node changes what Removed says. *)
LEMMA RemoveFrame ==
  ASSUME NEW b, Sound(b), NEW n \in Live(b)
  PROVE  Removed(b, RemoveNode(b, n), n)
<1> DEFINE node == b.nodes[n]
           side == node.side
           i == PriceIndex(node.price)
           level == b.levels[side][i]
           c == RemoveNode(b, n)
<1>1. /\ b.nodes \in [Nodes -> OrderNode] /\ b.free \in Seq(Nodes)
      /\ b.levels \in [Sides -> [Levels -> PriceLevel]]
      /\ b.bits \in [Sides -> [Words -> SUBSET (0 .. WordBits - 1)]]
      /\ b.index \in [OrderIds -> Nodes \cup {InvalidNode}] /\ b.resting \in Nat
  BY DEF Sound, BookType
<1>2. /\ n \in Nodes /\ node \in OrderNode /\ node.id \in OrderIds
      /\ side \in Sides /\ i \in Levels
      /\ level.count \in Nat \ {0} /\ b.resting \in Nat \ {0}
  BY LiveCounted
<1>3. /\ c.nodes = Unlinked(b.nodes, n)
      /\ c.free = Append(b.free, n)
      /\ c.levels = [b.levels EXCEPT ![side][i] = Shrunk(@, node)]
      /\ c.bits = IF level.count = 1 THEN ClearActive(b.bits, side, i) ELSE b.bits
      /\ c.index = [b.index EXCEPT ![node.id] = InvalidNode]
      /\ c.resting = b.resting - 1
      /\ c = [nodes |-> c.nodes, free |-> c.free, levels |-> c.levels, bits |-> c.bits,
              index |-> c.index, resting |-> c.resting]
  BY DEF RemoveNode
<1>n. /\ node = b.nodes[n] /\ node.next \in Nodes \cup {InvalidNode}
      /\ node.previous \in Nodes \cup {InvalidNode} /\ node.remaining \in Nat
  BY <1>2 DEF OrderNode
<1>l. level \in PriceLevel
  BY <1>1, <1>2
<1> HIDE DEF node, side, i, level, c
<1>4. /\ c.nodes[n] = FreshNode
      /\ \A m \in Nodes \ {n} : c.nodes[m] =
           [b.nodes[m] EXCEPT
             !.next = IF m = node.previous THEN node.next ELSE @,
             !.previous = IF m = node.next THEN node.previous ELSE @]
  BY <1>2, <1>3 DEF Unlinked, node
<1>5. \A m \in Nodes \ {n} :
       /\ c.nodes[m].id = b.nodes[m].id
       /\ c.nodes[m].price = b.nodes[m].price
       /\ c.nodes[m].remaining = b.nodes[m].remaining
       /\ c.nodes[m].priority = b.nodes[m].priority
       /\ c.nodes[m].side = b.nodes[m].side
       /\ c.nodes[m].previous = IF m = node.next THEN node.previous ELSE b.nodes[m].previous
       /\ c.nodes[m].next = IF m = node.previous THEN node.next ELSE b.nodes[m].next
       /\ c.nodes[m] \in OrderNode
  <2> SUFFICES ASSUME NEW m \in Nodes \ {n}
      PROVE
       /\ c.nodes[m].id = b.nodes[m].id
       /\ c.nodes[m].price = b.nodes[m].price
       /\ c.nodes[m].remaining = b.nodes[m].remaining
       /\ c.nodes[m].priority = b.nodes[m].priority
       /\ c.nodes[m].side = b.nodes[m].side
       /\ c.nodes[m].previous = IF m = node.next THEN node.previous ELSE b.nodes[m].previous
       /\ c.nodes[m].next = IF m = node.previous THEN node.next ELSE b.nodes[m].next
       /\ c.nodes[m] \in OrderNode
    OBVIOUS
  <2>1. b.nodes[m] \in OrderNode
    BY <1>1
  <2>2. c.nodes[m] = [b.nodes[m] EXCEPT
             !.next = IF m = node.previous THEN node.next ELSE @,
             !.previous = IF m = node.next THEN node.previous ELSE @]
    BY <1>4
  <2> QED
    BY <1>n, <2>1, <2>2 DEF OrderNode
<1>6. c.nodes \in [Nodes -> OrderNode]
  <2>1. c.nodes = [m \in Nodes |-> c.nodes[m]]
    BY <1>3 DEF Unlinked
  <2>2. FreshNode \in OrderNode
    BY DEF FreshNode, OrderNode, Sides
  <2>3. \A m \in Nodes : c.nodes[m] \in OrderNode
    BY <1>4, <1>5, <2>2
  <2> QED
    BY <2>1, <2>3
<1>7. c.free \in Seq(Nodes)
  BY <1>1, <1>2, <1>3
<1>8. Shrunk(level, node) \in PriceLevel
  <2>1. QMod \in Nat \ {0}
    BY WidthAssumption
  <2>2. (level.total_quantity - node.remaining) \in Int /\ level.count - 1 \in Nat
    BY <1>2, <1>l, <1>n, <2>1 DEF PriceLevel
  <2>3. ((level.total_quantity - node.remaining) % QMod) \in 0 .. QMod - 1
    BY <2>1, <2>2, DivisionLaw
  <2> QED
    BY <1>l, <1>n, <2>2, <2>3 DEF Shrunk, PriceLevel
<1>9. c.levels \in [Sides -> [Levels -> PriceLevel]]
       /\ \A s \in Sides, j \in Levels :
              c.levels[s][j] = IF s = side /\ j = i THEN Shrunk(b.levels[s][j], node)
                               ELSE b.levels[s][j]
  BY <1>1, <1>2, <1>3, <1>8 DEF level
<1>10. c.bits \in [Sides -> [Words -> SUBSET (0 .. WordBits - 1)]]
  <2>1. ClearActive(b.bits, side, i) \in [Sides -> [Words -> SUBSET (0 .. WordBits - 1)]]
    BY <1>1, <1>2, BitsUpdated, Zenon
  <2> QED
    BY <1>1, <1>3, <2>1, Zenon
<1>11. c.index \in [OrderIds -> Nodes \cup {InvalidNode}] /\ c.resting \in Nat
  BY <1>1, <1>2, <1>3
<1>12. c \in BookType
  BY <1>3, <1>6, <1>7, <1>9, <1>10, <1>11 DEF BookType
<1>13. c.nodes[n].id = NoOrder
  <2>1. c.nodes[n] = FreshNode
    BY <1>4
  <2>2. FreshNode.id = NoOrder
    BY DEF FreshNode
  <2> QED
    BY <2>1, <2>2
<1> QED
  BY <1>2, <1>3, <1>5, <1>9, <1>12, <1>13, ZenonT(30) DEF node, i, side, level, c, Removed

(* remove_node keeps the containers consistent. *)
LEMMA RemoveSound ==
  ASSUME NEW b, Sound(b), NEW n \in Live(b)
  PROVE  LET c == RemoveNode(b, n) IN
         /\ Sound(c)
         /\ Live(c) = Live(b) \ {n}
         /\ \A m \in Live(c) : OrderAt(c, m) = OrderAt(b, m)
         /\ c.index = [b.index EXCEPT ![b.nodes[n].id] = InvalidNode]
         /\ c.free # <<>>
<1> DEFINE node == b.nodes[n]
           side == node.side
           i == PriceIndex(node.price)
           p == node.previous
           x == node.next
           c == RemoveNode(b, n)
<1>0. /\ b \in BookType /\ IndexOK(b) /\ FreeOK(b) /\ OrdersOK(b) /\ NextOK(b) /\ PreviousOK(b)
      /\ EndsOK(b) /\ CountsOK(b) /\ TotalsOK(b) /\ BitsOK(b)
  BY DEF Sound
<1>f. Removed(b, c, n)
  BY RemoveFrame, ZenonT(30)
<1>1. /\ n \in Nodes /\ side \in Sides /\ i \in Levels /\ node.id \in OrderIds
      /\ node \in OrderNode /\ c \in BookType
      /\ b.resting \in Nat \ {0} /\ b.levels[side][i].count \in Nat \ {0}
      /\ n \in Queued(b, side, i)
  BY <1>f, LiveCounted, ZenonT(30) DEF Removed
<1>2. /\ c.nodes[n].id = NoOrder
      /\ \A m \in Nodes \ {n} :
       /\ c.nodes[m].id = b.nodes[m].id
       /\ c.nodes[m].price = b.nodes[m].price
       /\ c.nodes[m].remaining = b.nodes[m].remaining
       /\ c.nodes[m].priority = b.nodes[m].priority
       /\ c.nodes[m].side = b.nodes[m].side
       /\ c.nodes[m].previous = IF m = x THEN p ELSE b.nodes[m].previous
       /\ c.nodes[m].next = IF m = p THEN x ELSE b.nodes[m].next
  BY <1>f DEF Removed
<1>3. /\ c.free = Append(b.free, n)
      /\ c.bits = IF b.levels[side][i].count = 1 THEN ClearActive(b.bits, side, i)
                  ELSE b.bits
      /\ c.index = [b.index EXCEPT ![node.id] = InvalidNode]
      /\ c.resting = b.resting - 1
  BY <1>f DEF Removed
<1>4. \A s \in Sides, j \in Levels :
        c.levels[s][j] = IF s = side /\ j = i THEN Shrunk(b.levels[s][j], node)
                         ELSE b.levels[s][j]
  BY <1>f DEF Removed
<1>t. /\ b.nodes \in [Nodes -> OrderNode] /\ \A m \in Nodes : b.nodes[m].priority \in Nat
      /\ b.index \in [OrderIds -> Nodes \cup {InvalidNode}] /\ b.resting \in Nat
      /\ b.levels \in [Sides -> [Levels -> PriceLevel]] /\ b.free \in Seq(Nodes)
      /\ b.bits \in [Sides -> [Words -> SUBSET (0 .. WordBits - 1)]]
  BY <1>0 DEF BookType, OrderNode
<1>d. /\ i = PriceIndex(b.nodes[n].price) /\ side = b.nodes[n].side /\ node.id = b.nodes[n].id
      /\ p = b.nodes[n].previous /\ x = b.nodes[n].next /\ node.remaining = b.nodes[n].remaining
  OBVIOUS
<1> HIDE DEF node, side, i, p, x, c
<1>7. Live(c) = Live(b) \ {n}
  BY <1>1, <1>2, InputAssumption DEF Live
<1>8. \A m \in Live(c) : m \in Nodes \ {n} /\ m \in Live(b)
  BY <1>7, LiveFinite
<1>9. ASSUME NEW s \in Sides, NEW j \in Levels
      PROVE  /\ Queued(c, s, j) = Queued(b, s, j) \ {n}
             /\ ~(s = side /\ j = i) => n \notin Queued(b, s, j)
  BY <1>2, <1>7, <1>8, <1>d DEF Queued
<1>i. InvalidNode \notin Nodes /\ n \in Nodes /\ Live(b) \subseteq Nodes
  BY <1>1, NodesFinite, LiveFinite
<1>10. IndexOK(c)
  <2>0. b.index[node.id] = n
    BY <1>0, <1>d DEF IndexOK
  <2>1. ASSUME NEW y \in OrderIds, c.index[y] # InvalidNode
        PROVE  c.nodes[c.index[y]].id = y
    <3>1. y # node.id /\ c.index[y] = b.index[y] /\ b.index[y] \in Nodes
      BY <1>1, <1>3, <1>t, <2>1
    <3>2. b.nodes[b.index[y]].id = y
      BY <1>0, <1>i, <3>1 DEF IndexOK
    <3>3. b.index[y] # n
      BY <1>d, <3>1, <3>2
    <3> QED
      BY <1>2, <3>1, <3>2, <3>3
  <2>2. ASSUME NEW m \in Live(c) PROVE c.index[c.nodes[m].id] = m
    <3>1. m \in Live(b) /\ m \in Nodes \ {n} /\ c.nodes[m].id = b.nodes[m].id
      BY <1>2, <1>8
    <3>2. b.index[b.nodes[m].id] = m /\ b.nodes[m].id \in OrderIds
      BY <1>0, <1>t, <3>1 DEF IndexOK, OrderNode, Live
    <3>3. b.nodes[m].id # node.id
      BY <2>0, <3>1, <3>2
    <3> QED
      BY <1>3, <1>t, <3>1, <3>2, <3>3
  <2> QED
    BY <2>1, <2>2 DEF IndexOK
<1>11. FreeOK(c)
  <2>0. /\ Len(c.free) = Len(b.free) + 1 /\ Len(b.free) \in Nat
        /\ c.free[Len(b.free) + 1] = n
        /\ \A k \in 1 .. Len(b.free) : c.free[k] = b.free[k]
    BY <1>1, <1>3, <1>t
  <2>f. /\ \A m \in Nodes : m \notin Live(b) <=> \E k \in 1 .. Len(b.free) : b.free[k] = m
        /\ \A k, l \in 1 .. Len(b.free) : b.free[k] = b.free[l] => k = l
        /\ b.resting = Cardinality(Live(b))
    BY <1>0 DEF FreeOK
  <2>1. ASSUME NEW m \in Nodes
        PROVE  m \notin Live(c) <=> \E k \in 1 .. Len(c.free) : c.free[k] = m
    <3>1. ASSUME m \notin Live(c) PROVE \E k \in 1 .. Len(c.free) : c.free[k] = m
      <4>1. CASE m = n
        BY <2>0, <4>1
      <4>2. CASE m # n
        <5>1. m \notin Live(b)
          BY <1>7, <3>1, <4>2
        <5>2. PICK k \in 1 .. Len(b.free) : b.free[k] = m
          BY <2>f, <5>1
        <5> QED
          BY <2>0, <5>2
      <4> QED
        BY <4>1, <4>2
    <3>2. ASSUME NEW k \in 1 .. Len(c.free), c.free[k] = m PROVE m \notin Live(c)
      <4>1. CASE k = Len(b.free) + 1
        BY <1>7, <2>0, <3>2, <4>1
      <4>2. CASE k # Len(b.free) + 1
        <5>1. k \in 1 .. Len(b.free) /\ b.free[k] = m
          BY <2>0, <3>2, <4>2
        <5> QED
          BY <1>7, <2>f, <5>1
      <4> QED
        BY <4>1, <4>2
    <3> QED
      BY <3>1, <3>2
  <2>2. ASSUME NEW k \in 1 .. Len(c.free), NEW l \in 1 .. Len(c.free), c.free[k] = c.free[l]
        PROVE  k = l
    <3>1. \A h \in 1 .. Len(b.free) : b.free[h] # n
      BY <1>1, <2>f
    <3> QED
      <4>1. CASE k = Len(b.free) + 1 \/ l = Len(b.free) + 1
        BY <2>0, <2>2, <3>1, <4>1, SMTT(30)
      <4>2. CASE k # Len(b.free) + 1 /\ l # Len(b.free) + 1
        <5>1. k \in 1 .. Len(b.free) /\ l \in 1 .. Len(b.free)
          BY <2>0, <4>2
        <5> QED
          BY <2>0, <2>2, <2>f, <5>1
      <4> QED
        BY <4>1, <4>2
  <2>3. c.resting = Cardinality(Live(c))
    <3>1. Cardinality(Live(b) \ {n}) = Cardinality(Live(b)) - 1
      <4>1. IsFiniteSet(Live(b)) /\ n \in Live(b)
        BY LiveFinite
      <4> QED
        BY <4>1, FS_RemoveElement, Zenon
    <3> QED
      BY <1>3, <1>7, <2>f, <3>1
  <2> QED
    BY <2>1, <2>2, <2>3 DEF FreeOK
<1>12. OrdersOK(c)
  <2>1. ASSUME NEW m \in Live(c) PROVE ValidPrice(c.nodes[m].price)
    BY <1>0, <1>2, <1>8 DEF OrdersOK
  <2>2. ASSUME NEW m \in Live(c), NEW l \in Live(c), c.nodes[m].priority = c.nodes[l].priority
        PROVE  m = l
    BY <1>0, <1>2, <1>8, <2>2 DEF OrdersOK
  <2> QED
    BY <2>1, <2>2 DEF OrdersOK
(* The neighbours of the node taken out. *)
<1>13. /\ \A m \in Live(c) : /\ c.nodes[m].priority = b.nodes[m].priority
                             /\ b.nodes[m].priority \in Nat
                             /\ b.nodes[m].priority # b.nodes[n].priority
                             /\ m = x => c.nodes[m].previous = p
                             /\ m # x => c.nodes[m].previous = b.nodes[m].previous
                             /\ m = p => c.nodes[m].next = x
                             /\ m # p => c.nodes[m].next = b.nodes[m].next
       /\ \A l, m \in Live(c) : SameQueue(c, l, m) <=> SameQueue(b, l, m)
       /\ b.nodes[n].priority \in Nat
  <2>1. ASSUME NEW m \in Live(c)
        PROVE  /\ c.nodes[m].priority = b.nodes[m].priority
               /\ b.nodes[m].priority \in Nat
               /\ m = x => c.nodes[m].previous = p
               /\ m # x => c.nodes[m].previous = b.nodes[m].previous
               /\ m = p => c.nodes[m].next = x
               /\ m # p => c.nodes[m].next = b.nodes[m].next
    BY <1>2, <1>8, <1>t
  <2>2. ASSUME NEW m \in Live(c) PROVE b.nodes[m].priority # b.nodes[n].priority
    BY <1>0, <1>8 DEF OrdersOK
  <2>3. ASSUME NEW l \in Live(c), NEW m \in Live(c) PROVE SameQueue(c, l, m) <=> SameQueue(b, l, m)
    BY <1>2, <1>8 DEF SameQueue
  <2>4. b.nodes[n].priority \in Nat
    BY <1>i, <1>t
  <2> QED
    BY <2>1, <2>2, <2>3, <2>4
<1>14. IF x = InvalidNode
       THEN \A m \in Live(b) : SameQueue(b, m, n) => b.nodes[m].priority <= b.nodes[n].priority
       ELSE /\ x \in Live(b) /\ x \in Live(c) /\ SameQueue(b, x, n)
            /\ b.nodes[n].priority < b.nodes[x].priority
            /\ \A m \in Live(b) : SameQueue(b, m, n) =>
              \/ b.nodes[m].priority <= b.nodes[n].priority
              \/ b.nodes[x].priority <= b.nodes[m].priority
  BY <1>0, <1>7, <1>13, <1>d DEF NextOK
<1>15. IF p = InvalidNode
       THEN \A m \in Live(b) : SameQueue(b, m, n) => b.nodes[n].priority <= b.nodes[m].priority
       ELSE /\ p \in Live(b) /\ p \in Live(c) /\ SameQueue(b, p, n)
            /\ b.nodes[p].priority < b.nodes[n].priority
            /\ \A m \in Live(b) : SameQueue(b, m, n) =>
              \/ b.nodes[n].priority <= b.nodes[m].priority
              \/ b.nodes[m].priority <= b.nodes[p].priority
  BY <1>0, <1>7, <1>13, <1>d DEF PreviousOK
<1>s. /\ \A l, m \in Live(b) : SameQueue(b, l, m) => SameQueue(b, m, l)
      /\ \A k, l, m \in Live(b) : SameQueue(b, k, l) /\ SameQueue(b, l, m) => SameQueue(b, k, m)
      /\ \A m \in Live(b) : SameQueue(b, m, n) <=> m \in Queued(b, side, i)
  BY <1>d DEF SameQueue, Queued
<1>16. NextOK(c)
  <2> SUFFICES ASSUME NEW m \in Live(c)
               PROVE  LET next == c.nodes[m].next IN
                 IF next = InvalidNode
                 THEN \A l \in Live(c) : SameQueue(c, l, m) => c.nodes[l].priority <= c.nodes[m].priority
                 ELSE /\ next \in Live(c) /\ SameQueue(c, next, m)
                      /\ c.nodes[m].priority < c.nodes[next].priority
                      /\ \A l \in Live(c) : SameQueue(c, l, m) =>
                           \/ c.nodes[l].priority <= c.nodes[m].priority
                           \/ c.nodes[next].priority <= c.nodes[l].priority
    BY DEF NextOK
  <2>1. CASE m = p
    <3>1. /\ m \in Live(b) /\ SameQueue(b, m, n) /\ SameQueue(b, n, m)
          /\ b.nodes[m].priority < b.nodes[n].priority
          /\ c.nodes[m].next = x
          /\ \A l \in Live(b) : SameQueue(b, l, n) =>
              \/ b.nodes[n].priority <= b.nodes[l].priority
              \/ b.nodes[l].priority <= b.nodes[m].priority
      BY <1>8, <1>13, <1>15, <1>i, <1>s, <2>1
    <3>2. ASSUME NEW l \in Live(c), SameQueue(c, l, m) PROVE l \in Live(b) /\ SameQueue(b, l, n)
      BY <1>8, <1>13, <1>s, <3>1, <3>2
    <3>3. CASE x = InvalidNode
      <4>1. ASSUME NEW l \in Live(c), SameQueue(c, l, m)
            PROVE  c.nodes[l].priority <= c.nodes[m].priority
        <5>1. b.nodes[l].priority <= b.nodes[n].priority
          BY <1>14, <3>2, <3>3, <4>1
        <5> QED
          BY <1>13, <3>1, <3>2, <4>1, <5>1
      <4> QED
        BY <3>1, <3>3, <4>1
    <3>4. CASE x # InvalidNode
      <4>1. x \in Live(c) /\ SameQueue(c, x, m) /\ c.nodes[m].priority < c.nodes[x].priority
        BY <1>13, <1>14, <1>s, <3>1, <3>4
      <4>2. ASSUME NEW l \in Live(c), SameQueue(c, l, m)
            PROVE  \/ c.nodes[l].priority <= c.nodes[m].priority
                   \/ c.nodes[x].priority <= c.nodes[l].priority
        <5>1. \/ b.nodes[l].priority <= b.nodes[n].priority
              \/ b.nodes[x].priority <= b.nodes[l].priority
          BY <1>14, <3>2, <3>4, <4>2
        <5> QED
          BY <1>13, <3>1, <3>2, <4>1, <4>2, <5>1
      <4> QED
        BY <3>1, <3>4, <4>1, <4>2
    <3> QED
      BY <3>3, <3>4
  <2>2. CASE m # p
    <3> DEFINE y == b.nodes[m].next
    <3>1. m \in Live(b) /\ c.nodes[m].next = y
      BY <1>8, <1>13, <2>2
    <3>2. IF y = InvalidNode
          THEN \A l \in Live(b) : SameQueue(b, l, m) => b.nodes[l].priority <= b.nodes[m].priority
          ELSE /\ y \in Live(b) /\ SameQueue(b, y, m)
               /\ b.nodes[m].priority < b.nodes[y].priority
               /\ \A l \in Live(b) : SameQueue(b, l, m) =>
                    \/ b.nodes[l].priority <= b.nodes[m].priority
                    \/ b.nodes[y].priority <= b.nodes[l].priority
      BY <1>0, <3>1 DEF NextOK
    <3> HIDE DEF y
    <3>3. y # n
      <4> SUFFICES ASSUME y = n PROVE FALSE
        OBVIOUS
      <4>1. /\ SameQueue(b, m, n) /\ b.nodes[m].priority < b.nodes[n].priority
            /\ \A l \in Live(b) : SameQueue(b, l, m) =>
                    \/ b.nodes[l].priority <= b.nodes[m].priority
                    \/ b.nodes[n].priority <= b.nodes[l].priority
        BY <1>i, <1>s, <3>1, <3>2
      <4>2. /\ p # InvalidNode /\ p \in Live(c) /\ p \in Live(b)
            /\ b.nodes[m].priority <= b.nodes[p].priority
            /\ b.nodes[p].priority < b.nodes[n].priority /\ SameQueue(b, p, m)
        BY <1>13, <1>15, <1>s, <3>1, <4>1
      <4>3. b.nodes[p].priority = b.nodes[m].priority
        BY <1>13, <4>1, <4>2
      <4> QED
        BY <1>0, <2>2, <3>1, <4>2, <4>3 DEF OrdersOK
    <3>4. CASE y = InvalidNode
      BY <1>8, <1>13, <3>1, <3>2, <3>4
    <3>5. CASE y # InvalidNode
      <4>1. y \in Live(c) /\ SameQueue(c, y, m) /\ c.nodes[m].priority < c.nodes[y].priority
        BY <1>7, <1>13, <3>1, <3>2, <3>3, <3>5
      <4>2. ASSUME NEW l \in Live(c), SameQueue(c, l, m)
            PROVE  \/ c.nodes[l].priority <= c.nodes[m].priority
                   \/ c.nodes[y].priority <= c.nodes[l].priority
        BY <1>8, <1>13, <3>1, <3>2, <3>5, <4>1, <4>2
      <4> QED
        BY <3>1, <3>5, <4>1, <4>2
    <3> QED
      BY <3>4, <3>5
  <2> QED
    BY <2>1, <2>2
<1>17. PreviousOK(c)
  <2> SUFFICES ASSUME NEW m \in Live(c)
               PROVE  LET previous == c.nodes[m].previous IN
                 IF previous = InvalidNode
                 THEN \A l \in Live(c) : SameQueue(c, l, m) => c.nodes[m].priority <= c.nodes[l].priority
                 ELSE /\ previous \in Live(c) /\ SameQueue(c, previous, m)
                      /\ c.nodes[previous].priority < c.nodes[m].priority
                      /\ \A l \in Live(c) : SameQueue(c, l, m) =>
                           \/ c.nodes[m].priority <= c.nodes[l].priority
                           \/ c.nodes[l].priority <= c.nodes[previous].priority
    BY DEF PreviousOK
  <2>1. CASE m = x
    <3>1. /\ m \in Live(b) /\ SameQueue(b, m, n) /\ SameQueue(b, n, m)
          /\ b.nodes[n].priority < b.nodes[m].priority
          /\ c.nodes[m].previous = p
          /\ \A l \in Live(b) : SameQueue(b, l, n) =>
              \/ b.nodes[l].priority <= b.nodes[n].priority
              \/ b.nodes[m].priority <= b.nodes[l].priority
      BY <1>8, <1>13, <1>14, <1>i, <1>s, <2>1
    <3>2. ASSUME NEW l \in Live(c), SameQueue(c, l, m) PROVE l \in Live(b) /\ SameQueue(b, l, n)
      BY <1>8, <1>13, <1>s, <3>1, <3>2
    <3>3. CASE p = InvalidNode
      <4>1. ASSUME NEW l \in Live(c), SameQueue(c, l, m)
            PROVE  c.nodes[m].priority <= c.nodes[l].priority
        <5>1. b.nodes[n].priority <= b.nodes[l].priority
          BY <1>15, <3>2, <3>3, <4>1
        <5> QED
          BY <1>13, <3>1, <3>2, <4>1, <5>1
      <4> QED
        BY <3>1, <3>3, <4>1
    <3>4. CASE p # InvalidNode
      <4>1. p \in Live(c) /\ SameQueue(c, p, m) /\ c.nodes[p].priority < c.nodes[m].priority
        BY <1>13, <1>15, <1>s, <3>1, <3>4
      <4>2. ASSUME NEW l \in Live(c), SameQueue(c, l, m)
            PROVE  \/ c.nodes[m].priority <= c.nodes[l].priority
                   \/ c.nodes[l].priority <= c.nodes[p].priority
        <5>1. \/ b.nodes[n].priority <= b.nodes[l].priority
              \/ b.nodes[l].priority <= b.nodes[p].priority
          BY <1>15, <3>2, <3>4, <4>2
        <5> QED
          BY <1>13, <3>1, <3>2, <4>1, <4>2, <5>1
      <4> QED
        BY <3>1, <3>4, <4>1, <4>2
    <3> QED
      BY <3>3, <3>4
  <2>2. CASE m # x
    <3> DEFINE y == b.nodes[m].previous
    <3>1. m \in Live(b) /\ c.nodes[m].previous = y
      BY <1>8, <1>13, <2>2
    <3>2. IF y = InvalidNode
          THEN \A l \in Live(b) : SameQueue(b, l, m) => b.nodes[m].priority <= b.nodes[l].priority
          ELSE /\ y \in Live(b) /\ SameQueue(b, y, m)
               /\ b.nodes[y].priority < b.nodes[m].priority
               /\ \A l \in Live(b) : SameQueue(b, l, m) =>
                    \/ b.nodes[m].priority <= b.nodes[l].priority
                    \/ b.nodes[l].priority <= b.nodes[y].priority
      BY <1>0, <3>1 DEF PreviousOK
    <3> HIDE DEF y
    <3>3. y # n
      <4> SUFFICES ASSUME y = n PROVE FALSE
        OBVIOUS
      <4>1. /\ SameQueue(b, m, n) /\ b.nodes[n].priority < b.nodes[m].priority
            /\ \A l \in Live(b) : SameQueue(b, l, m) =>
                    \/ b.nodes[m].priority <= b.nodes[l].priority
                    \/ b.nodes[l].priority <= b.nodes[n].priority
        BY <1>i, <1>s, <3>1, <3>2
      <4>2. /\ x # InvalidNode /\ x \in Live(c) /\ x \in Live(b)
            /\ b.nodes[x].priority <= b.nodes[m].priority
            /\ b.nodes[n].priority < b.nodes[x].priority /\ SameQueue(b, x, m)
        BY <1>13, <1>14, <1>s, <3>1, <4>1
      <4>3. b.nodes[x].priority = b.nodes[m].priority
        BY <1>13, <4>1, <4>2
      <4> QED
        BY <1>0, <2>2, <3>1, <4>2, <4>3 DEF OrdersOK
    <3>4. CASE y = InvalidNode
      BY <1>8, <1>13, <3>1, <3>2, <3>4
    <3>5. CASE y # InvalidNode
      <4>1. y \in Live(c) /\ SameQueue(c, y, m) /\ c.nodes[y].priority < c.nodes[m].priority
        BY <1>7, <1>13, <3>1, <3>2, <3>3, <3>5
      <4>2. ASSUME NEW l \in Live(c), SameQueue(c, l, m)
            PROVE  \/ c.nodes[m].priority <= c.nodes[l].priority
                   \/ c.nodes[l].priority <= c.nodes[y].priority
        BY <1>8, <1>13, <3>1, <3>2, <3>5, <4>1, <4>2
      <4> QED
        BY <3>1, <3>5, <4>1, <4>2
    <3> QED
      BY <3>4, <3>5
  <2> QED
    BY <2>1, <2>2
<1>q. \A s, j : Queued(b, s, j) \subseteq Live(b) /\ IsFiniteSet(Queued(b, s, j))
                /\ Cardinality(Queued(b, s, j)) \in Nat
  BY LiveFinite
<1>18. EndsOK(c)
  <2> SUFFICES ASSUME NEW s \in Sides, NEW j \in Levels
               PROVE  LET level == c.levels[s][j]
                          queued == Queued(c, s, j) IN
                 IF queued = {} THEN level.head = InvalidNode /\ level.tail = InvalidNode
                 ELSE /\ level.head \in queued
                      /\ \A m \in queued : c.nodes[level.head].priority <= c.nodes[m].priority
                      /\ level.tail \in queued
                      /\ \A m \in queued : c.nodes[m].priority <= c.nodes[level.tail].priority
    BY DEF EndsOK
  <2> DEFINE old == b.levels[s][j]
             Q == Queued(b, s, j)
             R == Queued(c, s, j)
  <2>0. IF Q = {} THEN old.head = InvalidNode /\ old.tail = InvalidNode
        ELSE /\ old.head \in Q
             /\ \A m \in Q : b.nodes[old.head].priority <= b.nodes[m].priority
             /\ old.tail \in Q
             /\ \A m \in Q : b.nodes[m].priority <= b.nodes[old.tail].priority
    BY <1>0 DEF EndsOK
  <2>q. Q \subseteq Live(b) /\ R = Q \ {n} /\ R \subseteq Live(c)
    BY <1>9, <1>q, LiveFinite
  <2>1. CASE ~(s = side /\ j = i)
    <3>1. c.levels[s][j] = old /\ R = Q
      BY <1>4, <1>9, <2>1
    <3> HIDE DEF old, Q
    <3>2. \A m \in Q : c.nodes[m].priority = b.nodes[m].priority
      BY <1>13, <2>q, <3>1
    <3>3. CASE Q = {}
      BY <2>0, <3>1, <3>3
    <3>4. CASE Q # {}
      BY <2>0, <3>1, <3>2, <3>4
    <3> QED
      BY <3>3, <3>4
  <2>2. CASE s = side /\ j = i
    <3>1. c.levels[s][j] = Shrunk(old, node) /\ n \in Q
      BY <1>1, <1>4, <2>2
    <3>2. /\ c.levels[s][j].tail = IF x = InvalidNode THEN p ELSE old.tail
          /\ c.levels[s][j].head = IF p = InvalidNode THEN x ELSE old.head
      BY <3>1 DEF Shrunk, p, x
    <3>3. \A m \in Live(b) : SameQueue(b, m, n) <=> m \in Q
      BY <1>s, <2>2
    <3> HIDE DEF old, Q, R
    <3>4. /\ x # InvalidNode => x \in R
          /\ p # InvalidNode => p \in R
      BY <1>14, <1>15, <1>8, <2>q, <3>3
    <3>5. CASE R = {}
      BY <3>2, <3>4, <3>5 DEF R
    <3>6. CASE R # {}
      <4> DEFINE h == IF p = InvalidNode THEN x ELSE old.head
                 t == IF x = InvalidNode THEN p ELSE old.tail
      <4>0. \A m \in R : /\ m \in Q /\ m \in Live(b) /\ m \in Live(c)
                         /\ c.nodes[m].priority = b.nodes[m].priority
                         /\ b.nodes[m].priority \in Nat
                         /\ b.nodes[m].priority # b.nodes[n].priority
        BY <1>13, <2>q
      <4>1. h \in R /\ \A m \in R : b.nodes[h].priority <= b.nodes[m].priority
        <5>1. CASE p = InvalidNode
          <6>1. \A m \in R : b.nodes[n].priority < b.nodes[m].priority
            BY <1>13, <1>15, <3>3, <4>0, <5>1
          <6>2. x # InvalidNode
            BY <1>13, <1>14, <3>3, <3>6, <4>0, <6>1
          <6>3. \A m \in R : b.nodes[x].priority <= b.nodes[m].priority
            <7> SUFFICES ASSUME NEW m \in R PROVE b.nodes[x].priority <= b.nodes[m].priority
              OBVIOUS
            <7>1. \/ b.nodes[m].priority <= b.nodes[n].priority
                  \/ b.nodes[x].priority <= b.nodes[m].priority
              BY <1>14, <3>3, <4>0, <6>2
            <7> QED
              BY <1>13, <4>0, <6>1, <7>1
          <6> QED
            BY <3>4, <5>1, <6>2, <6>3
        <5>2. CASE p # InvalidNode
          <6>1. p \in R /\ b.nodes[p].priority < b.nodes[n].priority
            BY <1>15, <3>4, <5>2
          <6>2. /\ old.head \in Q
                /\ \A m \in Q : b.nodes[old.head].priority <= b.nodes[m].priority
            BY <2>0, <3>1
          <6>3. old.head # n
            BY <1>13, <4>0, <6>1, <6>2
          <6> QED
            BY <2>q, <5>2, <6>2, <6>3
        <5> QED
          BY <5>1, <5>2
      <4>2. t \in R /\ \A m \in R : b.nodes[m].priority <= b.nodes[t].priority
        <5>1. CASE x = InvalidNode
          <6>1. \A m \in R : b.nodes[m].priority < b.nodes[n].priority
            BY <1>13, <1>14, <3>3, <4>0, <5>1
          <6>2. p # InvalidNode
            BY <1>13, <1>15, <3>3, <3>6, <4>0, <6>1
          <6>3. \A m \in R : b.nodes[m].priority <= b.nodes[p].priority
            <7> SUFFICES ASSUME NEW m \in R PROVE b.nodes[m].priority <= b.nodes[p].priority
              OBVIOUS
            <7>1. \/ b.nodes[n].priority <= b.nodes[m].priority
                  \/ b.nodes[m].priority <= b.nodes[p].priority
              BY <1>15, <3>3, <4>0, <6>2
            <7> QED
              BY <1>13, <4>0, <6>1, <7>1
          <6> QED
            BY <3>4, <5>1, <6>2, <6>3
        <5>2. CASE x # InvalidNode
          <6>1. x \in R /\ b.nodes[n].priority < b.nodes[x].priority
            BY <1>14, <3>4, <5>2
          <6>2. /\ old.tail \in Q
                /\ \A m \in Q : b.nodes[m].priority <= b.nodes[old.tail].priority
            BY <2>0, <3>1
          <6>3. old.tail # n
            BY <1>13, <4>0, <6>1, <6>2
          <6> QED
            BY <2>q, <5>2, <6>2, <6>3
        <5> QED
          BY <5>1, <5>2
      <4>3. c.levels[s][j].head = h /\ c.levels[s][j].tail = t
        BY <3>2
      <4> HIDE DEF h, t
      <4> QED
        BY <3>6, <4>0, <4>1, <4>2, <4>3 DEF R
    <3> QED
      BY <3>5, <3>6
  <2> QED
    BY <2>1, <2>2
<1>19. CountsOK(c)
  <2> SUFFICES ASSUME NEW s \in Sides, NEW j \in Levels
               PROVE  c.levels[s][j].count = Cardinality(Queued(c, s, j))
    BY DEF CountsOK
  <2>0. b.levels[s][j].count = Cardinality(Queued(b, s, j))
    BY <1>0 DEF CountsOK
  <2>1. CASE ~(s = side /\ j = i)
    <3>1. Queued(c, s, j) = Queued(b, s, j)
      BY <1>9, <2>1
    <3> QED
      BY <1>4, <2>0, <2>1, <3>1
  <2>2. CASE s = side /\ j = i
    <3>0. c.levels[s][j] = Shrunk(b.levels[s][j], node)
      BY <1>4, <2>2
    <3>1. c.levels[s][j].count = b.levels[s][j].count - 1
      BY <3>0 DEF Shrunk
    <3>2. Cardinality(Queued(b, s, j) \ {n}) = Cardinality(Queued(b, s, j)) - 1
      <4>1. IsFiniteSet(Queued(b, s, j)) /\ n \in Queued(b, s, j)
        BY <1>1, <1>q, <2>2
      <4> QED
        BY <4>1, FS_RemoveElement, Zenon
    <3> QED
      BY <1>9, <2>0, <2>2, <3>1, <3>2
  <2> QED
    BY <2>1, <2>2
<1>20. TotalsOK(c)
  <2> SUFFICES ASSUME NEW s \in Sides, NEW j \in Levels
               PROVE  c.levels[s][j].total_quantity = Total(Quantity(c), Queued(c, s, j)) % QMod
    BY DEF TotalsOK
  <2> DEFINE Q == Queued(b, s, j)
             R == Queued(c, s, j)
  <2>0. b.levels[s][j].total_quantity = Total(Quantity(b), Q) % QMod
    BY <1>0 DEF TotalsOK
  <2>q. Q \in SUBSET Nodes /\ R = Q \ {n} /\ R \in SUBSET Nodes
        /\ (~(s = side /\ j = i) => R = Q) /\ ((s = side /\ j = i) => n \in Q)
    <3>1. Q \in SUBSET Nodes
      BY <1>q, <1>i
    <3>2. R = Q \ {n} /\ (~(s = side /\ j = i) => n \notin Q)
      BY <1>9
    <3>3. (s = side /\ j = i) => n \in Q
      BY <1>1
    <3> HIDE DEF Q, R
    <3> QED
      BY <3>1, <3>2, <3>3
  <2>t. \A y \in R : Quantity(c)[y] = Quantity(b)[y]
    BY <1>2, <2>q DEF Quantity
  <2> HIDE DEF Q, R
  <2>1. Total(Quantity(c), R) = Total(Quantity(b), R) /\ Total(Quantity(b), R) \in Nat
    <3>1. Total(Quantity(b), R) \in Nat
      BY <1>0, <2>q, QuantityTyped
    <3> QED
      BY <2>t, <3>1, TotalSame
  <2>2. CASE ~(s = side /\ j = i)
    <3>1. c.levels[s][j] = b.levels[s][j]
      BY <1>4, <2>2
    <3>2. R = Q
      BY <2>2, <2>q
    <3>3. Total(Quantity(c), R) = Total(Quantity(b), Q)
      BY <2>1, <3>2
    <3> QED
      BY <2>0, <3>1, <3>3 DEF R
  <2>3. CASE s = side /\ j = i
    <3>0. c.levels[s][j] = Shrunk(b.levels[s][j], node)
      BY <1>4, <2>3
    <3>1. c.levels[s][j].total_quantity
            = ((b.levels[s][j].total_quantity - node.remaining) % QMod)
      BY <3>0 DEF Shrunk
    <3>2. Total(Quantity(b), Q) = node.remaining + Total(Quantity(b), R)
          /\ node.remaining \in Nat
      <4>1. n \in Q
        BY <2>3, <2>q
      <4>2. IsFiniteSet(Q) /\ (\A y \in Q : Quantity(b)[y] \in Nat)
            /\ Quantity(b)[n] = node.remaining
        BY <1>0, <1>d, <2>q, <4>1, QuantityTyped
      <4>3. Total(Quantity(b), Q) = Quantity(b)[n] + Total(Quantity(b), Q \ {n})
        BY <4>1, <4>2, TotalRemove
      <4> QED
        BY <2>q, <4>1, <4>2, <4>3
    <3> DEFINE t == Total(Quantity(b), Q)
               r == 0 - node.remaining
    <3>3. (((t % QMod) + r) % QMod) = ((t + r) % QMod)
      <4>1. t \in Int /\ r \in Int /\ QMod \in Nat \ {0}
        BY <2>1, <3>2, WidthAssumption
      <4> HIDE DEF t, r
      <4> QED
        BY <4>1, RemainderOfSum
    <3>4. t + r = Total(Quantity(b), R)
      BY <2>1, <3>2
    <3>5. (t % QMod) + r = (t % QMod) - node.remaining
      <4>1. t \in Int /\ QMod \in Nat \ {0}
        BY <2>1, <3>2, WidthAssumption
      <4>2. (t % QMod) \in 0 .. QMod - 1
        <5> HIDE DEF t
        <5> QED
          BY <4>1, DivisionLaw
      <4> HIDE DEF t
      <4> QED
        BY <3>2, <4>2
    <3> HIDE DEF r
    <3> QED
      BY <2>0, <2>1, <3>1, <3>3, <3>4, <3>5 DEF R
  <2> QED
    BY <2>2, <2>3
<1>21. BitsOK(c)
  <2>b. /\ \A s \in Sides, j \in Levels :
             (j % WordBits) \in b.bits[s][j \div WordBits] <=> Queued(b, s, j) # {}
        /\ \A s \in Sides, w \in Words : \A k \in b.bits[s][w] : w * WordBits + k \in Levels
    BY <1>0 DEF BitsOK
  <2>e. b.levels[side][i].count = 1 <=> Queued(c, side, i) = {}
    <3>1. b.levels[side][i].count = Cardinality(Queued(b, side, i))
      BY <1>0, <1>1 DEF CountsOK
    <3>2. Queued(c, side, i) = Queued(b, side, i) \ {n} /\ n \in Queued(b, side, i)
      BY <1>1, <1>9
    <3>3. Cardinality(Queued(b, side, i)) = 1 <=> \E y : Queued(b, side, i) = {y}
      BY <1>q, FS_Singleton, Zenon
    <3>4. (\E y : Queued(b, side, i) = {y}) <=> Queued(b, side, i) \ {n} = {}
      BY <3>2
    <3> QED
      BY <3>1, <3>2, <3>3, <3>4
  <2>q. \A s \in Sides, j \in Levels : ~(s = side /\ j = i) => Queued(c, s, j) = Queued(b, s, j)
    BY <1>9
  <2>n. Queued(b, side, i) # {}
    BY <1>1
  <2>1. CASE Queued(c, side, i) # {}
    <3>1. c.bits = b.bits
      BY <1>3, <2>e, <2>1
    <3>2. \A s \in Sides, j \in Levels : Queued(c, s, j) # {} <=> Queued(b, s, j) # {}
      BY <2>1, <2>n, <2>q
    <3> QED
      BY <2>b, <3>1, <3>2 DEF BitsOK
  <2>2. CASE Queued(c, side, i) = {}
    <3>1. c.bits = ClearActive(b.bits, side, i)
      BY <1>3, <2>e, <2>2
    <3> DEFINE bits == ClearActive(b.bits, side, i)
    <3>r. /\ \A s \in Sides, j \in Levels :
               (j % WordBits) \in bits[s][j \div WordBits]
                 <=> ~(s = side /\ j = i) /\ (j % WordBits) \in b.bits[s][j \div WordBits]
          /\ \A s \in Sides, w \in Words : bits[s][w] \subseteq b.bits[s][w]
      BY <1>1, <1>t, BitsUpdated
    <3> HIDE DEF bits
    <3>2. \A s \in Sides, j \in Levels :
            (j % WordBits) \in c.bits[s][j \div WordBits]
              <=> ~(s = side /\ j = i) /\ (j % WordBits) \in b.bits[s][j \div WordBits]
      BY <3>1, <3>r, Zenon DEF bits
    <3>3. \A s \in Sides, w \in Words : c.bits[s][w] \subseteq b.bits[s][w]
      BY <3>1, <3>r, Zenon DEF bits
    <3>4. \A s \in Sides, j \in Levels :
            (j % WordBits) \in c.bits[s][j \div WordBits] <=> Queued(c, s, j) # {}
      <4> SUFFICES ASSUME NEW s \in Sides, NEW j \in Levels
                   PROVE (j % WordBits) \in c.bits[s][j \div WordBits] <=> Queued(c, s, j) # {}
        OBVIOUS
      <4>1. CASE s = side /\ j = i
        BY <2>2, <3>2, <4>1, Zenon
      <4>2. CASE ~(s = side /\ j = i)
        BY <2>b, <2>q, <3>2, <4>2, Zenon
      <4> QED
        BY <4>1, <4>2
    <3>5. \A s \in Sides, w \in Words : \A k \in c.bits[s][w] : w * WordBits + k \in Levels
      BY <2>b, <3>3, Zenon
    <3> QED
      BY <3>4, <3>5, Zenon DEF BitsOK
  <2> QED
    BY <2>1, <2>2
<1>22. Sound(c)
  BY <1>1, <1>10, <1>11, <1>12, <1>16, <1>17, <1>18, <1>19, <1>20, <1>21 DEF Sound
<1>23. \A m \in Live(c) : OrderAt(c, m) = OrderAt(b, m)
  BY <1>2, <1>8 DEF OrderAt
<1>24. c.free # <<>>
  BY <1>1, <1>3, <1>t, SMTT(30)
<1> QED
  BY <1>3, <1>7, <1>22, <1>23, <1>24 DEF c, node

-----------------------------------------------------------------------------
(* The matching loop. *)

(* One fill of a resting order, before a node that is used up is removed. *)
Filling(b, n, traded) ==
  [b EXCEPT !.nodes[n].remaining = @ - traded,
            !.levels[b.nodes[n].side][PriceIndex(b.nodes[n].price)].total_quantity
              = (@ - traded) % QMod]

(* What a fill changes: the order's quantity and its level's total. *)
FilledBy(b, c, n, traded) ==
  LET node == b.nodes[n]
      i == PriceIndex(node.price) IN
  /\ c \in BookType
  /\ \A m \in Nodes :
       /\ c.nodes[m].id = b.nodes[m].id
       /\ c.nodes[m].price = b.nodes[m].price
       /\ c.nodes[m].priority = b.nodes[m].priority
       /\ c.nodes[m].side = b.nodes[m].side
       /\ c.nodes[m].previous = b.nodes[m].previous
       /\ c.nodes[m].next = b.nodes[m].next
       /\ c.nodes[m].remaining = IF m = n THEN node.remaining - traded
                                 ELSE b.nodes[m].remaining
  /\ \A s \in Sides, j \in Levels :
       /\ c.levels[s][j].head = b.levels[s][j].head
       /\ c.levels[s][j].tail = b.levels[s][j].tail
       /\ c.levels[s][j].count = b.levels[s][j].count
       /\ c.levels[s][j].total_quantity =
            IF s = node.side /\ j = i THEN (b.levels[s][j].total_quantity - traded) % QMod
            ELSE b.levels[s][j].total_quantity
  /\ c.free = b.free /\ c.bits = b.bits /\ c.index = b.index /\ c.resting = b.resting

(* A fill changes what FilledBy says. *)
LEMMA FillFrame ==
  ASSUME NEW b, Sound(b), NEW n \in Live(b),
         NEW traded \in Nat, traded <= b.nodes[n].remaining
  PROVE  FilledBy(b, Filling(b, n, traded), n, traded)
<1> DEFINE node == b.nodes[n]
           side == node.side
           i == PriceIndex(node.price)
           level == b.levels[side][i]
           filled == [node EXCEPT !.remaining = @ - traded]
           less == [level EXCEPT !.total_quantity = (@ - traded) % QMod]
           c == Filling(b, n, traded)
<1>1. /\ b.nodes \in [Nodes -> OrderNode] /\ b.free \in Seq(Nodes)
      /\ b.levels \in [Sides -> [Levels -> PriceLevel]]
      /\ b.bits \in [Sides -> [Words -> SUBSET (0 .. WordBits - 1)]]
      /\ b.index \in [OrderIds -> Nodes \cup {InvalidNode}] /\ b.resting \in Nat
      /\ b \in BookType
  BY DEF Sound, BookType
<1>2. n \in Nodes /\ node \in OrderNode /\ side \in Sides /\ i \in Levels
  BY LiveCounted
<1>4. level \in PriceLevel
  BY <1>1, <1>2
<1>5. /\ filled.id = node.id /\ filled.price = node.price /\ filled.priority = node.priority
      /\ filled.side = node.side /\ filled.previous = node.previous /\ filled.next = node.next
      /\ filled.remaining = node.remaining - traded /\ filled \in OrderNode
  <2>0. traded <= node.remaining
    OBVIOUS
  <2> HIDE DEF node
  <2> QED
    BY <1>2, <2>0 DEF OrderNode
<1>6. /\ less.head = level.head /\ less.tail = level.tail /\ less.count = level.count
      /\ less.total_quantity = ((level.total_quantity - traded) % QMod)
      /\ less \in PriceLevel
  <2>1. QMod \in Nat \ {0}
    BY WidthAssumption
  <2> HIDE DEF level
  <2>2. level.total_quantity - traded \in Int
    BY <1>4, <2>1 DEF PriceLevel
  <2>3. ((level.total_quantity - traded) % QMod) \in 0 .. QMod - 1
    BY <2>1, <2>2, DivisionLaw
  <2> QED
    BY <1>4, <2>3 DEF PriceLevel
<1>3. /\ c.nodes = [b.nodes EXCEPT ![n] = filled]
      /\ c.levels = [b.levels EXCEPT ![side] = [@ EXCEPT ![i] = less]]
      /\ c.free = b.free /\ c.bits = b.bits /\ c.index = b.index /\ c.resting = b.resting
      /\ c \in BookType
  <2> DEFINE x == [b.nodes EXCEPT ![n].remaining = @ - traded]
             y == [b.levels EXCEPT ![side][i].total_quantity = (@ - traded) % QMod]
  <2>2. x = [b.nodes EXCEPT ![n] = filled]
    BY <1>1, <1>2
  <2>3. y = [b.levels EXCEPT ![side] = [@ EXCEPT ![i] = less]]
    BY <1>1, <1>2
  <2>4. c = [b EXCEPT !.nodes = x, !.levels = y]
    BY SMTT(30) DEF Filling
  <2>5. x \in [Nodes -> OrderNode] /\ y \in [Sides -> [Levels -> PriceLevel]]
    <3> HIDE DEF x, y, filled, less
    <3> QED
      BY <1>1, <1>2, <1>5, <1>6, <2>2, <2>3, ZenonT(30)
  <2> HIDE DEF x, y, c, filled, less
  <2>6. [b EXCEPT !.nodes = x, !.levels = y] \in BookType
        /\ [b EXCEPT !.nodes = x, !.levels = y].nodes = x
        /\ [b EXCEPT !.nodes = x, !.levels = y].levels = y
        /\ [b EXCEPT !.nodes = x, !.levels = y].free = b.free
        /\ [b EXCEPT !.nodes = x, !.levels = y].bits = b.bits
        /\ [b EXCEPT !.nodes = x, !.levels = y].index = b.index
        /\ [b EXCEPT !.nodes = x, !.levels = y].resting = b.resting
    BY <1>1, <2>5 DEF BookType
  <2> QED
    BY <2>2, <2>3, <2>4, <2>6
<1>d. node = b.nodes[n] /\ level = b.levels[side][i] /\ side = b.nodes[n].side
      /\ i = PriceIndex(b.nodes[n].price)
  OBVIOUS
<1> HIDE DEF node, side, i, level, filled, less, c
<1>7. /\ c.nodes \in [Nodes -> OrderNode]
      /\ \A m \in Nodes : c.nodes[m] = IF m = n THEN filled ELSE b.nodes[m]
  BY <1>1, <1>2, <1>3, <1>5
<1>8. /\ c.levels \in [Sides -> [Levels -> PriceLevel]]
      /\ \A s \in Sides, j \in Levels :
           c.levels[s][j] = IF s = side /\ j = i THEN less ELSE b.levels[s][j]
  BY <1>1, <1>2, <1>3, <1>6
<1>9. c \in BookType
  BY <1>3
<1>10. ASSUME NEW m \in Nodes
       PROVE  /\ c.nodes[m].id = b.nodes[m].id
              /\ c.nodes[m].price = b.nodes[m].price
              /\ c.nodes[m].priority = b.nodes[m].priority
              /\ c.nodes[m].side = b.nodes[m].side
              /\ c.nodes[m].previous = b.nodes[m].previous
              /\ c.nodes[m].next = b.nodes[m].next
              /\ c.nodes[m].remaining = IF m = n THEN node.remaining - traded
                                        ELSE b.nodes[m].remaining
  <2>1. CASE m = n
    BY <1>5, <1>7, <1>d, <2>1
  <2>2. CASE m # n
    BY <1>7, <2>2
  <2> QED
    BY <2>1, <2>2
<1>11. ASSUME NEW s \in Sides, NEW j \in Levels
       PROVE  /\ c.levels[s][j].head = b.levels[s][j].head
              /\ c.levels[s][j].tail = b.levels[s][j].tail
              /\ c.levels[s][j].count = b.levels[s][j].count
              /\ c.levels[s][j].total_quantity =
                   IF s = side /\ j = i THEN (b.levels[s][j].total_quantity - traded) % QMod
                   ELSE b.levels[s][j].total_quantity
  <2>1. CASE s = side /\ j = i
    BY <1>6, <1>8, <1>d, <2>1, ZenonT(30)
  <2>2. CASE ~(s = side /\ j = i)
    BY <1>8, <2>2
  <2> QED
    BY <2>1, <2>2, SMTT(30)
<1> QED
  BY <1>3, <1>9, <1>10, <1>11, ZenonT(30) DEF node, side, i, c, FilledBy

(* A fill of at most what is left keeps the containers consistent. *)
LEMMA FillSound ==
  ASSUME NEW b, Sound(b), NEW n \in Live(b),
         NEW traded \in Nat, traded <= b.nodes[n].remaining
  PROVE  LET c == Filling(b, n, traded) IN
         /\ Sound(c) /\ Live(c) = Live(b)
         /\ FilledBy(b, c, n, traded)
<1> DEFINE c == Filling(b, n, traded)
           side == b.nodes[n].side
           i == PriceIndex(b.nodes[n].price)
<1>f. FilledBy(b, c, n, traded)
  BY FillFrame, Zenon
<1>0. /\ b \in BookType /\ IndexOK(b) /\ FreeOK(b) /\ OrdersOK(b) /\ NextOK(b) /\ PreviousOK(b)
      /\ EndsOK(b) /\ CountsOK(b) /\ TotalsOK(b) /\ BitsOK(b)
  BY DEF Sound
<1>1. n \in Nodes /\ side \in Sides /\ i \in Levels /\ n \in Queued(b, side, i)
  BY LiveCounted
<1> HIDE DEF c
<1>2. \A m \in Nodes :
       /\ c.nodes[m].id = b.nodes[m].id
       /\ c.nodes[m].price = b.nodes[m].price
       /\ c.nodes[m].priority = b.nodes[m].priority
       /\ c.nodes[m].side = b.nodes[m].side
       /\ c.nodes[m].previous = b.nodes[m].previous
       /\ c.nodes[m].next = b.nodes[m].next
       /\ c.nodes[m].remaining = IF m = n THEN b.nodes[n].remaining - traded
                                 ELSE b.nodes[m].remaining
  BY <1>f DEF FilledBy
<1>3. \A s \in Sides, j \in Levels :
       /\ c.levels[s][j].head = b.levels[s][j].head
       /\ c.levels[s][j].tail = b.levels[s][j].tail
       /\ c.levels[s][j].count = b.levels[s][j].count
       /\ c.levels[s][j].total_quantity =
            IF s = side /\ j = i THEN (b.levels[s][j].total_quantity - traded) % QMod
            ELSE b.levels[s][j].total_quantity
  BY <1>f DEF FilledBy
<1>4. c.free = b.free /\ c.bits = b.bits /\ c.index = b.index /\ c.resting = b.resting
      /\ c \in BookType
  BY <1>f DEF FilledBy
<1>5. Live(c) = Live(b) /\ Live(b) \subseteq Nodes
  BY <1>2 DEF Live
<1>6. \A s, j : Queued(c, s, j) = Queued(b, s, j)
  BY <1>2, <1>5 DEF Queued
<1>7. \A l, m \in Live(b) : SameQueue(c, l, m) <=> SameQueue(b, l, m)
  BY <1>2, <1>5 DEF SameQueue
<1>i. InvalidNode \notin Nodes /\ b.index \in [OrderIds -> Nodes \cup {InvalidNode}]
  BY <1>0, NodesFinite DEF BookType
<1>8. IndexOK(c)
  BY <1>0, <1>2, <1>4, <1>5, <1>i DEF IndexOK
<1>9. FreeOK(c)
  BY <1>0, <1>4, <1>5 DEF FreeOK
<1>10. OrdersOK(c)
  BY <1>0, <1>2, <1>5 DEF OrdersOK
<1>11. NextOK(c)
  <2> SUFFICES ASSUME NEW m \in Live(c)
               PROVE
        LET next == c.nodes[m].next IN
        IF next = InvalidNode
        THEN \A l \in Live(c) : SameQueue(c, l, m) => c.nodes[l].priority <= c.nodes[m].priority
        ELSE /\ next \in Live(c) /\ SameQueue(c, next, m)
             /\ c.nodes[m].priority < c.nodes[next].priority
             /\ \A l \in Live(c) : SameQueue(c, l, m) =>
                  \/ c.nodes[l].priority <= c.nodes[m].priority
                  \/ c.nodes[next].priority <= c.nodes[l].priority
    BY DEF NextOK
  <2>1. m \in Live(b) /\ m \in Nodes /\ c.nodes[m].next = b.nodes[m].next
    BY <1>2, <1>5
  <2> QED
    BY <1>0, <1>2, <1>5, <1>7, <2>1 DEF NextOK
<1>12. PreviousOK(c)
  <2> SUFFICES ASSUME NEW m \in Live(c)
               PROVE
        LET previous == c.nodes[m].previous IN
        IF previous = InvalidNode
        THEN \A l \in Live(c) : SameQueue(c, l, m) => c.nodes[m].priority <= c.nodes[l].priority
        ELSE /\ previous \in Live(c) /\ SameQueue(c, previous, m)
             /\ c.nodes[previous].priority < c.nodes[m].priority
             /\ \A l \in Live(c) : SameQueue(c, l, m) =>
                  \/ c.nodes[m].priority <= c.nodes[l].priority
                  \/ c.nodes[l].priority <= c.nodes[previous].priority
    BY DEF PreviousOK
  <2>1. m \in Live(b) /\ m \in Nodes /\ c.nodes[m].previous = b.nodes[m].previous
    BY <1>2, <1>5, SMTT(30)
  <2> QED
    BY <1>0, <1>2, <1>5, <1>7, <2>1 DEF PreviousOK
<1>13. EndsOK(c)
  <2> SUFFICES ASSUME NEW s \in Sides, NEW j \in Levels
               PROVE  LET level == c.levels[s][j]
                          queued == Queued(c, s, j) IN
                 IF queued = {} THEN level.head = InvalidNode /\ level.tail = InvalidNode
                 ELSE /\ level.head \in queued
                      /\ \A m \in queued : c.nodes[level.head].priority <= c.nodes[m].priority
                      /\ level.tail \in queued
                      /\ \A m \in queued : c.nodes[m].priority <= c.nodes[level.tail].priority
    BY DEF EndsOK
  <2>1. /\ c.levels[s][j].head = b.levels[s][j].head
        /\ c.levels[s][j].tail = b.levels[s][j].tail
        /\ Queued(c, s, j) = Queued(b, s, j) /\ Queued(b, s, j) \subseteq Nodes
    BY <1>3, <1>6, LiveFinite
  <2> QED
    BY <1>0, <1>2, <2>1 DEF EndsOK
<1>14. CountsOK(c)
  BY <1>0, <1>3, <1>6 DEF CountsOK
<1>15. TotalsOK(c)
  <2> SUFFICES ASSUME NEW s \in Sides, NEW j \in Levels
               PROVE  c.levels[s][j].total_quantity = Total(Quantity(c), Queued(c, s, j)) % QMod
    BY DEF TotalsOK
  <2> DEFINE Q == Queued(b, s, j)
  <2>0. b.levels[s][j].total_quantity = Total(Quantity(b), Q) % QMod /\ Queued(c, s, j) = Q
    BY <1>0, <1>6 DEF TotalsOK
  <2>q. Q \in SUBSET Nodes /\ ((s = side /\ j = i) <=> n \in Q)
    BY <1>1, <1>5 DEF Queued
  <2> HIDE DEF Q
  <2>1. CASE ~(s = side /\ j = i)
    <3>1. c.levels[s][j].total_quantity = b.levels[s][j].total_quantity
      BY <1>3, <2>1
    <3>2. \A y \in Q : Quantity(c)[y] = Quantity(b)[y]
      BY <1>2, <2>1, <2>q DEF Quantity
    <3>3. Total(Quantity(c), Q) = Total(Quantity(b), Q)
      BY <3>2, TotalSame
    <3> QED
      BY <2>0, <3>1, <3>3
  <2>2. CASE s = side /\ j = i
    <3> DEFINE R == Q \ {n}
    <3>1. c.levels[s][j].total_quantity = ((b.levels[s][j].total_quantity - traded) % QMod)
      BY <1>3, <2>2
    <3>2. \A y \in R : Quantity(c)[y] = Quantity(b)[y]
      BY <1>2, <2>q DEF Quantity
    <3>3. Total(Quantity(c), R) = Total(Quantity(b), R)
      <4> HIDE DEF R
      <4> QED
        BY <3>2, TotalSame
    <3>4. /\ IsFiniteSet(Q) /\ (\A y \in Q : Quantity(b)[y] \in Nat)
          /\ (\A y \in Q : Quantity(c)[y] \in Nat)
          /\ Quantity(b)[n] = b.nodes[n].remaining
          /\ Quantity(c)[n] = c.nodes[n].remaining
      BY <1>0, <1>4, <2>q, <2>2, QuantityTyped
    <3>5. /\ Total(Quantity(b), Q) = Quantity(b)[n] + Total(Quantity(b), R)
          /\ Total(Quantity(c), Q) = Quantity(c)[n] + Total(Quantity(c), R)
          /\ Total(Quantity(b), R) \in Nat /\ Total(Quantity(b), Q) \in Nat
      BY <2>2, <2>q, <3>4, TotalRemove
    <3>6. c.nodes[n].remaining = b.nodes[n].remaining - traded /\ b.nodes[n].remaining \in Nat
      BY <1>1, <1>2, <2>q, <2>2, <3>4
    <3> DEFINE t == Total(Quantity(b), Q)
               r == 0 - traded
    <3>7. t + r = Total(Quantity(c), Q) /\ t \in Nat /\ r \in Int
      BY <3>3, <3>4, <3>5, <3>6
    <3> HIDE DEF t, r
    <3>8. (((t % QMod) + r) % QMod) = ((t + r) % QMod)
      <4>1. QMod \in Nat \ {0} /\ t \in Int
        BY <3>7, WidthAssumption
      <4> QED
        BY <3>7, <4>1, RemainderOfSum
    <3>9. (t % QMod) + r = (t % QMod) - traded
      <4>1. (t % QMod) \in 0 .. QMod - 1
        <5>1. QMod \in Nat \ {0} /\ t \in Int
          BY <3>7, WidthAssumption
        <5> QED
          BY <5>1, DivisionLaw
      <4> QED
        BY <4>1 DEF r
    <3>10. b.levels[s][j].total_quantity = (t % QMod)
      BY <2>0 DEF t
    <3> QED
      BY <2>0, <3>1, <3>7, <3>8, <3>9, <3>10
  <2> QED
    BY <2>1, <2>2
<1>16. BitsOK(c)
  BY <1>0, <1>4, <1>6 DEF BitsOK
<1>17. Sound(c)
  BY <1>4, <1>8, <1>9, <1>10, <1>11, <1>12, <1>13, <1>14, <1>15, <1>16 DEF Sound
<1> QED
  BY <1>5, <1>17, <1>f DEF c

(* What the iteration of the matching loop does to the orders: a maker that is
   used up leaves the book, any other keeps its place. *)
Matched(b, c, n, traded) ==
  /\ Sound(c)
  /\ \A m \in Live(c) \ {n} : OrderAt(c, m) = OrderAt(b, m)
  /\ IF b.nodes[n].remaining = traded
     THEN /\ Live(c) = Live(b) \ {n} /\ c.free # <<>>
          /\ c.index = [b.index EXCEPT ![b.nodes[n].id] = InvalidNode]
     ELSE /\ Live(c) = Live(b) /\ c.free = b.free /\ c.index = b.index
          /\ OrderAt(c, n) = [OrderAt(b, n) EXCEPT !.quantity = @ - traded]

(* One iteration of the matching loop leaves the containers sound. *)
LEMMA TradeSound ==
  ASSUME NEW b, Sound(b), NEW n \in Live(b),
         NEW traded \in Nat, traded <= b.nodes[n].remaining
  PROVE  Matched(b, TradeWith(b, n, traded), n, traded)
<1> DEFINE f == Filling(b, n, traded)
           c == TradeWith(b, n, traded)
<1>1. Sound(f) /\ Live(f) = Live(b) /\ FilledBy(b, f, n, traded)
  BY FillSound
<1>2. c = IF b.nodes[n].remaining = traded THEN RemoveNode(f, n) ELSE f
  BY DEF TradeWith, Filling
<1> HIDE DEF f, c
<1>3. Live(b) \subseteq Nodes /\ n \in Nodes
  BY DEF Live
<1>4. \A m \in Live(b) \ {n} : OrderAt(f, m) = OrderAt(b, m)
  BY <1>1, <1>3 DEF FilledBy, OrderAt
<1>5. CASE b.nodes[n].remaining = traded
  <2>0. c = RemoveNode(f, n) /\ n \in Live(f)
    BY <1>1, <1>2, <1>5
  <2>1. /\ Sound(c) /\ Live(c) = Live(f) \ {n}
        /\ \A m \in Live(c) : OrderAt(c, m) = OrderAt(f, m)
        /\ c.index = [f.index EXCEPT ![f.nodes[n].id] = InvalidNode]
        /\ c.free # <<>>
    BY <1>1, <2>0, RemoveSound
  <2>2. f.index = b.index /\ f.nodes[n].id = b.nodes[n].id
    BY <1>1, <1>3 DEF FilledBy
  <2> QED
    BY <1>1, <1>4, <1>5, <2>1, <2>2 DEF c, Matched
<1>6. CASE b.nodes[n].remaining # traded
  <2>0. c = f
    BY <1>2, <1>6
  <2>1. OrderAt(f, n) = [OrderAt(b, n) EXCEPT !.quantity = @ - traded]
    BY <1>1, <1>3 DEF FilledBy, OrderAt
  <2>2. f.free = b.free /\ f.index = b.index
    BY <1>1 DEF FilledBy
  <2> QED
    BY <1>1, <1>4, <1>6, <2>0, <2>1, <2>2 DEF c, Matched
<1> QED
  BY <1>5, <1>6

(* The constructor's book. *)
LEMMA EmptySound == Sound(EmptyBook) /\ Live(EmptyBook) = {}
<1> DEFINE b == EmptyBook
<1>0. MaximumOrders \in Nat \ {0} /\ QMod \in Nat \ {0}
  BY ConfigAssumption, WidthAssumption
<1>1. /\ b.nodes = [n \in Nodes |-> FreshNode]
      /\ b.free = [i \in 1 .. MaximumOrders |-> MaximumOrders - i]
      /\ b.levels = [side \in Sides |-> [i \in Levels |-> FreshLevel]]
      /\ b.bits = [side \in Sides |-> [w \in Words |-> {}]]
      /\ b.index = [id \in OrderIds |-> InvalidNode]
      /\ b.resting = 0
      /\ b = [nodes |-> b.nodes, free |-> b.free, levels |-> b.levels, bits |-> b.bits,
              index |-> b.index, resting |-> b.resting]
  BY DEF EmptyBook
<1> HIDE DEF b
<1>2. b \in BookType
  <2>1. FreshNode \in OrderNode
    BY DEF FreshNode, OrderNode, Sides
  <2>2. FreshLevel \in PriceLevel
    BY <1>0 DEF FreshLevel, PriceLevel
  <2>3. b.nodes \in [Nodes -> OrderNode] /\ b.levels \in [Sides -> [Levels -> PriceLevel]]
    BY <1>1, <2>1, <2>2
  <2>4. b.free \in Seq(Nodes)
    <3>1. b.free \in [1 .. MaximumOrders -> Nodes]
      BY <1>0, <1>1 DEF Nodes
    <3> QED
      BY <1>0, <3>1
  <2>5. b.bits \in [Sides -> [Words -> SUBSET (0 .. WordBits - 1)]]
    BY <1>1
  <2>6. b.index \in [OrderIds -> Nodes \cup {InvalidNode}] /\ b.resting \in Nat
    BY <1>1
  <2> QED
    BY <1>1, <2>3, <2>4, <2>5, <2>6 DEF BookType
<1>3. Live(b) = {}
  <2>1. FreshNode.id = NoOrder
    BY DEF FreshNode
  <2> QED
    BY <1>1, <2>1 DEF Live
<1>4. \A s, j : Queued(b, s, j) = {}
  BY <1>3 DEF Queued
<1>5. IndexOK(b)
  BY <1>1, <1>3 DEF IndexOK
<1>6. FreeOK(b)
  <2>1. Len(b.free) = MaximumOrders /\ b.resting = Cardinality(Live(b))
    BY <1>0, <1>1, <1>3, FS_EmptySet
  <2>2. \A n \in Nodes : MaximumOrders - n \in 1 .. MaximumOrders
                         /\ b.free[MaximumOrders - n] = n
    BY <1>0, <1>1 DEF Nodes
  <2>3. \A k, l \in 1 .. Len(b.free) : b.free[k] = b.free[l] => k = l
    BY <1>0, <1>1, <2>1
  <2> QED
    BY <1>3, <2>1, <2>2, <2>3 DEF FreeOK
<1>7. OrdersOK(b) /\ NextOK(b) /\ PreviousOK(b)
  BY <1>3 DEF OrdersOK, NextOK, PreviousOK
<1>8. \A s \in Sides, j \in Levels : b.levels[s][j] = FreshLevel
  BY <1>1
<1>9. /\ FreshLevel.head = InvalidNode /\ FreshLevel.tail = InvalidNode
      /\ FreshLevel.count = 0 /\ FreshLevel.total_quantity = 0
  BY DEF FreshLevel
<1>10. EndsOK(b) /\ CountsOK(b)
  BY <1>4, <1>8, <1>9, FS_EmptySet DEF EndsOK, CountsOK
<1>11. TotalsOK(b)
  <2>1. Total(Quantity(b), {}) = 0
    BY TotalEmpty
  <2>2. 0 % QMod = 0
    BY <1>0
  <2> QED
    BY <1>4, <1>8, <1>9, <2>1, <2>2 DEF TotalsOK
<1>12. BitsOK(b)
  <2>1. \A s \in Sides, i \in Levels : b.bits[s][i \div WordBits] = {}
    BY <1>1, BitOfLevel
  <2>2. \A s \in Sides, w \in Words : b.bits[s][w] = {}
    BY <1>1
  <2> HIDE DEF b
  <2>3. \A s \in Sides, i \in Levels :
          (i % WordBits) \in b.bits[s][i \div WordBits] <=> Queued(b, s, i) # {}
    BY <1>4, <2>1
  <2> QED
    BY <2>2, <2>3 DEF BitsOK
<1> QED
  BY <1>2, <1>3, <1>5, <1>6, <1>7, <1>10, <1>11, <1>12 DEF Sound, b

-----------------------------------------------------------------------------
(* best_index. *)

(* The element below all others is Min. *)
LEMMA MinIs ==
  ASSUME NEW S \in SUBSET Int, NEW m \in S, \A k \in S : m <= k
  PROVE  Min(S) = m
<1> DEFINE w == CHOOSE x \in S : \A y \in S : x =< y
<1>1. w \in S /\ \A y \in S : w <= y
  OBVIOUS
<1>2. Min(S) = w
  BY DEF Min
<1> HIDE DEF w
<1> QED
  BY <1>1, <1>2

(* The element above all others is Max. *)
LEMMA MaxIs ==
  ASSUME NEW S \in SUBSET Int, NEW m \in S, \A k \in S : k <= m
  PROVE  Max(S) = m
<1> DEFINE w == CHOOSE x \in S : \A y \in S : x >= y
<1>1. w \in S /\ \A y \in S : w >= y
  OBVIOUS
<1>2. Max(S) = w
  BY DEF Max
<1> HIDE DEF w
<1> QED
  BY <1>1, <1>2

(* The levels at which orders of a side rest. *)
Occupied(b, side) == {i \in Levels : Queued(b, side, i) # {}}

(* Is level i no worse than level j? *)
NoWorse(side, i, j) == IF side = "Sell" THEN i <= j ELSE i >= j

(* best_index finds the best level with orders, in both scan directions. *)
LEMMA BestIndexIs ==
  ASSUME NEW b, Sound(b), NEW side \in Sides
  PROVE  IF Occupied(b, side) = {} THEN BestIndex(b, side) = NoPrice
         ELSE /\ BestIndex(b, side) \in Occupied(b, side)
              /\ \A j \in Occupied(b, side) : NoWorse(side, BestIndex(b, side), j)
<1> DEFINE bits == b.bits[side]
           active == {w \in Words : bits[w] # {}}
<1>0. bits \in [Words -> SUBSET (0 .. WordBits - 1)] /\ BitsOK(b) /\ WordBits \in Nat \ {0}
  BY WidthAssumption DEF Sound, BookType
<1>1. \A i \in Levels : (i % WordBits) \in bits[i \div WordBits] <=> i \in Occupied(b, side)
  BY <1>0 DEF BitsOK, Occupied
<1>2. ASSUME NEW w \in Words, NEW k \in bits[w]
      PROVE  /\ w * WordBits + k \in Occupied(b, side) /\ w \in Nat /\ k \in 0 .. WordBits - 1
             /\ (w * WordBits + k) \div WordBits = w
             /\ ((w * WordBits + k) % WordBits) = k
  <2>1. k \in 0 .. WordBits - 1
    BY <1>0
  <2>2. w * WordBits + k \in Levels
    BY <1>0 DEF BitsOK
  <2>3. /\ (w * WordBits + k) \div WordBits = w
        /\ ((w * WordBits + k) % WordBits) = k /\ w \in Nat
    BY <2>1, LevelOfBit
  <2> QED
    BY <1>1, <2>1, <2>2, <2>3
<1>3. \A i \in Occupied(b, side) :
        i \in Levels /\ i \in Nat /\ i \div WordBits \in active
        /\ (i % WordBits) \in bits[i \div WordBits]
  <2> SUFFICES ASSUME NEW i \in Occupied(b, side)
               PROVE  i \in Levels /\ i \in Nat /\ i \div WordBits \in active
                      /\ (i % WordBits) \in bits[i \div WordBits]
    OBVIOUS
  <2>1. i \in Levels
    BY DEF Occupied
  <2> QED
    BY <1>1, <2>1, BitOfLevel, LevelToPrice
<1>4. CASE Occupied(b, side) = {}
  <2>1. active = {}
    BY <1>2, <1>4
  <2> QED
    BY <1>4, <2>1 DEF BestIndex
<1>5. CASE Occupied(b, side) # {}
  <2>1. active # {} /\ active \in SUBSET Nat
    BY <1>2, <1>3, <1>5
  <2>2. \A w \in active : bits[w] # {} /\ bits[w] \in SUBSET Nat /\ w \in Words
                          /\ \A k \in bits[w] : k <= WordBits - 1
    BY <1>0
  <2>w. \A w \in active : w <= PriceCount
    <3>1. PriceCount \in Nat \ {0}
      BY LadderSize
    <3> SUFFICES ASSUME NEW w \in active PROVE w <= PriceCount
      OBVIOUS
    <3>2. PICK k \in bits[w] : TRUE
      BY <2>2
    <3>3. w * WordBits + k \in Levels /\ w \in Nat /\ k \in Nat
      BY <1>2, <2>2, <3>2 DEF Occupied
    <3>4. w * WordBits + k <= PriceCount
      BY <3>1, <3>3 DEF Levels
    <3>5. w <= w * WordBits
      <4>1. w * WordBits = w + w * (WordBits - 1) /\ w * (WordBits - 1) >= 0
        BY <1>0, <3>3
      <4> QED
        BY <1>0, <3>3, <4>1
    <3>6. w * WordBits \in Nat
      BY <1>0, <3>3
    <3> QED
      BY <3>1, <3>3, <3>4, <3>5, <3>6
  <2>3. CASE side = "Sell"
    <3> DEFINE w == Min(active)
               k == Min(bits[w])
               best == w * WordBits + k
    <3>1. w \in active /\ \A v \in active : w <= v
      <4>1. \E m \in active : \A v \in active : m <= v
        <5> HIDE DEF active
        <5> QED
          BY <2>1, LeastNatural
      <4>2. active \in SUBSET Int
        BY <2>1
      <4> HIDE DEF active
      <4> QED
        BY <4>1, <4>2, MinIs
    <3> HIDE DEF w
    <3>2. bits[w] # {} /\ bits[w] \in SUBSET Nat /\ bits[w] \in SUBSET Int
      BY <2>2, <3>1
    <3>3. k \in bits[w] /\ \A l \in bits[w] : k <= l
      <4>1. \E m \in bits[w] : \A l \in bits[w] : m <= l
        <5> HIDE DEF bits
        <5> QED
          BY <3>2, LeastNatural
      <4> HIDE DEF bits
      <4> QED
        BY <3>2, <4>1, MinIs
    <3>4. BestIndex(b, side) = best
      BY <2>1, <2>3 DEF BestIndex, w
    <3> HIDE DEF k, active
    <3>5. best \in Occupied(b, side) /\ best \div WordBits = w /\ (best % WordBits) = k
      BY <1>2, <2>2, <3>1, <3>3
    <3> HIDE DEF best
    <3>6. ASSUME NEW j \in Occupied(b, side) PROVE best <= j
      <4>1. /\ j \in Levels /\ j \in Nat /\ j \div WordBits \in active
            /\ (j % WordBits) \in bits[j \div WordBits] /\ best \in Levels /\ best \in Nat
        BY <1>3, <3>5
      <4>2. w <= j \div WordBits /\ w \in Nat /\ j \div WordBits \in Nat
        BY <2>1, <3>1, <4>1
      <4>3. CASE w < j \div WordBits
        BY <3>5, <4>1, <4>3, WordOrder
      <4>4. CASE w = j \div WordBits
        <5>1. k <= j % WordBits /\ k \in Nat /\ (j % WordBits) \in Nat
          BY <3>2, <3>3, <4>1, <4>4
        <5>2. j < best <=> (j % WordBits) < k
          BY <3>5, <4>1, <4>4, WordOrder
        <5> QED
          BY <4>1, <5>1, <5>2
      <4> QED
        BY <4>2, <4>3, <4>4
    <3> QED
      BY <1>5, <2>3, <3>4, <3>5, <3>6 DEF NoWorse
  <2>4. CASE side # "Sell"
    <3> DEFINE w == Max(active)
               k == Max(bits[w])
               best == w * WordBits + k
    <3>1. w \in active /\ \A v \in active : v <= w
      <4>1. \E m \in active : \A v \in active : v <= m
        <5>1. PriceCount \in Nat
          BY LadderSize
        <5> HIDE DEF active
        <5> QED
          BY <2>1, <2>w, <5>1, GreatestNatural
      <4>2. active \in SUBSET Int
        BY <2>1
      <4> HIDE DEF active
      <4> QED
        BY <4>1, <4>2, MaxIs
    <3> HIDE DEF w
    <3>2. bits[w] # {} /\ bits[w] \in SUBSET Nat /\ bits[w] \in SUBSET Int
          /\ \A l \in bits[w] : l <= WordBits - 1
      BY <2>2, <3>1
    <3>3. k \in bits[w] /\ \A l \in bits[w] : l <= k
      <4>1. \E m \in bits[w] : \A l \in bits[w] : l <= m
        <5>1. WordBits - 1 \in Nat
          BY <1>0
        <5> HIDE DEF bits
        <5> QED
          BY <3>2, <5>1, GreatestNatural
      <4> HIDE DEF bits
      <4> QED
        BY <3>2, <4>1, MaxIs
    <3>4. BestIndex(b, side) = best
      BY <2>1, <2>4 DEF BestIndex, w
    <3> HIDE DEF k, active
    <3>5. best \in Occupied(b, side) /\ best \div WordBits = w /\ (best % WordBits) = k
      BY <1>2, <2>2, <3>1, <3>3
    <3> HIDE DEF best
    <3>6. ASSUME NEW j \in Occupied(b, side) PROVE best >= j
      <4>1. /\ j \in Levels /\ j \in Nat /\ j \div WordBits \in active
            /\ (j % WordBits) \in bits[j \div WordBits] /\ best \in Levels /\ best \in Nat
        BY <1>3, <3>5
      <4>2. j \div WordBits <= w /\ w \in Nat /\ j \div WordBits \in Nat
        BY <2>1, <3>1, <4>1
      <4>3. CASE j \div WordBits < w
        BY <3>5, <4>1, <4>3, WordOrder
      <4>4. CASE w = j \div WordBits
        <5>1. (j % WordBits) <= k /\ k \in Nat /\ (j % WordBits) \in Nat
          BY <3>2, <3>3, <4>1, <4>4
        <5>2. best < j <=> k < (j % WordBits)
          BY <3>5, <4>1, <4>4, WordOrder
        <5> QED
          BY <4>1, <5>1, <5>2
      <4> QED
        BY <4>2, <4>3, <4>4
    <3> QED
      BY <1>5, <2>4, <3>4, <3>5, <3>6 DEF NoWorse
  <2> QED
    BY <2>3, <2>4
<1> QED
  BY <1>4, <1>5

-----------------------------------------------------------------------------
(* The lists, as the orders of a level by rank. *)

(* A number's place among those of a set. *)
RankIn(P, p) == Cardinality({q \in P : q < p}) + 1

(* The places of a finite set of numbers are exactly 1 to its size, in order. *)
LEMMA Ranks ==
  ASSUME NEW P \in SUBSET Nat, IsFiniteSet(P)
  PROVE  /\ Cardinality(P) \in Nat
         /\ \A p \in P : RankIn(P, p) \in 1 .. Cardinality(P)
         /\ \A p, q \in P : p < q => RankIn(P, p) < RankIn(P, q)
         /\ \A p, q \in P : RankIn(P, p) = RankIn(P, q) => p = q
         /\ \A k \in 1 .. Cardinality(P) : \E p \in P : RankIn(P, p) = k
<1> DEFINE Below(p) == {q \in P : q < p}
           N == Cardinality(P)
<1>0. N \in Nat
  BY FS_CardinalityType
<1>1. ASSUME NEW p \in P
      PROVE  IsFiniteSet(Below(p)) /\ Cardinality(Below(p)) \in Nat /\ Cardinality(Below(p)) < N
  <2>1. Below(p) \in SUBSET P /\ p \notin Below(p)
    OBVIOUS
  <2> HIDE DEF Below
  <2>2. IsFiniteSet(Below(p)) /\ Cardinality(Below(p)) <= N /\ Cardinality(Below(p)) # N
    BY <2>1, FS_Subset
  <2> QED
    BY <1>0, <2>2, FS_CardinalityType
<1>2. ASSUME NEW p \in P, NEW q \in P, p < q
      PROVE  Cardinality(Below(p)) < Cardinality(Below(q))
  <2>1. Below(p) \in SUBSET Below(q) /\ p \in Below(q) /\ p \notin Below(p)
    <3>1. \A r \in P : r \in Int
      OBVIOUS
    <3>2. \A r \in P : r < p => r < q
      BY <1>2, <3>1
    <3>3. ~(p < p)
      BY <3>1
    <3> QED
      BY <1>2, <3>2, <3>3, Zenon
  <2>2. IsFiniteSet(Below(q))
    BY <1>1
  <2>3. Cardinality(Below(p)) \in Nat /\ Cardinality(Below(q)) \in Nat
    BY <1>1
  <2> HIDE DEF Below
  <2> QED
    BY <2>1, <2>2, <2>3, FS_Subset
<1>3. \A p \in P : RankIn(P, p) = Cardinality(Below(p)) + 1
  BY DEF RankIn
<1> HIDE DEF Below
<1>4. \A p \in P : RankIn(P, p) \in 1 .. N
  BY <1>0, <1>1, <1>3
<1>5. \A p, q \in P : p < q => RankIn(P, p) < RankIn(P, q)
  BY <1>1, <1>2, <1>3
<1>6. \A p, q \in P : RankIn(P, p) = RankIn(P, q) => p = q
  <2> SUFFICES ASSUME NEW p \in P, NEW q \in P, p # q PROVE RankIn(P, p) # RankIn(P, q)
    OBVIOUS
  <2>1. p \in Nat /\ q \in Nat /\ (p < q \/ q < p)
    OBVIOUS
  <2>2. RankIn(P, p) \in Int /\ RankIn(P, q) \in Int
    BY <1>0, <1>4
  <2> QED
    BY <1>5, <2>1, <2>2
<1>7. \A k \in 1 .. N : \E p \in P : RankIn(P, p) = k
  <2> DEFINE f == [p \in P |-> RankIn(P, p)]
  <2>1. f \in [P -> 1 .. N] /\ \A p \in P : f[p] = RankIn(P, p)
    BY <1>4
  <2> HIDE DEF f
  <2>2. f \in Injection(P, 1 .. N)
    BY <1>6, <2>1 DEF Injection, IsInjective
  <2>3. IsFiniteSet(1 .. N) /\ Cardinality(1 .. N) = N
    BY <1>0, FS_Interval
  <2>4. f \in Surjection(P, 1 .. N)
    BY <2>2, <2>3, FS_Injection
  <2> QED
    BY <2>1, <2>4 DEF Surjection
<1> QED
  BY <1>0, <1>4, <1>5, <1>6, <1>7

(* The place after p's is that of the next number. *)
LEMMA RankNext ==
  ASSUME NEW P \in SUBSET Nat, IsFiniteSet(P), NEW p \in P, NEW q \in P, p < q,
         \A r \in P : r <= p \/ q <= r
  PROVE  RankIn(P, q) = RankIn(P, p) + 1
<1> DEFINE A == {r \in P : r < p}
           B == {r \in P : r < q}
<1>1. B = A \cup {p} /\ p \notin A /\ A \in SUBSET P
  <2>1. \A r \in P : r \in Int
    OBVIOUS
  <2>2. \A r \in P : r < q <=> r < p \/ r = p
    BY <2>1
  <2>3. ~(p < p)
    BY <2>1
  <2> QED
    BY <2>2, <2>3, Zenon
<1>2. RankIn(P, p) = Cardinality(A) + 1 /\ RankIn(P, q) = Cardinality(B) + 1
  BY DEF RankIn
<1> HIDE DEF A, B
<1>3. IsFiniteSet(A) /\ Cardinality(A) \in Nat
  BY <1>1, FS_Subset, FS_CardinalityType
<1>4. Cardinality(A \cup {p}) = Cardinality(A) + 1
  BY <1>1, <1>3, FS_AddElement
<1> QED
  BY <1>1, <1>2, <1>3, <1>4

(* The least number has the first rank. *)
LEMMA RankFirst ==
  ASSUME NEW P \in SUBSET Nat, NEW p \in P, \A r \in P : p <= r
  PROVE  RankIn(P, p) = 1
<1>1. {r \in P : r < p} = {}
  <2>1. \A r \in P : r \in Int /\ ~(r < p)
    OBVIOUS
  <2> QED
    BY <2>1, Zenon
<1> QED
  BY <1>1, FS_EmptySet DEF RankIn

(* The greatest number has the last rank. *)
LEMMA RankLast ==
  ASSUME NEW P \in SUBSET Nat, IsFiniteSet(P), NEW p \in P, \A r \in P : r <= p
  PROVE  RankIn(P, p) = Cardinality(P)
<1>1. {r \in P : r < p} = P \ {p}
  <2>1. \A r \in P : r \in Int
    OBVIOUS
  <2>2. \A r \in P : r < p <=> r # p
    BY <2>1
  <2> QED
    BY <2>2, Zenon
<1>2. Cardinality(P \ {p}) = Cardinality(P) - 1 /\ Cardinality(P) \in Nat
  BY FS_RemoveElement, FS_CardinalityType
<1> QED
  BY <1>1, <1>2 DEF RankIn

(* A queued order's place in its level, by the priorities resting there. *)
PrioritiesAt(b, side, i) == {b.nodes[n].priority : n \in Queued(b, side, i)}

Place(b, side, i, n) == RankIn(PrioritiesAt(b, side, i), b.nodes[n].priority)

(* A level has as many priorities as orders. *)
LEMMA PrioritiesCount ==
  ASSUME NEW b, Sound(b), NEW side \in Sides, NEW i \in Levels
  PROVE  /\ PrioritiesAt(b, side, i) \in SUBSET Nat
         /\ IsFiniteSet(PrioritiesAt(b, side, i))
         /\ Cardinality(PrioritiesAt(b, side, i)) = Cardinality(Queued(b, side, i))
<1> DEFINE Q == Queued(b, side, i)
           P == PrioritiesAt(b, side, i)
           f == [n \in Q |-> b.nodes[n].priority]
<1>1. Q \subseteq Live(b) /\ IsFiniteSet(Q) /\ Live(b) \subseteq Nodes
  BY LiveFinite
<1>2. \A n \in Q : b.nodes[n].priority \in Nat
  BY <1>1 DEF Sound, BookType, OrderNode
<1>3. P = {b.nodes[n].priority : n \in Q}
  BY DEF PrioritiesAt
<1>4. \A m, n \in Q : b.nodes[m].priority = b.nodes[n].priority => m = n
  BY <1>1 DEF Sound, OrdersOK
<1> HIDE DEF Q, P
<1>5. f \in [Q -> P] /\ \A n \in Q : f[n] = b.nodes[n].priority
  BY <1>3
<1> HIDE DEF f
<1>6. \A x, y \in Q : f[x] = f[y] => x = y
  BY <1>4, <1>5
<1>7. \A t \in P : \E x \in Q : f[x] = t
  BY <1>3, <1>5
<1>8. IsFiniteSet(P) /\ Cardinality(P) = Cardinality(Q)
  BY <1>1, <1>5, <1>6, <1>7, SameSize
<1>9. P \in SUBSET Nat
  BY <1>2, <1>3
<1> QED
  BY <1>8, <1>9 DEF P, Q

(* The links and the ends are those of the places. *)
LEMMA Places ==
  ASSUME NEW b, Sound(b), NEW side \in Sides, NEW i \in Levels
  PROVE  LET Q == Queued(b, side, i)
             N == Cardinality(Q)
             At(n) == Place(b, side, i, n)
             level == b.levels[side][i] IN
         /\ N \in Nat /\ N <= MaximumOrders /\ Q \subseteq Nodes
         /\ \A n \in Q : At(n) \in 1 .. N
         /\ \A m, n \in Q : At(m) = At(n) => m = n
         /\ \A m, n \in Q : b.nodes[m].priority < b.nodes[n].priority => At(m) < At(n)
         /\ \A k \in 1 .. N : \E n \in Q : At(n) = k
         /\ N = 0 => level.head = InvalidNode /\ level.tail = InvalidNode
         /\ N # 0 => /\ level.head \in Q /\ At(level.head) = 1
                     /\ level.tail \in Q /\ At(level.tail) = N
         /\ \A n \in Q : IF b.nodes[n].next = InvalidNode THEN At(n) = N
                         ELSE /\ b.nodes[n].next \in Q
                              /\ At(b.nodes[n].next) = At(n) + 1
         /\ \A n \in Q : IF b.nodes[n].previous = InvalidNode THEN At(n) = 1
                         ELSE /\ b.nodes[n].previous \in Q
                              /\ At(n) = At(b.nodes[n].previous) + 1
<1> DEFINE Q == Queued(b, side, i)
           P == PrioritiesAt(b, side, i)
           N == Cardinality(Q)
           At(n) == Place(b, side, i, n)
           level == b.levels[side][i]
<1>1. P \in SUBSET Nat /\ IsFiniteSet(P) /\ Cardinality(P) = N
  BY PrioritiesCount
<1>2. N \in Nat /\ N <= MaximumOrders /\ Q \subseteq Live(b) /\ Live(b) \subseteq Nodes
      /\ IsFiniteSet(Q)
  BY LiveFinite
<1>3. /\ \A n \in Q : b.nodes[n].priority \in P
      /\ \A p \in P : \E n \in Q : b.nodes[n].priority = p
      /\ \A n \in Q : At(n) = RankIn(P, b.nodes[n].priority)
  BY DEF PrioritiesAt, Place
<1>4. /\ OrdersOK(b) /\ NextOK(b) /\ PreviousOK(b) /\ EndsOK(b)
      /\ \A n \in Nodes : b.nodes[n].priority \in Nat
  BY DEF Sound, BookType, OrderNode
<1>5. \A m \in Live(b), n \in Q : SameQueue(b, m, n) <=> m \in Q
  BY DEF Queued, SameQueue
<1>6. N = 0 <=> Q = {}
  BY <1>2, FS_EmptySet
<1>7. /\ Q = {} => level.head = InvalidNode /\ level.tail = InvalidNode
      /\ Q # {} => /\ level.head \in Q
                   /\ \A m \in Q : b.nodes[level.head].priority <= b.nodes[m].priority
                   /\ level.tail \in Q
                   /\ \A m \in Q : b.nodes[m].priority <= b.nodes[level.tail].priority
  BY <1>4 DEF EndsOK
<1>p. \A m, n \in Q : b.nodes[m].priority = b.nodes[n].priority => m = n
  BY <1>2, <1>4 DEF OrdersOK
<1> HIDE DEF P, N, At, level
<1>8. /\ \A p \in P : RankIn(P, p) \in 1 .. N
      /\ \A p, q \in P : p < q => RankIn(P, p) < RankIn(P, q)
      /\ \A p, q \in P : RankIn(P, p) = RankIn(P, q) => p = q
      /\ \A k \in 1 .. N : \E p \in P : RankIn(P, p) = k
  BY <1>1, Ranks
<1>9. ASSUME NEW n \in Q
      PROVE  IF b.nodes[n].next = InvalidNode THEN At(n) = N
             ELSE b.nodes[n].next \in Q /\ At(b.nodes[n].next) = At(n) + 1
  <2>n. n \in Live(b)
    BY <1>2
  <2> DEFINE x == b.nodes[n].next
             p == b.nodes[n].priority
  <2>1. CASE x = InvalidNode
    <3>1. \A m \in Q : b.nodes[m].priority <= p
      BY <1>2, <1>4, <1>5, <2>n, <2>1 DEF NextOK
    <3>2. p \in P /\ \A r \in P : r <= p
      BY <1>3, <3>1
    <3> HIDE DEF p
    <3>3. RankIn(P, p) = N
      BY <1>1, <3>2, RankLast
    <3> QED
      BY <1>3, <2>1, <3>3 DEF p
  <2>2. CASE x # InvalidNode
    <3>1. /\ x \in Live(b) /\ SameQueue(b, x, n) /\ p < b.nodes[x].priority
          /\ \A m \in Live(b) : SameQueue(b, m, n) =>
                \/ b.nodes[m].priority <= p
                \/ b.nodes[x].priority <= b.nodes[m].priority
      BY <1>4, <2>n, <2>2 DEF NextOK
    <3>2. x \in Q
      BY <1>5, <3>1
    <3> DEFINE q == b.nodes[x].priority
    <3>3. p \in P /\ q \in P /\ p < q /\ \A r \in P : r <= p \/ q <= r
      BY <1>2, <1>3, <1>5, <3>1, <3>2
    <3> HIDE DEF p, q
    <3>4. RankIn(P, q) = RankIn(P, p) + 1
      BY <1>1, <3>3, RankNext
    <3>5. At(x) = RankIn(P, q) /\ At(n) = RankIn(P, p)
      BY <1>3, <3>2 DEF p, q
    <3> QED
      BY <2>2, <3>2, <3>4, <3>5
  <2> QED
    BY <2>1, <2>2
<1>10. ASSUME NEW n \in Q
       PROVE  IF b.nodes[n].previous = InvalidNode THEN At(n) = 1
              ELSE b.nodes[n].previous \in Q /\ At(n) = At(b.nodes[n].previous) + 1
  <2>n. n \in Live(b)
    BY <1>2
  <2> DEFINE x == b.nodes[n].previous
             p == b.nodes[n].priority
  <2>1. CASE x = InvalidNode
    <3>1. \A m \in Q : p <= b.nodes[m].priority
      BY <1>2, <1>4, <1>5, <2>n, <2>1 DEF PreviousOK
    <3>2. p \in P /\ \A r \in P : p <= r
      BY <1>3, <3>1
    <3> HIDE DEF p
    <3>3. RankIn(P, p) = 1
      BY <1>1, <3>2, RankFirst
    <3> QED
      BY <1>3, <2>1, <3>3 DEF p
  <2>2. CASE x # InvalidNode
    <3>1. /\ x \in Live(b) /\ SameQueue(b, x, n) /\ b.nodes[x].priority < p
          /\ \A m \in Live(b) : SameQueue(b, m, n) =>
                \/ p <= b.nodes[m].priority
                \/ b.nodes[m].priority <= b.nodes[x].priority
      BY <1>4, <2>n, <2>2 DEF PreviousOK
    <3>2. x \in Q
      BY <1>5, <3>1
    <3> DEFINE q == b.nodes[x].priority
    <3>3. p \in P /\ q \in P /\ q < p /\ \A r \in P : r <= q \/ p <= r
      BY <1>2, <1>3, <1>5, <3>1, <3>2
    <3> HIDE DEF p, q
    <3>4. RankIn(P, p) = RankIn(P, q) + 1
      BY <1>1, <3>3, RankNext
    <3>5. At(x) = RankIn(P, q) /\ At(n) = RankIn(P, p)
      BY <1>3, <3>2 DEF p, q
    <3> QED
      BY <2>2, <3>2, <3>4, <3>5
  <2> QED
    BY <2>1, <2>2
<1>11. ASSUME N # 0
       PROVE  level.head \in Q /\ At(level.head) = 1 /\ level.tail \in Q /\ At(level.tail) = N
  <2> DEFINE h == b.nodes[level.head].priority
             t == b.nodes[level.tail].priority
  <2>0. Q # {}
    BY <1>6, <1>11
  <2>1. level.head \in Q /\ level.tail \in Q
    BY <1>7, <2>0
  <2>2. h \in P /\ t \in P /\ (\A r \in P : h <= r) /\ (\A r \in P : r <= t)
    BY <1>3, <1>7, <2>0
  <2>3. At(level.head) = RankIn(P, h) /\ At(level.tail) = RankIn(P, t)
    BY <1>3, <2>1
  <2> HIDE DEF h, t
  <2>4. RankIn(P, h) = 1 /\ RankIn(P, t) = N
    BY <1>1, <2>2, RankFirst, RankLast
  <2> QED
    BY <2>1, <2>3, <2>4
<1>12. /\ \A n \in Q : At(n) \in 1 .. N
       /\ \A m, n \in Q : b.nodes[m].priority < b.nodes[n].priority => At(m) < At(n)
       /\ \A k \in 1 .. N : \E n \in Q : At(n) = k
  BY <1>3, <1>8
<1>13. \A m, n \in Q : At(m) = At(n) => m = n
  BY <1>3, <1>8, <1>p
<1>14. N = 0 => level.head = InvalidNode /\ level.tail = InvalidNode
  BY <1>6, <1>7
<1>15. Q \subseteq Nodes
  BY <1>2
<1> QED
  BY <1>2, <1>9, <1>10, <1>11, <1>12, <1>13, <1>14, <1>15 DEF At, N, level

(* The walk of a level's list visits its orders by their places. *)
LEMMA FifoIs ==
  ASSUME NEW b, Sound(b), NEW side \in Sides, NEW i \in Levels
  PROVE  LET Q == Queued(b, side, i)
             N == Cardinality(Q)
             F == Fifo(b, side, i) IN
         /\ F \in [1 .. N -> Q]
         /\ \A k \in 1 .. N : Place(b, side, i, F[k]) = k
         /\ \A n \in Q : F[Place(b, side, i, n)] = n
<1> DEFINE Q == Queued(b, side, i)
           N == Cardinality(Q)
           At(n) == Place(b, side, i, n)
           level == b.levels[side][i]
           M == MaximumOrders
           Walk(g) == g = [k \in 1 .. M |->
                             IF k = 1 THEN b.levels[side][i].head
                             ELSE IF g[k - 1] = InvalidNode THEN InvalidNode
                             ELSE b.nodes[g[k - 1]].next]
<1>1. /\ N \in Nat /\ N <= M /\ Q \subseteq Nodes
      /\ \A n \in Q : At(n) \in 1 .. N
      /\ \A m, n \in Q : At(m) = At(n) => m = n
      /\ \A k \in 1 .. N : \E n \in Q : At(n) = k
      /\ N = 0 => level.head = InvalidNode
      /\ N # 0 => level.head \in Q /\ At(level.head) = 1
      /\ \A n \in Q : IF b.nodes[n].next = InvalidNode THEN At(n) = N
                      ELSE /\ b.nodes[n].next \in Q
                           /\ At(b.nodes[n].next) = At(n) + 1
  BY Places
<1>m. M \in Nat \ {0} /\ InvalidNode \notin Nodes
  BY ConfigAssumption, NodesFinite
<1> DEFINE Node(k) == CHOOSE n \in Q : At(n) = k
           h == [k \in 1 .. M |-> IF k <= N THEN Node(k) ELSE InvalidNode]
<1> HIDE DEF Q, N, At, M
<1>2. \A k \in 1 .. N : Node(k) \in Q /\ At(Node(k)) = k
  BY <1>1
<1> HIDE DEF Node
<1>3. ASSUME NEW k \in 1 .. M
      PROVE  h[k] = IF k = 1 THEN level.head
                    ELSE IF h[k - 1] = InvalidNode THEN InvalidNode
                    ELSE b.nodes[h[k - 1]].next
  <2>1. CASE k = 1
    <3>1. CASE N = 0
      BY <1>1, <1>m, <2>1, <3>1
    <3>2. CASE N # 0
      <4>1. 1 \in 1 .. N
        BY <1>1, <3>2
      <4>2. Node(1) = level.head
        BY <1>1, <1>2, <3>2, <4>1
      <4> QED
        BY <1>m, <2>1, <4>1, <4>2
    <3> QED
      BY <3>1, <3>2
  <2>2. CASE k # 1
    <3>0. k - 1 \in 1 .. M
      BY <1>m, <2>2
    <3>1. CASE k - 1 <= N
      <4>1. k - 1 \in 1 .. N
        BY <1>1, <3>0, <3>1
      <4>2. h[k - 1] = Node(k - 1)
        BY <3>0, <3>1
      <4>3. Node(k - 1) \in Q /\ At(Node(k - 1)) = k - 1 /\ Node(k - 1) # InvalidNode
        BY <1>1, <1>2, <1>m, <4>1
      <4> DEFINE m == Node(k - 1)
      <4>4. m \in Q /\ At(m) = k - 1 /\ m # InvalidNode
        BY <4>3
      <4> HIDE DEF m
      <4>5. CASE b.nodes[m].next = InvalidNode
        <5>1. k - 1 = N
          BY <1>1, <4>4, <4>5
        <5>2. h[k] = InvalidNode
          BY <1>1, <1>m, <5>1
        <5> QED
          BY <2>2, <4>2, <4>4, <4>5, <5>2 DEF m
      <4>6. CASE b.nodes[m].next # InvalidNode
        <5>1. b.nodes[m].next \in Q /\ At(b.nodes[m].next) = k
          BY <1>1, <1>m, <4>4, <4>6
        <5>2. k \in 1 .. N
          BY <1>1, <5>1
        <5>3. Node(k) = b.nodes[m].next
          BY <1>1, <1>2, <5>1, <5>2
        <5>4. h[k] = Node(k)
          BY <5>2
        <5> QED
          BY <2>2, <4>2, <4>4, <5>3, <5>4 DEF m
      <4> QED
        BY <4>5, <4>6
    <3>2. CASE ~(k - 1 <= N)
      <4>1. ~(k <= N)
        BY <1>1, <3>0, <3>2
      <4>2. h[k - 1] = InvalidNode /\ h[k] = InvalidNode
        BY <3>0, <3>2, <4>1
      <4> QED
        BY <2>2, <4>2
    <3> QED
      BY <3>1, <3>2
  <2> QED
    BY <2>1, <2>2
<1>4. Walk(h)
  <2> DEFINE w == [k \in 1 .. M |-> IF k = 1 THEN b.levels[side][i].head
                                    ELSE IF h[k - 1] = InvalidNode THEN InvalidNode
                                    ELSE b.nodes[h[k - 1]].next]
  <2>1. \A k \in 1 .. M : h[k] = w[k]
    BY <1>3
  <2>2. h = [k \in 1 .. M |-> h[k]] /\ w = [k \in 1 .. M |-> w[k]]
    OBVIOUS
  <2>3. h = w
    <3> HIDE DEF h, w
    <3> QED
      BY <2>1, <2>2
  <2> QED
    BY <2>3
<1> DEFINE g == CHOOSE x : Walk(x)
<1>5. Walk(g)
  <2> HIDE DEF Walk, h
  <2> QED
    BY <1>4
<1>6. /\ g = [k \in 1 .. M |-> g[k]]
      /\ \A k \in 1 .. M : g[k] = IF k = 1 THEN level.head
                                  ELSE IF g[k - 1] = InvalidNode THEN InvalidNode
                                  ELSE b.nodes[g[k - 1]].next
  <2> HIDE DEF g
  <2> QED
    BY <1>5
<1>7. \A k \in 1 .. M : g[k] = h[k]
  <2> HIDE DEF g, h
  <2> DEFINE S == {k \in Nat : k + 1 \in 1 .. M => g[k + 1] = h[k + 1]}
  <2>1. 0 \in S
    BY <1>3, <1>6
  <2>2. ASSUME NEW k \in S PROVE k + 1 \in S
    <3> SUFFICES ASSUME k + 2 \in 1 .. M PROVE g[k + 2] = h[k + 2]
      OBVIOUS
    <3>1. k + 1 \in 1 .. M /\ k + 2 # 1 /\ (k + 2) - 1 = k + 1
      BY <1>m
    <3>2. g[k + 1] = h[k + 1]
      BY <3>1
    <3> QED
      BY <1>3, <1>6, <3>1, <3>2
  <2>3. S = Nat
    <3>1. S \in SUBSET Nat
      OBVIOUS
    <3> HIDE DEF S
    <3> QED
      BY <2>1, <2>2, <3>1, NaturalInduction
  <2> SUFFICES ASSUME NEW k \in 1 .. M PROVE g[k] = h[k]
    OBVIOUS
  <2>4. k - 1 \in Nat /\ (k - 1) + 1 = k
    BY <1>m
  <2> QED
    BY <2>3, <2>4
<1>8. Fifo(b, side, i)
        = [k \in 1 .. Cardinality({k \in 1 .. M : g[k] # InvalidNode}) |-> g[k]]
  BY DEF Fifo, M
<1>9. {k \in 1 .. M : g[k] # InvalidNode} = 1 .. N
  <2>1. \A k \in 1 .. M : h[k] # InvalidNode <=> k <= N
    BY <1>1, <1>2, <1>m
  <2> HIDE DEF g, h
  <2> QED
    BY <1>1, <1>7, <1>m, <2>1
<1>10. Cardinality(1 .. N) = N
  BY <1>1, FS_Interval
<1> HIDE DEF g
<1>11. \A k \in 1 .. N : g[k] = Node(k)
  BY <1>1, <1>7, <1>m
<1> DEFINE F == Fifo(b, side, i)
<1>12. F = [k \in 1 .. N |-> g[k]]
  BY <1>8, <1>9, <1>10
<1> HIDE DEF F
<1>13. F \in [1 .. N -> Q] /\ \A k \in 1 .. N : At(F[k]) = k
  BY <1>2, <1>11, <1>12
<1>14. \A n \in Q : F[At(n)] = n
  BY <1>1, <1>13
<1> QED
  BY <1>13, <1>14 DEF F, At, N, Q

-----------------------------------------------------------------------------
(* The resting orders, and restore. *)

(* The orders that rest in a book. *)
Orders(b) == {OrderAt(b, n) : n \in Live(b)}

(* The index reaches exactly the live nodes. *)
LEMMA IndexedLive ==
  ASSUME NEW b, Sound(b)
  PROVE  {b.index[id] : id \in OrderIds} \ {InvalidNode} = Live(b)
<1>1. /\ b.index \in [OrderIds -> Nodes \cup {InvalidNode}]
      /\ \A n \in Nodes : b.nodes[n].id \in OrderIds \cup {NoOrder}
      /\ IndexOK(b) /\ InvalidNode \notin Nodes /\ NoOrder \notin OrderIds
  BY NodesFinite, InputAssumption DEF Sound, BookType, OrderNode
<1>2. ASSUME NEW id \in OrderIds, b.index[id] # InvalidNode PROVE b.index[id] \in Live(b)
  BY <1>1, <1>2 DEF IndexOK, Live
<1>3. ASSUME NEW n \in Live(b) PROVE \E id \in OrderIds : b.index[id] = n
  <2>1. n \in Nodes /\ b.nodes[n].id \in OrderIds /\ b.index[b.nodes[n].id] = n
    BY <1>1 DEF IndexOK, Live
  <2> QED
    BY <2>1
<1>4. InvalidNode \notin Live(b)
  BY <1>1 DEF Live
<1> QED
  BY <1>2, <1>3, <1>4

(* The lists reach exactly the live nodes, so resting_orders() is complete. *)
LEMMA WalkedLive ==
  ASSUME NEW b, Sound(b)
  PROVE  /\ \A side \in Sides, i \in Levels : FifoNodes(b, side, i) = Queued(b, side, i)
         /\ UNION {FifoNodes(b, side, i) : side \in Sides, i \in Levels} = Live(b)
         /\ RestingOrders(b) = Orders(b)
<1>1. ASSUME NEW side \in Sides, NEW i \in Levels
      PROVE  FifoNodes(b, side, i) = Queued(b, side, i)
  <2> DEFINE Q == Queued(b, side, i)
             N == Cardinality(Q)
             F == Fifo(b, side, i)
  <2>1. F \in [1 .. N -> Q] /\ \A n \in Q : F[Place(b, side, i, n)] = n
    BY FifoIs
  <2>2. \A n \in Q : Place(b, side, i, n) \in 1 .. N
    BY Places
  <2>3. FifoNodes(b, side, i) = {F[k] : k \in DOMAIN F}
    BY DEF FifoNodes
  <2> HIDE DEF F, Q, N
  <2>4. {F[k] : k \in DOMAIN F} = Q
    BY <2>1, <2>2
  <2> QED
    BY <2>3, <2>4 DEF Q
<1>2. UNION {FifoNodes(b, side, i) : side \in Sides, i \in Levels} = Live(b)
  <2>1. ASSUME NEW n \in Live(b)
        PROVE  \E side \in Sides, i \in Levels : n \in FifoNodes(b, side, i)
    <3>1. /\ b.nodes[n].side \in Sides /\ PriceIndex(b.nodes[n].price) \in Levels
          /\ n \in Queued(b, b.nodes[n].side, PriceIndex(b.nodes[n].price))
      BY LiveCounted
    <3> QED
      BY <1>1, <3>1
  <2>2. ASSUME NEW side \in Sides, NEW i \in Levels, NEW n \in FifoNodes(b, side, i)
        PROVE  n \in Live(b)
    BY <1>1 DEF Queued
  <2> QED
    BY <2>1, <2>2
<1>3. RestingOrders(b) = Orders(b)
  BY <1>2 DEF RestingOrders, Orders
<1> QED
  BY <1>1, <1>2, <1>3

(* What the resting orders of a consistent book are like. *)
LEMMA OrdersAre ==
  ASSUME NEW b, Sound(b)
  PROVE  /\ Orders(b) \in SUBSET RestingOrder
         /\ \A o \in Orders(b) : ValidPrice(o.price)
         /\ \A o, p \in Orders(b) : /\ o.order_id = p.order_id => o = p
                                    /\ o.priority = p.priority => o = p
         /\ IsFiniteSet(Orders(b)) /\ Cardinality(Orders(b)) = Cardinality(Live(b))
         /\ Cardinality(Orders(b)) <= MaximumOrders
<1>1. ASSUME NEW n \in Live(b)
      PROVE  /\ b.nodes[n] \in OrderNode /\ b.nodes[n].id \in OrderIds
             /\ ValidPrice(b.nodes[n].price) /\ b.index[b.nodes[n].id] = n
             /\ OrderAt(b, n) \in RestingOrder
             /\ OrderAt(b, n).order_id = b.nodes[n].id
             /\ OrderAt(b, n).price = b.nodes[n].price
             /\ OrderAt(b, n).side = b.nodes[n].side
             /\ OrderAt(b, n).quantity = b.nodes[n].remaining
             /\ OrderAt(b, n).priority = b.nodes[n].priority
  <2>1. /\ b.nodes[n] \in OrderNode /\ b.nodes[n].id \in OrderIds
        /\ ValidPrice(b.nodes[n].price)
    BY LiveCounted
  <2>2. b.index[b.nodes[n].id] = n
    BY DEF Sound, IndexOK
  <2> QED
    BY <2>1, <2>2 DEF OrderAt, OrderNode, RestingOrder
<1>2. \A m, n \in Live(b) : b.nodes[m].priority = b.nodes[n].priority => m = n
  BY DEF Sound, OrdersOK
<1>3. \A m, n \in Live(b) : b.nodes[m].id = b.nodes[n].id => m = n
  BY <1>1
<1>4. /\ Orders(b) \in SUBSET RestingOrder
      /\ \A o \in Orders(b) : ValidPrice(o.price)
      /\ \A o, p \in Orders(b) : /\ o.order_id = p.order_id => o = p
                                 /\ o.priority = p.priority => o = p
  BY <1>1, <1>2, <1>3 DEF Orders
<1>5. IsFiniteSet(Orders(b)) /\ Cardinality(Orders(b)) = Cardinality(Live(b))
  <2> DEFINE f == [n \in Live(b) |-> OrderAt(b, n)]
  <2>1. f \in [Live(b) -> Orders(b)] /\ \A n \in Live(b) : f[n] = OrderAt(b, n)
    BY DEF Orders
  <2> HIDE DEF f
  <2>2. \A x, y \in Live(b) : f[x] = f[y] => x = y
    BY <1>1, <1>2, <2>1
  <2>3. \A t \in Orders(b) : \E x \in Live(b) : f[x] = t
    BY <2>1 DEF Orders
  <2> QED
    BY <2>1, <2>2, <2>3, LiveFinite, SameSize
<1> QED
  BY <1>4, <1>5, LiveFinite

(* What restore does with one order. *)
AddOrder(b, o) == AddResting(b, o.order_id, o.side, o.price, o.quantity, o.priority)

(* The fold restore is. *)
Restores(f, S) ==
  f = [s \in SUBSET S |-> IF s = {} THEN EmptyBook
                          ELSE LET x == Youngest(s) IN AddOrder(f[s \ {x}], x)]

(* Youngest picks an order of the greatest priority. *)
LEMMA YoungestIn ==
  ASSUME NEW s \in SUBSET RestingOrder, s # {}, IsFiniteSet(s)
  PROVE  Youngest(s) \in s /\ \A p \in s : p.priority <= Youngest(s).priority
<1> DEFINE P == {o.priority : o \in s}
<1>1. P \in SUBSET Nat /\ P # {} /\ \A o \in s : o.priority \in P
  BY DEF RestingOrder
<1>2. IsFiniteSet(P)
  <2> DEFINE f == [o \in s |-> o.priority]
  <2>1. f \in [s -> P] /\ \A o \in s : f[o] = o.priority
    OBVIOUS
  <2>2. \A p \in P : \E o \in s : f[o] = p
    OBVIOUS
  <2> HIDE DEF f, P
  <2>3. f \in Surjection(s, P)
    BY <2>1, <2>2 DEF Surjection
  <2> QED
    BY <2>3, FS_Surjection
<1>3. \E m \in P : \A k \in P : k <= m
  <2> HIDE DEF P
  <2> DEFINE N == Cardinality(P)
  <2>1. /\ N \in Nat /\ \A p \in P : RankIn(P, p) \in 1 .. N
        /\ \A p, q \in P : p < q => RankIn(P, p) < RankIn(P, q)
        /\ \A k \in 1 .. N : \E p \in P : RankIn(P, p) = k
    BY <1>1, <1>2, Ranks
  <2> HIDE DEF N
  <2>2. N \in 1 .. N
    <3>1. PICK p \in P : TRUE
      BY <1>1
    <3> QED
      BY <2>1, <3>1
  <2>3. PICK m \in P : RankIn(P, m) = N
    BY <2>1, <2>2
  <2>4. \A k \in P : k <= m
    BY <1>1, <2>1, <2>3
  <2> QED
    BY <2>4
<1>4. \E o \in s : \A p \in s : p.priority <= o.priority
  BY <1>1, <1>3
<1> QED
  BY <1>4, Zenon DEF Youngest

(* restore, unfolded by its youngest order. *)
LEMMA RestoreIs ==
  ASSUME NEW S \in SUBSET RestingOrder, IsFiniteSet(S)
  PROVE  /\ Restore({}) = EmptyBook
         /\ \A T \in SUBSET S : T # {} =>
              Restore(T) = AddOrder(Restore(T \ {Youngest(T)}), Youngest(T))
<1>0. \A T : Restore(T) = (CHOOSE f : Restores(f, T))[T]
  BY DEF Restore, MapThenFoldSet, Restores, AddOrder
<1>1. ASSUME NEW T \in SUBSET S, T # {}
      PROVE  Youngest(T) \in T
  <2>1. T \in SUBSET RestingOrder /\ IsFiniteSet(T)
    BY FS_Subset
  <2> QED
    BY <1>1, <2>1, YoungestIn
<1>2. ASSUME NEW T \in SUBSET S, NEW f, NEW g, Restores(f, T), Restores(g, T)
      PROVE  f[T] = g[T]
  <2> DEFINE P == {s \in SUBSET T : f[s] = g[s]}
  <2>0. \A s \in SUBSET T :
          /\ f[s] = IF s = {} THEN EmptyBook
                    ELSE AddOrder(f[s \ {Youngest(s)}], Youngest(s))
          /\ g[s] = IF s = {} THEN EmptyBook
                    ELSE AddOrder(g[s \ {Youngest(s)}], Youngest(s))
    BY <1>2 DEF Restores
  <2>1. {} \in P
    BY <2>0
  <2>2. ASSUME NEW U \in SUBSET T, U # {}, \A V \in SUBSET U : V # U => V \in P
        PROVE  U \in P
    <3>1. Youngest(U) \in U
      BY <1>1, <2>2
    <3>2. U \ {Youngest(U)} \in SUBSET U /\ U \ {Youngest(U)} # U
      BY <3>1
    <3>3. f[U \ {Youngest(U)}] = g[U \ {Youngest(U)}]
      BY <2>2, <3>2
    <3> QED
      BY <2>0, <2>2, <3>3
  <2>3. P \in SUBSET (SUBSET T) /\ IsFiniteSet(T)
    BY FS_Subset
  <2>4. P = SUBSET T
    <3> HIDE DEF P
    <3> QED
      BY <2>1, <2>2, <2>3, SubsetInduction
  <2> QED
    BY <2>4
<1> DEFINE Good(s) == Restore(s) = IF s = {} THEN EmptyBook
                                   ELSE AddOrder(Restore(s \ {Youngest(s)}), Youngest(s))
           P == {T \in SUBSET S : Good(T)}
<1>3. ASSUME NEW T \in SUBSET S, \A U \in SUBSET T : U # T => U \in P
      PROVE  T \in P
  <2> DEFINE y == Youngest(T)
             top == IF T = {} THEN EmptyBook ELSE AddOrder(Restore(T \ {y}), y)
             h == [s \in SUBSET T |-> IF s = T THEN top ELSE Restore(s)]
  <2>1. ASSUME NEW s \in SUBSET T
        PROVE  h[s] = IF s = {} THEN EmptyBook
                      ELSE AddOrder(h[s \ {Youngest(s)}], Youngest(s))
    <3>1. CASE s = {}
      <4>1. CASE s = T
        BY <3>1, <4>1
      <4>2. CASE s # T
        BY <1>3, <3>1, <4>2
      <4> QED
        BY <4>1, <4>2
    <3>2. CASE s # {}
      <4>1. Youngest(s) \in s
        BY <1>1, <3>2
      <4>2. h[s \ {Youngest(s)}] = Restore(s \ {Youngest(s)})
        <5> HIDE DEF top
        <5> QED
          BY <4>1
      <4>3. CASE s = T
        BY <3>2, <4>2, <4>3
      <4>4. CASE s # T
        <5>1. Good(s)
          BY <1>3, <4>4
        <5> QED
          BY <3>2, <4>2, <4>4, <5>1
      <4> QED
        BY <4>3, <4>4
    <3> QED
      BY <3>1, <3>2
  <2>2. Restores(h, T)
    <3> DEFINE w == [s \in SUBSET T |-> IF s = {} THEN EmptyBook
                             ELSE LET x == Youngest(s) IN AddOrder(h[s \ {x}], x)]
    <3>1. \A s \in SUBSET T : h[s] = w[s]
      <4> HIDE DEF h
      <4> QED
        BY <2>1
    <3>2. h = [s \in SUBSET T |-> h[s]] /\ w = [s \in SUBSET T |-> w[s]]
      OBVIOUS
    <3>3. h = w
      <4> HIDE DEF h, w
      <4> QED
        BY <3>1, <3>2
    <3> QED
      BY <3>3 DEF Restores
  <2> HIDE DEF h
  <2>3. Restores(CHOOSE f : Restores(f, T), T)
    BY <2>2
  <2>4. Restore(T) = h[T]
    BY <1>0, <1>2, <2>2, <2>3
  <2>5. Good(T)
    BY <2>1, <2>4 DEF h
  <2> QED
    BY <2>5
<1>4. P = SUBSET S
  <2>1. P \in SUBSET (SUBSET S)
    OBVIOUS
  <2>2. {} \in P
    <3>1. {} \in SUBSET S /\ \A U \in SUBSET {} : U # {} => U \in P
      OBVIOUS
    <3> HIDE DEF P
    <3> QED
      BY <1>3, <3>1
  <2> HIDE DEF P
  <2> QED
    BY <1>3, <2>1, <2>2, SubsetInduction
<1>5. \A T \in SUBSET S : Good(T)
  BY <1>4
<1> QED
  BY <1>5

(* The fields of a node as those of an order. *)
LEMMA OrderFields ==
  ASSUME NEW b, NEW n
  PROVE  /\ OrderAt(b, n).order_id = b.nodes[n].id
         /\ OrderAt(b, n).side = b.nodes[n].side
         /\ OrderAt(b, n).price = b.nodes[n].price
         /\ OrderAt(b, n).quantity = b.nodes[n].remaining
         /\ OrderAt(b, n).priority = b.nodes[n].priority
BY DEF OrderAt

(* What add_resting does to the orders. *)
Extended(b, c, id, side, price, quantity, priority) ==
  LET n == b.free[Len(b.free)] IN
  /\ Sound(c)
  /\ n \in Nodes \ Live(b) /\ Live(c) = Live(b) \cup {n}
  /\ \A m \in Live(b) : OrderAt(c, m) = OrderAt(b, m)
  /\ OrderAt(c, n) = [order_id |-> id, side |-> side, price |-> price,
                      quantity |-> quantity, priority |-> priority]
  /\ c.index = [b.index EXCEPT ![id] = n]

(* add_resting adds what Extended says. *)
LEMMA AddExtends ==
  ASSUME NEW b, Sound(b), b.free # <<>>,
         NEW id \in OrderIds, b.index[id] = InvalidNode,
         NEW side \in Sides, NEW price \in Int, ValidPrice(price),
         NEW quantity \in Nat, NEW priority \in Nat,
         \A m \in Live(b) : b.nodes[m].priority < priority
  PROVE  Extended(b, AddResting(b, id, side, price, quantity, priority),
                  id, side, price, quantity, priority)
BY AddSound DEF Extended

(* restore rebuilds a consistent book with exactly the given orders. *)
LEMMA RestoreSound ==
  ASSUME NEW S \in SUBSET RestingOrder, IsFiniteSet(S), Cardinality(S) <= MaximumOrders,
         \A o \in S : ValidPrice(o.price),
         \A o, p \in S : /\ o.order_id = p.order_id => o = p
                         /\ o.priority = p.priority => o = p
  PROVE  Sound(Restore(S)) /\ Orders(Restore(S)) = S
<1> DEFINE P == {T \in SUBSET S : Sound(Restore(T)) /\ Orders(Restore(T)) = T}
<1>1. {} \in P
  <2>1. Restore({}) = EmptyBook
    BY RestoreIs
  <2>2. Sound(EmptyBook) /\ Orders(EmptyBook) = {}
    BY EmptySound DEF Orders
  <2> QED
    BY <2>1, <2>2
<1>2. ASSUME NEW T \in SUBSET S, T # {}, \A U \in SUBSET T : U # T => U \in P
      PROVE  T \in P
  <2> DEFINE y == Youngest(T)
             U == T \ {y}
             b == Restore(U)
             n == b.free[Len(b.free)]
             c == Restore(T)
  <2>0. T \in SUBSET RestingOrder /\ IsFiniteSet(T)
    BY FS_Subset
  <2>1. y \in T /\ \A p \in T : p.priority <= y.priority
    BY <1>2, <2>0, YoungestIn
  <2>2. U \in P
    BY <1>2, <2>1
  <2>3. Sound(b) /\ Orders(b) = U
    BY <2>2
  <2>4. c = AddOrder(b, y)
    BY <1>2, RestoreIs
  <2> HIDE DEF P, b, c, y
  <2>5. y \in RestingOrder /\ y \in S
    BY <2>0, <2>1
  <2>6. /\ y.order_id \in OrderIds /\ y.side \in Sides /\ y.price \in Int /\ y.quantity \in Nat
        /\ y.priority \in Nat
        /\ y = [order_id |-> y.order_id, side |-> y.side, price |-> y.price,
                quantity |-> y.quantity, priority |-> y.priority]
    BY <2>5 DEF RestingOrder
  <2>7. ValidPrice(y.price)
    BY <2>5
  <2>8. \A m \in Live(b) : OrderAt(b, m) \in U
    BY <2>3 DEF Orders
  <2>9. b.index[y.order_id] = InvalidNode
    <3> SUFFICES ASSUME b.index[y.order_id] # InvalidNode PROVE FALSE
      OBVIOUS
    <3> DEFINE m == b.index[y.order_id]
    <3>1. m \in Live(b)
      BY <2>3, <2>6, IndexedLive
    <3>2. b.nodes[m].id = y.order_id
      BY <2>3, <2>6 DEF Sound, IndexOK
    <3>3. OrderAt(b, m) \in U /\ OrderAt(b, m).order_id = y.order_id
      BY <2>8, <3>1, <3>2, OrderFields
    <3> QED
      BY <2>5, <3>3
  <2>10. \A m \in Live(b) : b.nodes[m].priority < y.priority
    <3> SUFFICES ASSUME NEW m \in Live(b) PROVE b.nodes[m].priority < y.priority
      OBVIOUS
    <3> DEFINE o == OrderAt(b, m)
    <3>1. o \in U /\ o \in S /\ o.priority = b.nodes[m].priority /\ o \in RestingOrder
      BY <2>0, <2>8, OrderFields
    <3> HIDE DEF o
    <3>2. o.priority \in Nat /\ o.priority <= y.priority /\ o # y
      BY <2>1, <3>1 DEF RestingOrder
    <3>3. o.priority # y.priority
      BY <2>5, <3>1, <3>2
    <3> QED
      BY <2>6, <3>1, <3>2, <3>3
  <2>11. b.free # <<>>
    <3>1. Cardinality(Live(b)) = Cardinality(U)
      BY <2>3, OrdersAre
    <3>2. Cardinality(U) < MaximumOrders
      <4>1. Cardinality(T) <= Cardinality(S) /\ Cardinality(T) \in Nat /\ Cardinality(S) \in Nat
        BY <2>0, FS_Subset, FS_CardinalityType
      <4>2. Cardinality(U) = Cardinality(T) - 1
        BY <2>0, <2>1, FS_RemoveElement
      <4> QED
        BY <4>1, <4>2, ConfigAssumption
    <3>3. Live(b) # Nodes
      <4>1. Cardinality(Nodes) = MaximumOrders /\ MaximumOrders \in Nat
        BY NodesFinite, ConfigAssumption
      <4>2. Cardinality(Live(b)) \in Nat
        BY LiveFinite
      <4> QED
        BY <3>1, <3>2, <4>1, <4>2
    <3>4. PICK m \in Nodes : m \notin Live(b)
      BY <3>3, LiveFinite
    <3>5. PICK k \in 1 .. Len(b.free) : b.free[k] = m
      BY <2>3, <3>4 DEF Sound, FreeOK
    <3>6. b.free = <<>> => Len(b.free) = 0
      OBVIOUS
    <3>7. Len(b.free) # 0
      <4>1. k \in Int /\ 1 <= k /\ k <= Len(b.free)
        BY <3>5
      <4> QED
        BY <4>1
    <3> QED
      BY <3>6, <3>7
  <2>12. /\ Sound(c) /\ Live(c) = Live(b) \cup {n}
         /\ \A m \in Live(b) : OrderAt(c, m) = OrderAt(b, m)
         /\ OrderAt(c, n) = [order_id |-> y.order_id, side |-> y.side, price |-> y.price,
                             quantity |-> y.quantity, priority |-> y.priority]
    <3>1. c = AddResting(b, y.order_id, y.side, y.price, y.quantity, y.priority)
      BY <2>4 DEF AddOrder
    <3>2. Extended(b, c, y.order_id, y.side, y.price, y.quantity, y.priority)
      BY <2>3, <2>6, <2>7, <2>9, <2>10, <2>11, <3>1, AddExtends, Zenon
    <3> QED
      BY <3>2 DEF Extended
  <2>13. Orders(c) = U \cup {y}
    BY <2>3, <2>6, <2>12 DEF Orders
  <2>14. Orders(c) = T
    BY <2>1, <2>13
  <2> QED
    BY <2>12, <2>14 DEF c, P
<1>3. P = SUBSET S
  <2>1. P \in SUBSET (SUBSET S)
    OBVIOUS
  <2> HIDE DEF P
  <2> QED
    BY <1>1, <1>2, <2>1, SubsetInduction
<1> QED
  BY <1>3

(* Books with the same orders have the same queues, whatever their nodes. *)
LEMMA SameQueues ==
  ASSUME NEW b, Sound(b), NEW c, Sound(c), Orders(b) = Orders(c),
         NEW side \in Sides, NEW i \in Levels
  PROVE  [k \in DOMAIN Fifo(b, side, i) |-> OrderAt(b, Fifo(b, side, i)[k])]
         = [k \in DOMAIN Fifo(c, side, i) |-> OrderAt(c, Fifo(c, side, i)[k])]
<1> DEFINE Q(x) == Queued(x, side, i)
           N(x) == Cardinality(Q(x))
           F(x) == Fifo(x, side, i)
           P(x) == PrioritiesAt(x, side, i)
           At(x, n) == Place(x, side, i, n)
<1>1. ASSUME NEW x, Sound(x)
      PROVE  /\ F(x) \in [1 .. N(x) -> Q(x)]
             /\ \A k \in 1 .. N(x) : At(x, F(x)[k]) = k
             /\ \A n \in Q(x) : F(x)[At(x, n)] = n
             /\ Cardinality(P(x)) = N(x)
             /\ \A n \in Q(x) : At(x, n) = RankIn(P(x), OrderAt(x, n).priority)
  <2>1. /\ F(x) \in [1 .. N(x) -> Q(x)]
        /\ \A k \in 1 .. N(x) : At(x, F(x)[k]) = k
        /\ \A n \in Q(x) : F(x)[At(x, n)] = n
    BY <1>1, FifoIs
  <2>2. Cardinality(P(x)) = N(x)
    BY <1>1, PrioritiesCount
  <2>3. \A n \in Q(x) : At(x, n) = RankIn(P(x), x.nodes[n].priority)
    BY DEF Place
  <2> HIDE DEF Q, N, F, P, At
  <2> QED
    BY <2>1, <2>2, <2>3, OrderFields
<1>2. ASSUME NEW x, NEW y, Orders(x) = Orders(y), NEW n \in Q(x)
      PROVE  \E m \in Q(y) : OrderAt(y, m) = OrderAt(x, n)
  <2>1. n \in Live(x) /\ x.nodes[n].side = side /\ PriceIndex(x.nodes[n].price) = i
    BY DEF Queued
  <2>2. OrderAt(x, n) \in Orders(y)
    BY <1>2, <2>1 DEF Orders
  <2>3. PICK m \in Live(y) : OrderAt(y, m) = OrderAt(x, n)
    BY <2>2 DEF Orders
  <2>4. y.nodes[m].side = side /\ PriceIndex(y.nodes[m].price) = i
    BY <2>1, <2>3, OrderFields
  <2> QED
    BY <2>3, <2>4 DEF Queued
<1>3. ASSUME NEW x, NEW y, Orders(x) = Orders(y), NEW p \in P(x) PROVE p \in P(y)
  <2>1. PICK n \in Q(x) : p = OrderAt(x, n).priority
    BY OrderFields DEF PrioritiesAt
  <2>2. PICK m \in Q(y) : OrderAt(y, m) = OrderAt(x, n)
    BY <1>2, <1>3
  <2> QED
    BY <2>1, <2>2, OrderFields DEF PrioritiesAt
<1> HIDE DEF Q, F, P, At
<1>4. P(b) = P(c)
  BY <1>3
<1>5. N(b) = N(c)
  BY <1>1, <1>4
<1>6. ASSUME NEW k \in 1 .. N(b) PROVE OrderAt(b, F(b)[k]) = OrderAt(c, F(c)[k])
  <2> HIDE DEF N
  <2>1. F(b)[k] \in Q(b) /\ At(b, F(b)[k]) = k
    BY <1>1
  <2>2. PICK m \in Q(c) : OrderAt(c, m) = OrderAt(b, F(b)[k])
    BY <1>2, <2>1
  <2>3. At(c, m) = k
    <3>1. At(c, m) = RankIn(P(c), OrderAt(c, m).priority)
      BY <1>1
    <3>2. k = RankIn(P(b), OrderAt(b, F(b)[k]).priority)
      BY <1>1, <2>1
    <3> QED
      BY <1>4, <2>2, <3>1, <3>2
  <2>4. F(c)[k] = m
    BY <1>1, <2>3
  <2> QED
    BY <2>2, <2>4
<1> HIDE DEF N
<1>7. DOMAIN F(b) = 1 .. N(b) /\ DOMAIN F(c) = 1 .. N(b)
  BY <1>1, <1>5
<1>8. [k \in DOMAIN F(b) |-> OrderAt(b, F(b)[k])] = [k \in DOMAIN F(c) |-> OrderAt(c, F(c)[k])]
  BY <1>6, <1>7
<1> QED
  BY <1>8 DEF F

(* The operations in terms of the resting orders. *)
LEMMA RemoveOrders ==
  ASSUME NEW b, Sound(b), NEW n \in Live(b)
  PROVE  LET c == RemoveNode(b, n) IN
         /\ Sound(c)
         /\ Orders(c) = Orders(b) \ {OrderAt(b, n)}
         /\ c.index[b.nodes[n].id] = InvalidNode
         /\ c.free # <<>>
<1> DEFINE c == RemoveNode(b, n)
<1>1. /\ Sound(c) /\ Live(c) = Live(b) \ {n}
      /\ \A m \in Live(c) : OrderAt(c, m) = OrderAt(b, m)
      /\ c.index = [b.index EXCEPT ![b.nodes[n].id] = InvalidNode]
      /\ c.free # <<>>
  BY RemoveSound
<1>2. b.index \in [OrderIds -> Nodes \cup {InvalidNode}] /\ b.nodes[n].id \in OrderIds
  BY LiveCounted DEF Sound, BookType
<1> HIDE DEF c
<1>3. \A m \in Live(b) : OrderAt(b, m) = OrderAt(b, n) => m = n
  BY OrderFields DEF Sound, OrdersOK
<1>4. Orders(c) = Orders(b) \ {OrderAt(b, n)}
  BY <1>1, <1>3 DEF Orders
<1> QED
  BY <1>1, <1>2, <1>4 DEF c

(* One iteration takes the traded quantity from one order,
   and the order out when nothing is left of it. *)
LEMMA TradeOrders ==
  ASSUME NEW b, Sound(b), NEW n \in Live(b),
         NEW traded \in Nat, traded <= b.nodes[n].remaining
  PROVE  LET c == TradeWith(b, n, traded)
             o == OrderAt(b, n) IN
         /\ Sound(c)
         /\ Orders(c) = IF traded = o.quantity THEN Orders(b) \ {o}
                        ELSE (Orders(b) \ {o}) \cup {[o EXCEPT !.quantity = @ - traded]}
         /\ \A id \in OrderIds : b.index[id] = InvalidNode => c.index[id] = InvalidNode
         /\ traded = o.quantity => c.free # <<>>
<1> DEFINE c == TradeWith(b, n, traded)
           o == OrderAt(b, n)
<1>1. /\ Sound(c)
      /\ \A m \in Live(c) \ {n} : OrderAt(c, m) = OrderAt(b, m)
      /\ IF b.nodes[n].remaining = traded
         THEN /\ Live(c) = Live(b) \ {n} /\ c.free # <<>>
              /\ c.index = [b.index EXCEPT ![b.nodes[n].id] = InvalidNode]
         ELSE /\ Live(c) = Live(b) /\ c.free = b.free /\ c.index = b.index
              /\ OrderAt(c, n) = [o EXCEPT !.quantity = @ - traded]
  <2>1. Matched(b, c, n, traded)
    BY TradeSound, Zenon
  <2> HIDE DEF c
  <2> QED
    BY <2>1 DEF Matched
<1>2. b.index \in [OrderIds -> Nodes \cup {InvalidNode}] /\ b.nodes[n].id \in OrderIds
  BY LiveCounted DEF Sound, BookType
<1>o. o.quantity = b.nodes[n].remaining /\ o = OrderAt(b, n)
  BY OrderFields
<1> HIDE DEF c, o
<1>3. \A m \in Live(b) : OrderAt(b, m) = o => m = n
  BY <1>o, OrderFields DEF Sound, OrdersOK
<1>4. CASE b.nodes[n].remaining = traded
  <2>1. /\ Live(c) = Live(b) \ {n} /\ c.free # <<>>
        /\ c.index = [b.index EXCEPT ![b.nodes[n].id] = InvalidNode]
    BY <1>1, <1>4
  <2>2. Orders(c) = Orders(b) \ {o}
    BY <1>1, <1>3, <1>o, <2>1 DEF Orders
  <2>3. \A id \in OrderIds : b.index[id] = InvalidNode => c.index[id] = InvalidNode
    BY <1>2, <2>1
  <2> QED
    BY <1>1, <1>4, <1>o, <2>1, <2>2, <2>3 DEF c, o
<1>5. CASE b.nodes[n].remaining # traded
  <2> DEFINE p == [o EXCEPT !.quantity = @ - traded]
  <2>1. Live(c) = Live(b) /\ c.index = b.index /\ OrderAt(c, n) = p
    BY <1>1, <1>5
  <2> HIDE DEF p
  <2>2. Orders(c) = (Orders(b) \ {o}) \cup {p}
    BY <1>1, <1>3, <1>o, <2>1 DEF Orders
  <2>3. traded # o.quantity
    BY <1>5, <1>o
  <2> QED
    BY <1>1, <2>1, <2>2, <2>3 DEF c, o, p
<1> QED
  BY <1>4, <1>5

(* add_resting adds one order. *)
LEMMA AddOrders ==
  ASSUME NEW b, Sound(b), b.free # <<>>,
         NEW id \in OrderIds, b.index[id] = InvalidNode,
         NEW side \in Sides, NEW price \in Int, ValidPrice(price),
         NEW quantity \in Nat, NEW priority \in Nat,
         \A o \in Orders(b) : o.priority < priority
  PROVE  LET c == AddResting(b, id, side, price, quantity, priority) IN
         /\ Sound(c)
         /\ Orders(c) = Orders(b) \cup {[order_id |-> id, side |-> side, price |-> price,
                                         quantity |-> quantity, priority |-> priority]}
<1> DEFINE c == AddResting(b, id, side, price, quantity, priority)
           o == [order_id |-> id, side |-> side, price |-> price,
                 quantity |-> quantity, priority |-> priority]
           n == b.free[Len(b.free)]
<1>1. \A m \in Live(b) : b.nodes[m].priority < priority
  BY OrderFields DEF Orders
<1>2. Extended(b, c, id, side, price, quantity, priority)
  BY <1>1, AddExtends, Zenon
<1>3. /\ Sound(c) /\ Live(c) = Live(b) \cup {n}
      /\ \A m \in Live(b) : OrderAt(c, m) = OrderAt(b, m)
      /\ OrderAt(c, n) = o
  BY <1>2 DEF Extended
<1> HIDE DEF c, o, n
<1>4. Orders(c) = Orders(b) \cup {o}
  BY <1>3 DEF Orders
<1> QED
  BY <1>3, <1>4 DEF c, o

(* The index answers for the resting identifiers. *)
LEMMA IndexAnswers ==
  ASSUME NEW b, Sound(b), NEW id \in OrderIds
  PROVE  /\ b.index[id] = InvalidNode <=> ~\E o \in Orders(b) : o.order_id = id
         /\ b.index[id] # InvalidNode => /\ b.index[id] \in Live(b)
                                         /\ b.nodes[b.index[id]].id = id
                                         /\ OrderAt(b, b.index[id]) \in Orders(b)
                                         /\ OrderAt(b, b.index[id]).order_id = id
<1>1. b.index[id] # InvalidNode =>
        b.index[id] \in Live(b) /\ b.nodes[b.index[id]].id = id
  BY IndexedLive DEF Sound, IndexOK
<1>2. b.index[id] # InvalidNode => /\ OrderAt(b, b.index[id]) \in Orders(b)
                                   /\ OrderAt(b, b.index[id]).order_id = id
  BY <1>1, OrderFields DEF Orders
<1>3. ASSUME NEW o \in Orders(b), o.order_id = id PROVE b.index[id] # InvalidNode
  <2>1. PICK n \in Live(b) : o = OrderAt(b, n)
    BY DEF Orders
  <2>2. b.nodes[n].id = id /\ n \in Nodes /\ InvalidNode \notin Nodes
    BY <1>3, <2>1, OrderFields, LiveFinite, NodesFinite
  <2>3. b.index[id] = n
    BY <2>2 DEF Sound, IndexOK
  <2> QED
    BY <2>2, <2>3
<1> QED
  BY <1>1, <1>2, <1>3

-----------------------------------------------------------------------------
(* Commands, and the invariant of the specification. *)

(* Every order has a quantity left, at most one that a client sent, and came
   with sequence s or before. *)
Fit(orders, s) ==
  \A o \in orders : /\ o.quantity > 0 /\ o.priority <= s
                    /\ \E q \in Quantities : o.quantity <= q

(* While a command is matched, every order is older than it, and if no node is
   free the loop goes on. *)
CommandFit ==
  IF command = NoCommand THEN Fit(Orders(book), lastSequence)
  ELSE /\ command.sequence = lastSequence /\ lastSequence > 0
       /\ Fit(Orders(book), lastSequence - 1)
       /\ command.quantity \in Quantities /\ remaining <= command.quantity
       /\ book.index[command.order_id] = InvalidNode
       /\ command.order_type # "Market" => ValidPrice(command.price)
       /\ (command.order_type = "Limit" /\ remaining > 0 /\ book.free = <<>>)
            => LoopContinues

IndInv == TypeOK /\ Sound(book) /\ CommandFit

(* The commands a client may send are commands. *)
LEMMA CommandsTyped ==
  ASSUME NEW s \in Nat, NEW c \in Commands(s)
  PROVE  c \in Command /\ c.sequence = s /\ (c.type # "Cancel" => c.quantity \in Quantities)
<1> DEFINE Submits == [sequence: {s}, type: {"New"}, side: Sides, order_type: OrderTypes,
                       order_id: OrderIds, price: Prices, quantity: Quantities]
           Replaces == [sequence: {s}, type: {"Replace"}, side: Sides,
                        order_type: {"Limit", "FillOrKill"},
                        order_id: OrderIds, price: Prices, quantity: Quantities]
           Cancels == [sequence: {s}, type: {"Cancel"}, side: Sides, order_type: {"Limit"},
                       order_id: OrderIds, price: {0}, quantity: {0}]
<1>1. c \in Submits \cup Replaces \cup Cancels
  BY DEF Commands
<1>2. c \in Submits => c \in Command /\ c.sequence = s /\ c.quantity \in Quantities
  BY InputAssumption DEF Command, CommandTypes
<1>3. c \in Replaces => c \in Command /\ c.sequence = s /\ c.quantity \in Quantities
  BY InputAssumption DEF Command, CommandTypes, OrderTypes
<1>4. c \in Cancels => c \in Command /\ c.sequence = s /\ c.type = "Cancel"
  BY DEF Command, CommandTypes, OrderTypes
<1> QED
  BY <1>1, <1>2, <1>3, <1>4

(* emit builds an event. *)
LEMMA EmitTyped ==
  ASSUME NEW type \in EventTypes, NEW c \in Command, NEW contra \in OrderIds \cup {NoOrder},
         NEW price \in Int, NEW quantity \in Nat, NEW reason \in RejectReasons
  PROVE  Emit(type, c, contra, price, quantity, reason) \in Event
BY DEF Emit, Event, Command

(* A rejection is an event. *)
LEMMA RejectionTyped ==
  ASSUME NEW c \in Command, NEW reason \in RejectReasons
  PROVE  Rejection(c, reason) \in Event
BY EmitTyped DEF Rejection, EventTypes, RejectReasons

(* An acceptance is an event. *)
LEMMA AcceptanceTyped ==
  ASSUME NEW c \in Command
  PROVE  Acceptance(c) \in Event
BY EmitTyped DEF Acceptance, EventTypes, RejectReasons

(* What submit returns early with is a reject reason. *)
LEMMA SubmitReasonTyped ==
  ASSUME NEW b, NEW c, NEW replacement
  PROVE  SubmitReason(b, c, replacement) \in RejectReasons
BY DEF SubmitReason, RejectReasons

(* can_fully_fill finds nothing unless the best opposite level crosses. *)
LEMMA NothingCrossesNothingFills ==
  ASSUME NEW b, NEW side, NEW limit, NEW quantity \in Nat, quantity # 0,
         CanFullyFill(b, side, limit, quantity)
  PROVE  CrossesLevel(side, limit, BestIndex(b, Opposite(side)))
<1> SUFFICES ASSUME ScannedLevels(b, side, limit) = {} PROVE FALSE
  BY DEF ScannedLevels
<1> DEFINE Sum(iter) == iter = [s \in SUBSET {} |->
                          IF s = {} THEN 0
                          ELSE LET x == CHOOSE x \in s : TRUE
                               IN  b.levels[Opposite(side)][x].total_quantity + iter[s \ {x}]]
<1>1. Sum([s \in SUBSET {} |-> 0])
  OBVIOUS
<1>2. Sum(CHOOSE iter : Sum(iter))
  BY <1>1
<1>3. (CHOOSE iter : Sum(iter))[{}] = 0
  BY <1>2
<1>4. MapThenSumSet(LAMBDA i : b.levels[Opposite(side)][i].total_quantity, {}) = 0
  BY <1>3 DEF MapThenSumSet, MapThenFoldSet
<1>5. 0 >= quantity
  BY <1>4 DEF CanFullyFill
<1> QED
  BY <1>5

(* The order the loop trades with: the head of the best opposite level. *)
LEMMA MakerLive ==
  ASSUME NEW b, Sound(b), NEW side \in Sides, BestIndex(b, side) # NoPrice
  PROVE  LET i == BestIndex(b, side)
             n == Maker(b.levels[side][i]) IN
         /\ i \in Occupied(b, side) /\ i \in Levels
         /\ \A j \in Occupied(b, side) : NoWorse(side, i, j)
         /\ n \in Queued(b, side, i) /\ n \in Live(b)
         /\ \A m \in Queued(b, side, i) : b.nodes[n].priority <= b.nodes[m].priority
<1> DEFINE i == BestIndex(b, side)
<1>1. i \in Occupied(b, side) /\ \A j \in Occupied(b, side) : NoWorse(side, i, j)
  BY BestIndexIs
<1> HIDE DEF i
<1>2. i \in Levels /\ Queued(b, side, i) # {}
  BY <1>1 DEF Occupied
<1>3. LET n == b.levels[side][i].head IN
      /\ n \in Queued(b, side, i)
      /\ \A m \in Queued(b, side, i) : b.nodes[n].priority <= b.nodes[m].priority
  BY <1>2 DEF Sound, EndsOK
<1>4. Queued(b, side, i) \subseteq Live(b)
  BY LiveFinite
<1> QED
  BY <1>1, <1>2, <1>3, <1>4 DEF i, Maker

(* Fewer orders fit as well. *)
LEMMA FitSubset ==
  ASSUME NEW O, NEW P \in SUBSET O, NEW s, Fit(O, s)
  PROVE  Fit(P, s)
BY DEF Fit

(* An early return leaves the book alone. *)
LEMMA RejectPreserves ==
  ASSUME IndInv, command = NoCommand, NEW c \in Command, NEW reason \in RejectReasons,
         lastSequence' \in Nat, lastSequence <= lastSequence', Reject(c, reason)
  PROVE  IndInv'
<1>1. events' = <<Rejection(c, reason)>> /\ book' = book /\ command' = command
      /\ remaining' = remaining
  BY DEF Reject
<1>2. events' \in Seq(Event)
  BY <1>1, RejectionTyped
<1>3. TypeOK'
  BY <1>1, <1>2 DEF IndInv, TypeOK
<1>4. Fit(Orders(book), lastSequence')
  <2>1. \A o \in Orders(book) : o.priority \in Nat
    BY OrdersAre DEF IndInv, RestingOrder
  <2>2. lastSequence \in Nat
    BY DEF IndInv, TypeOK
  <2> QED
    BY <2>1, <2>2 DEF Fit, IndInv, CommandFit
<1>5. CommandFit'
  BY <1>1, <1>4 DEF CommandFit
<1>6. Sound(book')
  BY <1>1 DEF IndInv
<1> QED
  BY <1>3, <1>5, <1>6 DEF IndInv

(* submit, on the book as it is or with one order taken out of it. *)
LEMMA SubmitPreserves ==
  ASSUME IndInv, command = NoCommand, NEW c \in Command, c.quantity \in Quantities,
         NEW replacement \in BOOLEAN,
         NEW b, Sound(b), Orders(b) \subseteq Orders(book),
         replacement => b.index[c.order_id] = InvalidNode /\ b.free # <<>>,
         c.sequence = lastSequence + 1, lastSequence' = c.sequence,
         NEW before \in Seq(Event),
         Submit(b, c, before, replacement)
  PROVE  IndInv'
<1> DEFINE reason == SubmitReason(b, c, replacement)
<1>1. book' = b
  BY DEF Submit
<1>2. lastSequence \in Nat /\ lastSequence' \in Nat /\ lastSequence' - 1 = lastSequence
      /\ lastSequence' > 0
  BY DEF IndInv, TypeOK
<1>3. Fit(Orders(b), lastSequence)
  BY FitSubset DEF IndInv, CommandFit
<1>4. Sound(book') /\ b \in BookType
  BY <1>1 DEF Sound
<1>5. CASE reason = "None"
  <2>1. command' = c /\ remaining' = c.quantity /\ c # NoCommand
    BY <1>5, InputAssumption DEF Submit
  <2>2. events' \in Seq(Event)
    <3>1. events' = IF replacement THEN before ELSE Append(before, Acceptance(c))
      BY <1>5 DEF Submit
    <3> QED
      BY <3>1, AcceptanceTyped
  <2>3. TypeOK'
    BY <1>1, <1>2, <1>4, <2>1, <2>2 DEF TypeOK, BookType, Command
  <2>4. /\ c.quantity # 0
        /\ c.order_type # "Market" => ValidPrice(c.price)
        /\ ~replacement => b.index[c.order_id] = InvalidNode
        /\ ~NoRoom(b, c)
    BY <1>5 DEF SubmitReason
  <2>5. b.index[c.order_id] = InvalidNode
    BY <2>4
  <2>6. c.quantity \in Nat
    BY DEF Command
  <2>7. c.order_type = "Limit" /\ b.free = <<>> =>
          CrossesLevel(c.side, EffectiveLimit(c), BestIndex(b, Opposite(c.side)))
    BY <2>4, <2>6, NothingCrossesNothingFills DEF NoRoom
  <2>8. (command'.order_type = "Limit" /\ remaining' > 0 /\ book'.free = <<>>)
          => LoopContinues'
    BY <1>1, <2>1, <2>7 DEF LoopContinues, BestOpposite
  <2>9. CommandFit'
    BY <1>1, <1>2, <1>3, <2>1, <2>4, <2>5, <2>6, <2>8 DEF CommandFit
  <2> QED
    BY <1>4, <2>3, <2>9 DEF IndInv
<1>6. CASE reason # "None"
  <2>1. events' = Append(before, Rejection(c, reason)) /\ command' = command
        /\ remaining' = remaining
    BY <1>6 DEF Submit
  <2>2. events' \in Seq(Event)
    BY <2>1, RejectionTyped, SubmitReasonTyped
  <2>3. TypeOK'
    BY <1>1, <1>2, <1>4, <2>1, <2>2 DEF TypeOK, BookType, IndInv
  <2>4. Fit(Orders(b), lastSequence')
    <3>1. \A o \in Orders(b) : o.priority \in Nat
      BY OrdersAre DEF RestingOrder
    <3> QED
      BY <1>2, <1>3, <3>1 DEF Fit
  <2>5. CommandFit'
    BY <1>1, <2>1, <2>4 DEF CommandFit
  <2> QED
    BY <1>4, <2>3, <2>5 DEF IndInv
<1> QED
  BY <1>5, <1>6

(* Every outcome of process() on arrival. *)
LEMMA ProcessPreserves ==
  ASSUME IndInv, NEW c \in Command, c.type # "Cancel" => c.quantity \in Quantities, Process(c)
  PROVE  IndInv'
<1>0. /\ command = NoCommand /\ lastSequence \in Nat /\ remaining \in Nat /\ Sound(book)
      /\ Fit(Orders(book), lastSequence) /\ c.order_id \in OrderIds
  BY DEF Process, SequenceGap, New, Cancel, Replace, InSequence, Ready, IndInv, TypeOK,
         CommandFit, Command
<1>1. CASE SequenceGap(c)
  BY <1>0, <1>1, RejectPreserves DEF SequenceGap, RejectReasons
<1>s. ASSUME InSequence(c)
      PROVE  /\ c.sequence = lastSequence + 1 /\ lastSequence' = c.sequence
             /\ lastSequence' \in Nat /\ lastSequence <= lastSequence'
  BY <1>0, <1>s DEF InSequence
<1>2. CASE New(c)
  <2>1. Submit(book, c, <<>>, FALSE) /\ InSequence(c) /\ c.quantity \in Quantities
    BY <1>2 DEF New
  <2>3. <<>> \in Seq(Event) /\ Orders(book) \subseteq Orders(book)
    OBVIOUS
  <2> QED
    BY <1>0, <1>s, <2>1, <2>3, SubmitPreserves
<1> DEFINE found == book.index[c.order_id]
<1>3. CASE Cancel(c)
  <2>0. InSequence(c)
    BY <1>3 DEF Cancel
  <2>1. CASE found = InvalidNode
    <3>1. Reject(c, "UnknownOrderId")
      BY <1>3, <2>1 DEF Cancel
    <3> QED
      BY <1>0, <1>s, <2>0, <3>1, RejectPreserves DEF RejectReasons
  <2>2. CASE found # InvalidNode
    <3>1. /\ book' = RemoveNode(book, found)
          /\ events' = <<Emit("Cancelled", c, NoOrder, book.nodes[found].price,
                              book.nodes[found].remaining, "None")>>
          /\ command' = command /\ remaining' = remaining
      BY <1>3, <2>2 DEF Cancel
    <3>2. found \in Live(book)
      BY <1>0, <2>2, IndexAnswers
    <3> HIDE DEF found
    <3>3. Sound(book') /\ Orders(book') \subseteq Orders(book)
      BY <1>0, <3>1, <3>2, RemoveOrders
    <3>4. book.nodes[found].price \in Int /\ book.nodes[found].remaining \in Nat
      BY <1>0, <3>2, LiveCounted DEF OrderNode
    <3>5. events' \in Seq(Event)
      BY <3>1, <3>4, EmitTyped DEF EventTypes, RejectReasons
    <3>6. TypeOK'
      BY <1>0, <1>s, <2>0, <3>1, <3>3, <3>5 DEF TypeOK, Sound, BookType
    <3>7. Fit(Orders(book'), lastSequence')
      <4>1. Fit(Orders(book'), lastSequence)
        BY <1>0, <3>3, FitSubset
      <4>2. \A o \in Orders(book') : o.priority \in Nat
        BY <3>3, OrdersAre DEF RestingOrder
      <4> QED
        BY <1>0, <1>s, <2>0, <4>1, <4>2 DEF Fit
    <3>8. CommandFit'
      BY <1>0, <3>1, <3>7 DEF CommandFit
    <3> QED
      BY <3>3, <3>6, <3>8 DEF IndInv
  <2> QED
    BY <2>1, <2>2
<1>4. CASE Replace(c)
  <2>0. InSequence(c) /\ c.quantity \in Quantities
    BY <1>4 DEF Replace
  <2>1. CASE found = InvalidNode
    <3>1. Reject(c, "UnknownOrderId")
      BY <1>4, <2>1 DEF Replace
    <3> QED
      BY <1>0, <1>s, <2>0, <3>1, RejectPreserves DEF RejectReasons
  <2>2. CASE found # InvalidNode /\ ReplaceReason(c) # "None"
    <3>1. Reject(c, ReplaceReason(c))
      BY <1>4, <2>2 DEF Replace
    <3>2. ReplaceReason(c) \in RejectReasons
      BY DEF ReplaceReason, RejectReasons
    <3> QED
      BY <1>0, <1>s, <2>0, <3>1, <3>2, RejectPreserves
  <2>3. CASE found # InvalidNode /\ ReplaceReason(c) = "None"
    <3> DEFINE r == Replacement(c, book.nodes[found].side)
               b == RemoveNode(book, found)
               e == Emit("Replaced", r, NoOrder, r.price, r.quantity, "None")
    <3>1. Submit(b, r, <<e>>, TRUE)
      BY <1>4, <2>3 DEF Replace
    <3>2. found \in Live(book) /\ book.nodes[found].id = c.order_id
      BY <1>0, <2>3, IndexAnswers
    <3>s. book.nodes[found].side \in Sides
      BY <1>0, <3>2, LiveCounted
    <3> HIDE DEF found
    <3>3. /\ Sound(b) /\ Orders(b) \subseteq Orders(book)
          /\ b.index[c.order_id] = InvalidNode /\ b.free # <<>>
      BY <1>0, <3>2, RemoveOrders
    <3>4. /\ r \in Command /\ r.order_id = c.order_id /\ r.sequence = c.sequence
          /\ r.quantity = c.quantity
      BY <3>s DEF Replacement, Command, OrderTypes
    <3>5. e \in Event
      BY <3>4, EmitTyped, ZenonT(40) DEF Command, EventTypes, RejectReasons
    <3>6. <<e>> \in Seq(Event)
      BY <3>5
    <3> HIDE DEF b, r, e
    <3> QED
      BY <1>0, <1>s, <2>0, <3>1, <3>3, <3>4, <3>6, SubmitPreserves
  <2> QED
    BY <2>1, <2>2, <2>3
<1> QED
  BY <1>1, <1>2, <1>3, <1>4 DEF Process

(* The event vector keeps its type. *)
LEMMA AppendTyped ==
  ASSUME TypeOK, NEW e \in Event, events' = Append(events, e)
  PROVE  events' \in Seq(Event)
BY DEF TypeOK

(* What the loop's command and its maker are when it goes on. *)
LEMMA LoopState ==
  ASSUME IndInv, command # NoCommand
  PROVE  /\ command \in Command /\ Sound(book) /\ lastSequence \in Nat \ {0} /\ remaining \in Nat
         /\ command.sequence = lastSequence /\ Opposite(command.side) \in Sides
         /\ command.order_id \in OrderIds /\ command.side \in Sides /\ command.price \in Int
         /\ Fit(Orders(book), lastSequence - 1)
         /\ book.index[command.order_id] = InvalidNode
BY SMTT(30) DEF IndInv, TypeOK, CommandFit, Command, Opposite, Sides

(* An iteration of the matching loop preserves the invariant. *)
LEMMA TradePreserves ==
  ASSUME IndInv, Trade
  PROVE  IndInv'
<1> DEFINE side == Opposite(command.side)
           i == BestIndex(book, side)
           n == Maker(book.levels[side][i])
           o == OrderAt(book, n)
           traded == Traded(remaining, book.nodes[n].remaining)
<1>1. /\ command # NoCommand /\ remaining > 0 /\ i # NoPrice
      /\ remaining' = remaining - traded
      /\ book' = TradeWith(book, n, traded)
      /\ events' = Append(events, Emit("Trade", command, book.nodes[n].id,
                                       book.nodes[n].price, traded, "None"))
      /\ lastSequence' = lastSequence /\ command' = command
  BY ZenonT(30) DEF Trade, LoopContinues, BestOpposite, CrossesLevel
<1>2. /\ command \in Command /\ Sound(book) /\ lastSequence \in Nat \ {0} /\ remaining \in Nat
      /\ command.sequence = lastSequence /\ side \in Sides /\ command.order_id \in OrderIds
      /\ Fit(Orders(book), lastSequence - 1) /\ book.index[command.order_id] = InvalidNode
  BY <1>1, LoopState, ZenonT(30)
<1>3. n \in Live(book)
  BY <1>1, <1>2, MakerLive, ZenonT(30)
<1>4. /\ o \in Orders(book) /\ o \in RestingOrder
      /\ o.order_id = book.nodes[n].id /\ o.price = book.nodes[n].price
      /\ o.quantity = book.nodes[n].remaining /\ o.side = book.nodes[n].side
      /\ o.priority = book.nodes[n].priority
  <2>1. o \in Orders(book)
    BY <1>3 DEF Orders
  <2>2. Orders(book) \in SUBSET RestingOrder
    BY <1>2, OrdersAre
  <2>3. /\ o.order_id = book.nodes[n].id /\ o.price = book.nodes[n].price
        /\ o.quantity = book.nodes[n].remaining /\ o.side = book.nodes[n].side
        /\ o.priority = book.nodes[n].priority
    BY OrderFields
  <2> HIDE DEF n, i, side, o
  <2> QED
    BY <2>1, <2>2, <2>3
<1> HIDE DEF n, i, side, o
<1>5. /\ o.order_id \in OrderIds /\ o.price \in Int /\ o.quantity \in Nat /\ o.quantity > 0
      /\ o.priority \in Nat /\ o.side \in Sides
  BY <1>2, <1>4 DEF RestingOrder, Fit
<1>6. /\ traded \in Nat /\ traded <= o.quantity /\ traded > 0 /\ traded <= remaining
      /\ traded = o.quantity \/ traded = remaining
  BY <1>1, <1>2, <1>4, <1>5 DEF Traded
<1> HIDE DEF traded
<1>7. /\ Sound(book')
      /\ Orders(book') = IF traded = o.quantity THEN Orders(book) \ {o}
                         ELSE (Orders(book) \ {o}) \cup {[o EXCEPT !.quantity = @ - traded]}
      /\ \A id \in OrderIds : book.index[id] = InvalidNode => book'.index[id] = InvalidNode
      /\ traded = o.quantity => book'.free # <<>>
  BY <1>1, <1>2, <1>3, <1>4, <1>6, TradeOrders DEF o
<1>8. Fit(Orders(book'), lastSequence - 1)
  <2>1. Fit(Orders(book) \ {o}, lastSequence - 1)
    BY <1>2, FitSubset
  <2> DEFINE p == [o EXCEPT !.quantity = @ - traded]
  <2>2. p.quantity = o.quantity - traded /\ p.priority = o.priority
    BY <1>4 DEF RestingOrder
  <2> HIDE DEF p
  <2>3. traded # o.quantity => p.quantity > 0 /\ p.priority <= lastSequence - 1
                               /\ \E q \in Quantities : p.quantity <= q
    <3>1. o.priority <= lastSequence - 1 /\ \E q \in Quantities : o.quantity <= q
      BY <1>2, <1>4 DEF Fit
    <3>2. Quantities \subseteq Nat
      BY InputAssumption
    <3> QED
      BY <1>5, <1>6, <2>2, <3>1, <3>2
  <2> QED
    BY <1>7, <2>1, <2>3 DEF Fit, p
<1>9. events' \in Seq(Event)
  <2>1. Emit("Trade", command, book.nodes[n].id, book.nodes[n].price, traded, "None") \in Event
    BY <1>2, <1>4, <1>5, <1>6, EmitTyped DEF EventTypes, RejectReasons
  <2> QED
    BY <1>1, <2>1, AppendTyped DEF IndInv
<1>10. TypeOK'
  BY <1>1, <1>2, <1>6, <1>7, <1>9 DEF TypeOK, Sound, BookType
<1>11. CommandFit'
  <2>1. remaining' <= command.quantity
    <3>1. remaining <= command.quantity /\ command.quantity \in Nat
      BY <1>1, <1>2 DEF IndInv, CommandFit, Command
    <3> QED
      BY <1>1, <1>2, <1>6, <3>1
  <2>2. book'.index[command.order_id] = InvalidNode
    BY <1>2, <1>7
  <2>3. remaining' > 0 => book'.free # <<>>
    BY <1>1, <1>2, <1>6, <1>7
  <2> QED
    BY <1>1, <1>2, <1>8, <2>1, <2>2, <2>3 DEF IndInv, CommandFit
<1> QED
  BY <1>7, <1>10, <1>11 DEF IndInv

(* Resting a remainder preserves the invariant. *)
LEMMA RestPreserves ==
  ASSUME IndInv, Rest
  PROVE  IndInv'
<1>1. /\ command # NoCommand /\ ~LoopContinues /\ remaining > 0 /\ command.order_type = "Limit"
      /\ book' = AddResting(book, command.order_id, command.side, command.price,
                            remaining, command.sequence)
      /\ events' = Append(events, Emit("Rested", command, NoOrder, command.price,
                                       remaining, "None"))
      /\ command' = NoCommand /\ remaining' = 0 /\ lastSequence' = lastSequence
  BY DEF Rest, LoopEnds
<1>2. /\ command \in Command /\ Sound(book) /\ lastSequence \in Nat \ {0} /\ remaining \in Nat
      /\ command.sequence = lastSequence /\ command.order_id \in OrderIds
      /\ command.side \in Sides /\ command.price \in Int
      /\ Fit(Orders(book), lastSequence - 1) /\ book.index[command.order_id] = InvalidNode
  BY <1>1, LoopState
<1>3. /\ book.free # <<>> /\ ValidPrice(command.price) /\ command.quantity \in Quantities
      /\ remaining <= command.quantity
  BY <1>1 DEF IndInv, CommandFit
<1>4. \A p \in Orders(book) : p.priority \in Nat /\ p.priority < lastSequence
  BY <1>2, OrdersAre DEF RestingOrder, Fit
<1> DEFINE o == [order_id |-> command.order_id, side |-> command.side,
                 price |-> command.price, quantity |-> remaining, priority |-> lastSequence]
<1>5. Sound(book') /\ Orders(book') = Orders(book) \cup {o}
  BY <1>1, <1>2, <1>3, <1>4, AddOrders
<1>6. o.quantity = remaining /\ o.priority = lastSequence
  OBVIOUS
<1> HIDE DEF o
<1>7. Fit(Orders(book'), lastSequence)
  BY <1>1, <1>2, <1>3, <1>4, <1>5, <1>6 DEF Fit
<1>8. events' \in Seq(Event)
  <2>1. Emit("Rested", command, NoOrder, command.price, remaining, "None") \in Event
    BY <1>2, EmitTyped DEF EventTypes, RejectReasons
  <2> QED
    BY <1>1, <2>1, AppendTyped DEF IndInv
<1>9. TypeOK'
  BY <1>1, <1>2, <1>5, <1>8 DEF TypeOK, Sound, BookType
<1>10. CommandFit'
  BY <1>1, <1>7 DEF CommandFit
<1> QED
  BY <1>5, <1>9, <1>10 DEF IndInv

(* The steps that leave the book alone. *)
LEMMA QuietPreserves ==
  ASSUME IndInv, DropRemainder \/ Filled \/ TakeEvents \/ UNCHANGED vars
  PROVE  IndInv'
<1>0. lastSequence \in Nat /\ remaining \in Nat
  BY DEF IndInv, TypeOK
<1>1. CASE UNCHANGED vars
  BY <1>1 DEF vars, IndInv, TypeOK, CommandFit, LoopContinues, BestOpposite
<1>2. CASE TakeEvents
  <2>1. /\ command = NoCommand /\ events' = <<>> /\ command' = command /\ book' = book
        /\ lastSequence' = lastSequence /\ remaining' = remaining
    BY <1>2 DEF TakeEvents
  <2> QED
    BY <2>1 DEF IndInv, TypeOK, CommandFit
<1>3. CASE DropRemainder \/ Filled
  <2>1. /\ command # NoCommand /\ command' = NoCommand /\ book' = book
        /\ lastSequence' = lastSequence
    BY <1>3 DEF DropRemainder, Filled, LoopEnds
  <2>2. /\ command \in Command /\ Sound(book) /\ command.price \in Int
        /\ Fit(Orders(book), lastSequence - 1) /\ lastSequence \in Nat \ {0}
    BY <2>1, LoopState
  <2>3. Fit(Orders(book), lastSequence)
    <3>1. \A p \in Orders(book) : p.priority \in Nat
      BY <2>2, OrdersAre DEF RestingOrder
    <3> QED
      BY <2>2, <3>1 DEF Fit
  <2>4. CommandFit'
    BY <2>1, <2>3 DEF CommandFit
  <2>5. events' \in Seq(Event) /\ remaining' \in Nat
    <3>1. CASE DropRemainder
      <4>1. Emit("Cancelled", command, NoOrder, command.price, remaining, "None") \in Event
        BY <1>0, <2>2, EmitTyped DEF EventTypes, RejectReasons
      <4> QED
        BY <3>1, <4>1, AppendTyped DEF DropRemainder, IndInv
    <3>2. CASE Filled
      BY <3>2 DEF Filled, IndInv, TypeOK
    <3> QED
      BY <1>3, <3>1, <3>2
  <2>6. TypeOK'
    BY <2>1, <2>5 DEF TypeOK, IndInv
  <2> QED
    BY <2>1, <2>2, <2>4, <2>6 DEF IndInv
<1> QED
  BY <1>1, <1>2, <1>3

(* A snapshot and its restore lose nothing. *)
LEMMA RecoverOrders ==
  ASSUME NEW b, Sound(b)
  PROVE  Sound(Restore(RestingOrders(b))) /\ Orders(Restore(RestingOrders(b))) = Orders(b)
<1> DEFINE S == Orders(b)
<1>1. RestingOrders(b) = S
  BY WalkedLive
<1>2. /\ S \in SUBSET RestingOrder
      /\ \A o \in S : ValidPrice(o.price)
      /\ \A o, p \in S : /\ o.order_id = p.order_id => o = p
                         /\ o.priority = p.priority => o = p
      /\ IsFiniteSet(S) /\ Cardinality(S) <= MaximumOrders
  BY OrdersAre
<1> HIDE DEF S
<1>3. Sound(Restore(S)) /\ Orders(Restore(S)) = S
  BY <1>2, RestoreSound
<1> QED
  BY <1>1, <1>3 DEF S

(* So does a restart from a snapshot, which leaves the orders as they were. *)
LEMMA RecoverPreserves ==
  ASSUME IndInv, Recover
  PROVE  IndInv' /\ Orders(book') = Orders(book)
<1>1. /\ command = NoCommand /\ book' = Restore(RestingOrders(book))
      /\ lastSequence' = lastSequence /\ command' = command /\ remaining' = remaining
      /\ events' = events
  BY DEF Recover, Ready
<1>2. Sound(book') /\ Orders(book') = Orders(book)
  BY <1>1, RecoverOrders DEF IndInv
<1>3. TypeOK'
  BY <1>1, <1>2 DEF IndInv, TypeOK, Sound, BookType
<1>4. CommandFit'
  BY <1>1, <1>2 DEF IndInv, CommandFit
<1> QED
  BY <1>2, <1>3, <1>4 DEF IndInv

(* The constructor establishes the invariant. *)
LEMMA InitFit == Init => IndInv
<1> SUFFICES ASSUME Init PROVE IndInv
  OBVIOUS
<1>1. Sound(book) /\ Live(book) = {}
  BY EmptySound DEF Init
<1>2. TypeOK
  BY <1>1 DEF Init, TypeOK, Sound, BookType
<1>3. CommandFit
  BY <1>1 DEF Init, CommandFit, Fit, Orders
<1> QED
  BY <1>1, <1>2, <1>3 DEF IndInv

(* Every step preserves the invariant. *)
LEMMA NextFit == IndInv /\ [Next]_vars => IndInv'
<1> SUFFICES ASSUME IndInv, [Next]_vars PROVE IndInv'
  OBVIOUS
<1>1. CASE Receive
  <2>1. PICK step \in SequenceSteps : \E c \in Commands(lastSequence + step) : Process(c)
    BY <1>1 DEF Receive
  <2>2. lastSequence + step \in Nat
    BY InputAssumption DEF IndInv, TypeOK
  <2>3. PICK c \in Commands(lastSequence + step) : Process(c)
    BY <2>1
  <2>4. c \in Command /\ (c.type # "Cancel" => c.quantity \in Quantities)
    BY <2>2, <2>3, CommandsTyped
  <2> QED
    BY <2>3, <2>4, ProcessPreserves
<1> QED
  BY <1>1, TradePreserves, RestPreserves, QuietPreserves, RecoverPreserves DEF Next

(* The inductive invariant of class OrderBook: index, arena, free stack, links, level
   counts and totals and bitmaps agree after every step of process() and restore(). *)
THEOREM BookInvariant == Spec => []IndInv
BY InitFit, NextFit, PTL DEF Spec

-----------------------------------------------------------------------------
(* What the invariant implies. *)

(* The index inverted is the set of live nodes. *)
LEMMA LiveNodesAre ==
  ASSUME Sound(book)
  PROVE  LiveNodes = Live(book) /\ IndexedOrders = Orders(book)
<1>1. LiveNodes = Live(book)
  BY IndexedLive DEF LiveNodes
<1> QED
  BY <1>1 DEF IndexedOrders, Orders

(* The free stack has as many nodes as are not live. *)
LEMMA FreeCount ==
  ASSUME NEW b, Sound(b)
  PROVE  Len(b.free) = MaximumOrders - Cardinality(Live(b))
<1> DEFINE free == b.free
           T == Nodes \ Live(b)
           D == 1 .. Len(free)
<1>1. /\ free \in Seq(Nodes)
      /\ \A n \in Nodes : n \notin Live(b) <=> \E k \in 1 .. Len(free) : free[k] = n
      /\ \A k, l \in 1 .. Len(free) : free[k] = free[l] => k = l
  BY DEF Sound, BookType, FreeOK
<1>2. Len(free) \in Nat /\ free \in [1 .. Len(free) -> Nodes]
  BY <1>1
<1> HIDE DEF free
<1>3. IsFiniteSet(D) /\ Cardinality(D) = Len(free)
  BY <1>2, FS_Interval, SMTT(30)
<1>4. free \in [D -> T]
  BY <1>1, <1>2
<1>5. \A t \in T : \E x \in D : free[x] = t
  BY <1>1
<1>6. \A x, y \in D : free[x] = free[y] => x = y
  BY <1>1
<1> HIDE DEF D
<1>7. IsFiniteSet(T) /\ Cardinality(T) = Len(free)
  BY <1>3, <1>4, <1>5, <1>6, SameSize
<1>8. /\ IsFiniteSet(Live(b)) /\ Live(b) \subseteq Nodes /\ Cardinality(Live(b)) \in Nat
      /\ Cardinality(Nodes) = MaximumOrders
  BY LiveFinite, NodesFinite
<1>9. T \cup Live(b) = Nodes /\ T \cap Live(b) = {}
  BY <1>8
<1> HIDE DEF T
<1>10. Cardinality(T \cup Live(b))
         = Cardinality(T) + Cardinality(Live(b)) - Cardinality(T \cap Live(b))
  BY <1>7, <1>8, FS_Union
<1>11. Cardinality(T \cap Live(b)) = 0
  BY <1>9, FS_EmptySet
<1>12. Cardinality(T \cup Live(b)) = MaximumOrders
  BY <1>8, <1>9
<1> DEFINE l == Cardinality(Live(b))
           f == Len(free)
<1>13. MaximumOrders = f + l - 0 /\ f \in Nat /\ l \in Nat
  BY <1>2, <1>7, <1>8, <1>10, <1>11, <1>12
<1> HIDE DEF l, f
<1>14. f = MaximumOrders - l
  BY <1>13
<1> QED
  BY <1>14 DEF l, f, free

(* The invariant implies ArenaConsistent. *)
LEMMA ArenaHolds == IndInv => ArenaConsistent
<1> SUFFICES ASSUME IndInv PROVE ArenaConsistent
  OBVIOUS
<1>0. TypeOK /\ Sound(book) /\ LiveNodes = Live(book)
  BY LiveNodesAre DEF IndInv
<1> DEFINE free == book.free
<1>1. /\ free \in Seq(Nodes)
      /\ \A n \in Nodes : n \notin Live(book) <=> \E k \in 1 .. Len(free) : free[k] = n
      /\ book.resting = Cardinality(Live(book))
      /\ \A id \in OrderIds : book.index[id] # InvalidNode => book.nodes[book.index[id]].id = id
  BY <1>0 DEF Sound, BookType, FreeOK, IndexOK
<1>2. Len(free) = MaximumOrders - Cardinality(Live(book))
  BY <1>0, FreeCount
<1> HIDE DEF free
<1>3. DOMAIN free = 1 .. Len(free) /\ free \in [1 .. Len(free) -> Nodes]
  BY <1>1
<1>4. {free[k] : k \in DOMAIN free} = Nodes \ Live(book)
  BY <1>1, <1>3
<1> QED
  BY <1>0, <1>1, <1>2, <1>4 DEF ArenaConsistent, free

(* The invariant implies FifosConsistent: walking a list from its head visits the
   level in rank order. *)
LEMMA FifosHold == IndInv => FifosConsistent
<1> SUFFICES ASSUME IndInv PROVE FifosConsistent
  OBVIOUS
<1>0. Sound(book) /\ LiveNodes = Live(book)
  BY LiveNodesAre DEF IndInv
<1>1. ASSUME NEW side \in Sides, NEW i \in Levels
      PROVE  LET fifo == Fifo(book, side, i)
                 level == book.levels[side][i] IN
             /\ level.count = Len(fifo)
             /\ level.count = 0 => level.head = InvalidNode /\ level.tail = InvalidNode
             /\ level.count # 0 => /\ level.tail = fifo[Len(fifo)]
                                   /\ book.nodes[level.head].previous = InvalidNode
                                   /\ book.nodes[level.tail].next = InvalidNode
             /\ \A k \in 1 .. Len(fifo) :
                  /\ fifo[k] \in LiveNodes
                  /\ book.nodes[fifo[k]].side = side
                  /\ book.nodes[fifo[k]].price = IndexPrice(i)
                  /\ k > 1 => /\ book.nodes[fifo[k]].previous = fifo[k - 1]
                              /\ book.nodes[fifo[k - 1]].priority < book.nodes[fifo[k]].priority
  <2> DEFINE Q == Queued(book, side, i)
             N == Cardinality(Q)
             At(n) == Place(book, side, i, n)
             level == book.levels[side][i]
             F == Fifo(book, side, i)
  <2>1. /\ N \in Nat /\ Q \subseteq Nodes
        /\ \A n \in Q : At(n) \in 1 .. N
        /\ \A m, n \in Q : At(m) = At(n) => m = n
        /\ \A m, n \in Q : book.nodes[m].priority < book.nodes[n].priority => At(m) < At(n)
        /\ N = 0 => level.head = InvalidNode /\ level.tail = InvalidNode
        /\ N # 0 => /\ level.head \in Q /\ At(level.head) = 1
                    /\ level.tail \in Q /\ At(level.tail) = N
        /\ \A n \in Q : IF book.nodes[n].next = InvalidNode THEN At(n) = N
                        ELSE /\ book.nodes[n].next \in Q
                             /\ At(book.nodes[n].next) = At(n) + 1
        /\ \A n \in Q : IF book.nodes[n].previous = InvalidNode THEN At(n) = 1
                        ELSE /\ book.nodes[n].previous \in Q
                             /\ At(n) = At(book.nodes[n].previous) + 1
    BY <1>0, Places
  <2>2. /\ F \in [1 .. N -> Q]
        /\ \A k \in 1 .. N : At(F[k]) = k
        /\ \A n \in Q : F[At(n)] = n
    BY <1>0, FifoIs
  <2>3. level.count = N
    BY <1>0 DEF Sound, CountsOK
  <2>4. \A n \in Q : /\ n \in Live(book) /\ book.nodes[n].side = side
                     /\ book.nodes[n].price = IndexPrice(i) /\ book.nodes[n].priority \in Nat
    <3> SUFFICES ASSUME NEW n \in Q
                 PROVE  /\ n \in Live(book) /\ book.nodes[n].side = side
                        /\ book.nodes[n].price = IndexPrice(i) /\ book.nodes[n].priority \in Nat
      OBVIOUS
    <3>1. n \in Live(book) /\ book.nodes[n].side = side /\ PriceIndex(book.nodes[n].price) = i
      BY DEF Queued
    <3>2. /\ book.nodes[n].price \in Int /\ ValidPrice(book.nodes[n].price)
          /\ book.nodes[n].priority \in Nat
      BY <1>0, <3>1, LiveCounted DEF OrderNode
    <3> QED
      BY <3>1, <3>2, PriceToLevel
  <2>p. \A m, n \in Q : book.nodes[m].priority = book.nodes[n].priority => m = n
    BY <1>0, <2>4 DEF Sound, OrdersOK
  <2>i. InvalidNode \notin Nodes
    BY NodesFinite
  <2> HIDE DEF Q, N, At, level, F
  <2>5. Len(F) = N
    BY <2>1, <2>2
  <2>6. ASSUME N # 0
        PROVE  /\ level.tail = F[N]
               /\ book.nodes[level.head].previous = InvalidNode
               /\ book.nodes[level.tail].next = InvalidNode
    <3>1. /\ level.head \in Q /\ At(level.head) = 1
          /\ level.tail \in Q /\ At(level.tail) = N
      BY <2>1, <2>6
    <3>2. level.tail = F[N]
      BY <2>2, <3>1
    <3>3. book.nodes[level.head].previous = InvalidNode
      <4> SUFFICES ASSUME book.nodes[level.head].previous # InvalidNode PROVE FALSE
        OBVIOUS
      <4> DEFINE p == book.nodes[level.head].previous
      <4>1. p \in Q /\ 1 = At(p) + 1
        BY <2>1, <3>1
      <4>2. At(p) \in 1 .. N
        BY <2>1, <4>1
      <4> QED
        BY <2>1, <4>1, <4>2
    <3>4. book.nodes[level.tail].next = InvalidNode
      <4> SUFFICES ASSUME book.nodes[level.tail].next # InvalidNode PROVE FALSE
        OBVIOUS
      <4> DEFINE x == book.nodes[level.tail].next
      <4>1. x \in Q /\ At(x) = N + 1
        BY <2>1, <3>1
      <4>2. At(x) \in 1 .. N
        BY <2>1, <4>1
      <4> QED
        BY <2>1, <4>1, <4>2
    <3> QED
      BY <3>2, <3>3, <3>4
  <2>7. ASSUME NEW k \in 1 .. N
        PROVE  /\ F[k] \in LiveNodes
               /\ book.nodes[F[k]].side = side
               /\ book.nodes[F[k]].price = IndexPrice(i)
               /\ k > 1 => /\ book.nodes[F[k]].previous = F[k - 1]
                           /\ book.nodes[F[k - 1]].priority < book.nodes[F[k]].priority
    <3>1. F[k] \in Q /\ At(F[k]) = k
      BY <2>2
    <3>2. ASSUME k > 1
          PROVE  /\ book.nodes[F[k]].previous = F[k - 1]
                 /\ book.nodes[F[k - 1]].priority < book.nodes[F[k]].priority
      <4>1. k - 1 \in 1 .. N
        BY <2>1, <3>2
      <4>2. F[k - 1] \in Q /\ At(F[k - 1]) = k - 1
        BY <2>2, <4>1
      <4> DEFINE p == book.nodes[F[k]].previous
      <4>3. p # InvalidNode
        BY <2>1, <3>1, <3>2
      <4>4. p \in Q /\ k = At(p) + 1
        BY <2>1, <3>1, <4>3
      <4>5. At(p) = k - 1
        BY <2>1, <4>4
      <4>6. p = F[k - 1]
        BY <2>1, <4>2, <4>4, <4>5
      <4>7. /\ book.nodes[F[k - 1]].priority \in Nat /\ book.nodes[F[k]].priority \in Nat
            /\ F[k - 1] # F[k]
        BY <2>4, <3>1, <4>2
      <4>8. ~(book.nodes[F[k]].priority < book.nodes[F[k - 1]].priority)
        BY <2>1, <3>1, <4>2
      <4>9. book.nodes[F[k]].priority # book.nodes[F[k - 1]].priority
        BY <2>p, <3>1, <4>2, <4>7
      <4> QED
        BY <4>6, <4>7, <4>8, <4>9
    <3> QED
      BY <1>0, <2>4, <3>1, <3>2
  <2> QED
    BY <2>1, <2>3, <2>5, <2>6, <2>7 DEF F, level
<1>2. LiveNodes \subseteq UNION {FifoNodes(book, side, i) : side \in Sides, i \in Levels}
  BY <1>0, WalkedLive
<1> QED
  BY <1>1, <1>2 DEF FifosConsistent

(* The invariant implies BestIndexExact. *)
LEMMA BestHolds == IndInv => BestIndexExact
<1> SUFFICES ASSUME IndInv PROVE BestIndexExact
  OBVIOUS
<1>0. Sound(book) /\ LiveNodes = Live(book)
  BY LiveNodesAre DEF IndInv
<1> SUFFICES ASSUME NEW side \in Sides
    PROVE  LET prices == {book.nodes[n].price : n \in {m \in LiveNodes : book.nodes[m].side = side}} IN
           /\ BestIndex(book, side) = NoPrice <=> prices = {}
           /\ prices # {} => BestPrice(book, side) = IF side = "Sell" THEN Min(prices) ELSE Max(prices)
  BY DEF BestIndexExact
<1> DEFINE prices == {book.nodes[n].price : n \in {m \in LiveNodes : book.nodes[m].side = side}}
           best == BestIndex(book, side)
<1>1. IF Occupied(book, side) = {} THEN best = NoPrice
      ELSE best \in Occupied(book, side) /\ \A j \in Occupied(book, side) : NoWorse(side, best, j)
  BY <1>0, BestIndexIs
<1>2. ASSUME NEW p \in prices
      PROVE  /\ p \in Int /\ PriceIndex(p) \in Occupied(book, side) /\ IndexPrice(PriceIndex(p)) = p
  <2>1. PICK n \in Live(book) : book.nodes[n].side = side /\ p = book.nodes[n].price
    BY <1>0
  <2>2. /\ book.nodes[n].price \in Int /\ ValidPrice(book.nodes[n].price)
        /\ PriceIndex(book.nodes[n].price) \in Levels
        /\ n \in Queued(book, book.nodes[n].side, PriceIndex(book.nodes[n].price))
    BY <1>0, LiveCounted DEF OrderNode
  <2> QED
    BY <2>1, <2>2, PriceToLevel DEF Occupied
<1>3. ASSUME NEW i \in Occupied(book, side)
      PROVE  i \in Levels /\ IndexPrice(i) \in prices
  <2>1. i \in Levels
    BY DEF Occupied
  <2>2. PICK n \in Queued(book, side, i) : TRUE
    BY DEF Occupied
  <2>3. n \in Live(book) /\ book.nodes[n].side = side /\ PriceIndex(book.nodes[n].price) = i
    BY DEF Queued
  <2>4. book.nodes[n].price \in Int /\ ValidPrice(book.nodes[n].price)
    BY <1>0, <2>3, LiveCounted DEF OrderNode
  <2>5. IndexPrice(i) = book.nodes[n].price
    BY <2>3, <2>4, PriceToLevel
  <2> QED
    BY <1>0, <2>1, <2>3, <2>5
<1> HIDE DEF prices
<1>4. prices = {} <=> Occupied(book, side) = {}
  BY <1>2, <1>3
<1>n. NoPrice \notin Levels
  BY DEF NoPrice, Levels
<1>5. best = NoPrice <=> prices = {}
  BY <1>1, <1>3, <1>4, <1>n
<1>6. ASSUME prices # {}
      PROVE  BestPrice(book, side) = IF side = "Sell" THEN Min(prices) ELSE Max(prices)
  <2>1. best \in Occupied(book, side) /\ \A j \in Occupied(book, side) : NoWorse(side, best, j)
    BY <1>1, <1>4, <1>6
  <2>2. BestPrice(book, side) = IndexPrice(best)
    BY <1>5, <1>6 DEF BestPrice
  <2> HIDE DEF best
  <2>3. best \in Levels /\ IndexPrice(best) \in prices /\ prices \in SUBSET Int
    BY <1>2, <1>3, <2>1
  <2>4. ASSUME NEW p \in prices
        PROVE  IF side = "Sell" THEN IndexPrice(best) <= p ELSE p <= IndexPrice(best)
    <3> DEFINE j == PriceIndex(p)
    <3>1. j \in Occupied(book, side) /\ IndexPrice(j) = p /\ p \in Int
      BY <1>2
    <3>2. j \in Levels /\ NoWorse(side, best, j)
      BY <1>3, <2>1, <3>1
    <3> HIDE DEF j
    <3>3. best \in Int /\ j \in Int /\ IndexPrice(best) \in Int
      BY <2>3, <3>2, LevelToPrice
    <3>4. /\ best < j <=> IndexPrice(best) < IndexPrice(j)
          /\ j < best <=> IndexPrice(j) < IndexPrice(best)
      BY <2>3, <3>2, LadderOrder
    <3> QED
      BY <3>1, <3>2, <3>3, <3>4 DEF NoWorse
  <2>5. CASE side = "Sell"
    <3>1. \A p \in prices : IndexPrice(best) <= p
      BY <2>4, <2>5
    <3>2. Min(prices) = IndexPrice(best)
      BY <2>3, <3>1, MinIs
    <3> QED
      BY <2>2, <2>5, <3>2
  <2>6. CASE side # "Sell"
    <3>1. \A p \in prices : p <= IndexPrice(best)
      BY <2>4, <2>6
    <3>2. Max(prices) = IndexPrice(best)
      BY <2>3, <3>1, MaxIs
    <3> QED
      BY <2>2, <2>6, <3>2
  <2> QED
    BY <2>5, <2>6
<1> QED
  BY <1>5, <1>6 DEF prices

(* The invariant implies NodeAvailable. *)
LEMMA NodeHolds == IndInv => NodeAvailable
BY DEF IndInv, CommandFit, NodeAvailable, LoopEnds

(* The invariant implies SnapshotFaithful. *)
LEMMA SnapshotHolds == IndInv => SnapshotFaithful
<1> SUFFICES ASSUME IndInv, Ready PROVE SnapshotFaithful
  BY DEF SnapshotFaithful
<1> DEFINE snapshot == RestingOrders(book)
           rebuilt == Restore(snapshot)
<1>1. Sound(book) /\ Fit(Orders(book), lastSequence)
  BY DEF IndInv, Ready, CommandFit
<1>2. snapshot = Orders(book)
  BY <1>1, WalkedLive
<1>3. Sound(rebuilt) /\ Orders(rebuilt) = Orders(book)
  BY <1>1, RecoverOrders
<1>4. Acceptable(lastSequence, snapshot)
  <2>1. /\ \A o \in Orders(book) : ValidPrice(o.price) /\ o.quantity \in Nat
        /\ \A o, p \in Orders(book) : o.order_id = p.order_id => o = p
        /\ Cardinality(Orders(book)) <= MaximumOrders
    BY <1>1, OrdersAre DEF RestingOrder
  <2> HIDE DEF snapshot
  <2> QED
    BY <1>1, <1>2, <2>1 DEF Acceptable, Fit
<1>5. ASSUME NEW side \in Sides, NEW i \in Levels
      PROVE  [k \in DOMAIN Fifo(rebuilt, side, i) |-> OrderAt(rebuilt, Fifo(rebuilt, side, i)[k])]
             = [k \in DOMAIN Fifo(book, side, i) |-> OrderAt(book, Fifo(book, side, i)[k])]
  <2> HIDE DEF rebuilt
  <2> QED
    BY <1>1, <1>3, SameQueues
<1> QED
  BY <1>4, <1>5 DEF SnapshotFaithful

(* As many orders as the book holds, of the largest quantity a client sends,
   do not overflow a quantity. *)
NoWrap == \A q \in Quantities : MaximumOrders * q < QMod

(* While quantities cannot overflow, the running total of a level is the sum. *)
LEMMA TotalsExact ==
  ASSUME NoWrap, NEW b, Sound(b), NEW s, Fit(Orders(b), s), NEW side \in Sides, NEW i \in Levels
  PROVE  b.levels[side][i].total_quantity = Total(Quantity(b), Queued(b, side, i))
<1> DEFINE Q == Queued(b, side, i)
           t == Total(Quantity(b), Q)
<1>1. b.levels[side][i].total_quantity = t % QMod
  BY DEF Sound, TotalsOK
<1>2. /\ Q \subseteq Live(b) /\ IsFiniteSet(Q) /\ Cardinality(Q) \in Nat
      /\ Cardinality(Q) <= MaximumOrders /\ Live(b) \subseteq Nodes
  BY LiveFinite
<1>3. Q \in SUBSET Nodes /\ b \in BookType
  BY <1>2 DEF Sound
<1> HIDE DEF Q
<1>4. /\ \A x \in Q : Quantity(b)[x] \in Nat /\ Quantity(b)[x] = b.nodes[x].remaining
      /\ t \in Nat
  BY <1>3, QuantityTyped
<1>5. \A x \in Q : \E q \in Quantities : Quantity(b)[x] <= q
  <2> SUFFICES ASSUME NEW x \in Q PROVE \E q \in Quantities : Quantity(b)[x] <= q
    OBVIOUS
  <2>1. OrderAt(b, x) \in Orders(b) /\ OrderAt(b, x).quantity = Quantity(b)[x]
    BY <1>2, <1>4, OrderFields DEF Orders
  <2> QED
    BY <2>1 DEF Fit
<1>c. Quantities \subseteq Nat /\ Quantities \subseteq 0 .. QMod - 1 /\ QMod \in Nat \ {0}
      /\ MaximumOrders \in Nat \ {0}
  BY InputAssumption, WidthAssumption, ConfigAssumption
<1>6. t < QMod
  <2>1. CASE Q = {}
    <3>1. t = 0
      BY <2>1, TotalEmpty
    <3> QED
      BY <1>c, <3>1
  <2>2. CASE Q # {}
    <3> DEFINE V == {Quantity(b)[x] : x \in Q}
    <3>1. V \in SUBSET Nat /\ V # {} /\ \A k \in V : k <= QMod
      <4>1. \A x \in Q : Quantity(b)[x] <= QMod
        BY <1>4, <1>5, <1>c
      <4> QED
        BY <1>4, <2>2, <4>1
    <3>2. \A x \in Q : Quantity(b)[x] \in V
      OBVIOUS
    <3>3. \A k \in V : \E q \in Quantities : k <= q
      BY <1>5
    <3> HIDE DEF V
    <3>4. PICK r \in V : \A k \in V : k <= r
      <4>1. QMod \in Nat
        BY <1>c
      <4> QED
        BY <3>1, <4>1, GreatestNatural
    <3>5. PICK q \in Quantities : r <= q
      BY <3>3
    <3>6. t <= Cardinality(Q) * r
      <4>1. r \in Nat /\ \A x \in Q : Quantity(b)[x] \in Nat /\ Quantity(b)[x] <= r
        BY <1>4, <3>1, <3>2, <3>4
      <4> QED
        BY <1>2, <4>1, TotalBound
    <3>7. Cardinality(Q) * r <= MaximumOrders * r /\ MaximumOrders * r <= MaximumOrders * q
      <4> DEFINE n == Cardinality(Q)
      <4>1. n \in Nat /\ n <= MaximumOrders /\ r \in Nat /\ q \in Nat /\ r <= q
        BY <1>2, <1>c, <3>1, <3>5
      <4> HIDE DEF n
      <4>2. n * r <= MaximumOrders * r /\ MaximumOrders * r <= MaximumOrders * q
        BY <1>c, <4>1
      <4> QED
        BY <4>2 DEF n
    <3>8. MaximumOrders * q < QMod
      BY DEF NoWrap
    <3>9. Cardinality(Q) * r \in Nat /\ MaximumOrders * r \in Nat /\ MaximumOrders * q \in Nat
      BY <1>2, <1>c, <3>1
    <3> QED
      BY <1>4, <1>c, <3>6, <3>7, <3>8, <3>9
  <2> QED
    BY <2>1, <2>2
<1> HIDE DEF t
<1>7. (t % QMod) = t
  BY <1>4, <1>6, <1>c
<1> QED
  BY <1>1, <1>7 DEF t, Q

(* The sum of the quantities of some nodes. *)
LEMMA NodesSum ==
  ASSUME book \in BookType, NEW S \in SUBSET Nodes
  PROVE  MapThenSumSet(LAMBDA n : book.nodes[n].remaining, S) = Total(Quantity(book), S)
<1> DEFINE v == Quantity(book)
           Sum(iter) == iter = [s \in SUBSET S |->
                          IF s = {} THEN 0
                          ELSE LET x == CHOOSE x \in s : TRUE
                               IN  book.nodes[x].remaining + iter[s \ {x}]]
<1>1. (\A x \in S : v[x] \in Nat /\ v[x] = book.nodes[x].remaining) /\ IsFiniteSet(S)
  BY QuantityTyped
<1> HIDE DEF v
<1>2. ASSUME NEW f PROVE Sum(f) <=> IsSum(f, v, S)
  <2>1. ASSUME NEW s \in SUBSET S
        PROVE  (IF s = {} THEN 0
                ELSE LET x == CHOOSE x \in s : TRUE IN book.nodes[x].remaining + f[s \ {x}])
               = (IF s = {} THEN 0
                  ELSE LET x == CHOOSE x \in s : TRUE IN v[x] + f[s \ {x}])
    <3>1. CASE s = {}
      BY <3>1
    <3>2. CASE s # {}
      <4>1. (CHOOSE x \in s : TRUE) \in S
        BY <3>2
      <4> QED
        BY <1>1, <3>2, <4>1
    <3> QED
      BY <3>1, <3>2
  <2>2. [s \in SUBSET S |->
           IF s = {} THEN 0
           ELSE LET x == CHOOSE x \in s : TRUE IN book.nodes[x].remaining + f[s \ {x}]]
        = [s \in SUBSET S |->
             IF s = {} THEN 0
             ELSE LET x == CHOOSE x \in s : TRUE IN v[x] + f[s \ {x}]]
    BY <2>1
  <2> QED
    BY <2>2 DEF IsSum
<1>3. \E f : IsSum(f, v, S)
  BY <1>1, SumIsTotal
<1>4. \E f : Sum(f)
  <2> HIDE DEF Sum
  <2> QED
    BY <1>2, <1>3
<1>5. Sum(CHOOSE iter : Sum(iter))
  BY <1>4
<1>6. (CHOOSE iter : Sum(iter))[S] = Total(v, S)
  <2> HIDE DEF Sum
  <2> QED
    BY <1>1, <1>2, <1>5, SumIsTotal
<1> QED
  BY <1>6 DEF MapThenSumSet, MapThenFoldSet, v

(* While NoWrap holds, the running totals are the sums. *)
LEMMA AggregatesHold == ASSUME NoWrap PROVE IndInv => AggregatesExact
<1> SUFFICES ASSUME IndInv PROVE AggregatesExact
  OBVIOUS
<1>1. Sound(book) /\ LiveNodes = Live(book) /\ book \in BookType
  BY LiveNodesAre DEF IndInv, Sound
<1>2. PICK s : Fit(Orders(book), s)
  BY DEF IndInv, CommandFit
<1> SUFFICES ASSUME NEW side \in Sides, NEW price \in MinimumPrice - 1 .. MaximumPrice + 1
    PROVE  QuantityAt(book, side, price) =
             MapThenSumSet(LAMBDA n : book.nodes[n].remaining,
                           {n \in LiveNodes : book.nodes[n].side = side
                                              /\ book.nodes[n].price = price})
  BY DEF AggregatesExact
<1> DEFINE S == {n \in LiveNodes : book.nodes[n].side = side /\ book.nodes[n].price = price}
           i == PriceIndex(price)
<1>3. S \in SUBSET Nodes /\ price \in Int
  BY <1>1, LiveFinite, ConfigAssumption
<1>4. MapThenSumSet(LAMBDA n : book.nodes[n].remaining, S) = Total(Quantity(book), S)
  <2> HIDE DEF S
  <2> QED
    BY <1>1, <1>3, NodesSum
<1>5. \A n \in Live(book) : book.nodes[n].price \in Int /\ ValidPrice(book.nodes[n].price)
  BY <1>1, LiveCounted DEF OrderNode
<1>6. CASE ValidPrice(price)
  <2>1. i \in Levels /\ IndexPrice(i) = price
    BY <1>3, <1>6, PriceToLevel
  <2>2. \A n \in Live(book) : PriceIndex(book.nodes[n].price) = i <=> book.nodes[n].price = price
    BY <1>5, <2>1, PriceToLevel
  <2>3. S = Queued(book, side, i)
    <3> HIDE DEF i
    <3> QED
      BY <1>1, <2>2 DEF Queued
  <2>4. book.levels[side][i].total_quantity = Total(Quantity(book), Queued(book, side, i))
    <3> HIDE DEF i
    <3> QED
      BY <1>1, <1>2, <2>1, TotalsExact
  <2> HIDE DEF S
  <2> QED
    BY <1>4, <1>6, <2>3, <2>4 DEF QuantityAt, S
<1>7. CASE ~ValidPrice(price)
  <2>1. S = {}
    BY <1>1, <1>5, <1>7
  <2>2. Total(Quantity(book), S) = 0
    <3> HIDE DEF S
    <3> QED
      BY <2>1, TotalEmpty
  <2> HIDE DEF S
  <2> QED
    BY <1>4, <1>7, <2>2 DEF QuantityAt, S
<1> QED
  BY <1>6, <1>7

(* ArenaConsistent: index, arena and free stack of class OrderBook agree through
   every add_resting, remove_node and restore. *)
THEOREM ArenaAlways == Spec => []ArenaConsistent
BY BookInvariant, ArenaHolds, PTL

(* FifosConsistent: the intrusive lists of class OrderBook are the live orders by side
   and price, oldest first, in both directions. *)
THEOREM FifosAlways == Spec => []FifosConsistent
BY BookInvariant, FifosHold, PTL

(* BestIndexExact: best_index finds the best price at which an order rests, for every
   word width and ladder. *)
THEOREM BestIndexAlways == Spec => []BestIndexExact
BY BookInvariant, BestHolds, PTL

(* NodeAvailable: add_resting finds a free node and an identifier that is not indexed. *)
THEOREM NodeAlways == Spec => []NodeAvailable
BY BookInvariant, NodeHolds, PTL

(* SnapshotFaithful: restore accepts what resting_orders() returns, and rebuilds the
   same queues. *)
THEOREM SnapshotAlways == Spec => []SnapshotFaithful
BY BookInvariant, SnapshotHolds, PTL

(* AggregatesExact: quantity_at reports the sum of what rests at a price, as long as
   MaximumOrders quantities do not overflow (quantity_wraps shows the need). *)
THEOREM AggregatesAlways == ASSUME NoWrap PROVE Spec => []AggregatesExact
BY BookInvariant, AggregatesHold, PTL

-----------------------------------------------------------------------------
(* What crosses, as the containers and as the abstract book compute it. *)

(* The nodes of some levels, and their quantity level by level. *)
NodesAt(b, side, L) == UNION {Queued(b, side, i) : i \in L}

(* The quantity of several levels is the sum over the levels. *)
LEMMA LevelByLevel ==
  ASSUME NEW b, Sound(b), NEW side \in Sides, NEW L \in SUBSET Levels, IsFiniteSet(L)
  PROVE  Total([i \in Levels |-> Total(Quantity(b), Queued(b, side, i))], L)
           = Total(Quantity(b), NodesAt(b, side, L))
<1> DEFINE q == Quantity(b)
           v == [i \in Levels |-> Total(q, Queued(b, side, i))]
           P == {M \in SUBSET L : Total(v, M) = Total(q, NodesAt(b, side, M))}
<1>0. \A i : /\ IsFiniteSet(Queued(b, side, i)) /\ Queued(b, side, i) \in SUBSET Nodes
  BY LiveFinite
<1>1. b \in BookType
  BY DEF Sound
<1>2. \A i \in Levels : v[i] = Total(q, Queued(b, side, i)) /\ v[i] \in Nat
  BY <1>0, <1>1, QuantityTyped
<1> HIDE DEF v
<1>3. {} \in P
  <2>1. NodesAt(b, side, {}) = {}
    BY DEF NodesAt
  <2>2. Total(v, {}) = 0 /\ Total(q, {}) = 0
    BY TotalEmpty
  <2> QED
    BY <2>1, <2>2
<1>4. ASSUME NEW M \in SUBSET L, M # {}, \A U \in SUBSET M : U # M => U \in P
      PROVE  M \in P
  <2>1. PICK i \in M : TRUE
    BY <1>4
  <2> DEFINE A == Queued(b, side, i)
             B == NodesAt(b, side, M \ {i})
  <2>2. Total(v, M \ {i}) = Total(q, B)
    BY <1>4, <2>1
  <2>3. Total(v, M) = v[i] + Total(v, M \ {i})
    <3>1. IsFiniteSet(M) /\ \A x \in M : v[x] \in Nat
      BY <1>2, FS_Subset
    <3> QED
      BY <2>1, <3>1, TotalRemove
  <2>4. NodesAt(b, side, M) = A \cup B
    BY <2>1 DEF NodesAt
  <2>5. A \cap B = {}
    BY DEF NodesAt, Queued
  <2>6. A \in SUBSET Nodes /\ B \in SUBSET Nodes
    BY <1>0 DEF NodesAt
  <2>7. v[i] = Total(q, A)
    BY <1>2, <2>1
  <2> HIDE DEF A, B
  <2>8. IsFiniteSet(A) /\ IsFiniteSet(B) /\ \A x \in A \cup B : q[x] \in Nat
    BY <1>1, <2>6, QuantityTyped
  <2>9. Total(q, A \cup B) = Total(q, A) + Total(q, B)
    <3> HIDE DEF q
    <3> QED
      BY <2>5, <2>8, TotalUnion
  <2> QED
    BY <2>2, <2>3, <2>4, <2>7, <2>9
<1>5. P \in SUBSET (SUBSET L)
  OBVIOUS
<1>6. P = SUBSET L
  <2> HIDE DEF P
  <2> QED
    BY <1>3, <1>4, <1>5, SubsetInduction
<1> QED
  BY <1>6 DEF v

(* The sum can_fully_fill computes. *)
LEMMA LevelsSum ==
  ASSUME NEW b, b \in BookType, NEW side \in Sides, NEW S \in SUBSET Levels
  PROVE  IsFiniteSet(S) /\ MapThenSumSet(LAMBDA i : b.levels[side][i].total_quantity, S)
           = Total([i \in Levels |-> b.levels[side][i].total_quantity], S)
<1> DEFINE v == [i \in Levels |-> b.levels[side][i].total_quantity]
           Sum(iter) == iter = [s \in SUBSET S |->
                          IF s = {} THEN 0
                          ELSE LET x == CHOOSE x \in s : TRUE
                               IN  b.levels[side][x].total_quantity + iter[s \ {x}]]
<1>1. (\A x \in S : v[x] \in Nat /\ v[x] = b.levels[side][x].total_quantity) /\ IsFiniteSet(S)
  <2>1. IsFiniteSet(Levels)
    BY LadderSize, FS_Interval DEF Levels
  <2>2. \A x \in Levels : b.levels[side][x].total_quantity \in Nat
    BY WidthAssumption DEF BookType, PriceLevel
  <2> QED
    BY <2>1, <2>2, FS_Subset
<1> HIDE DEF v
<1>2. ASSUME NEW f PROVE Sum(f) <=> IsSum(f, v, S)
  <2>1. ASSUME NEW s \in SUBSET S
        PROVE  (IF s = {} THEN 0
                ELSE LET x == CHOOSE x \in s : TRUE
                     IN  b.levels[side][x].total_quantity + f[s \ {x}])
               = (IF s = {} THEN 0
                  ELSE LET x == CHOOSE x \in s : TRUE IN v[x] + f[s \ {x}])
    <3>1. CASE s = {}
      BY <3>1
    <3>2. CASE s # {}
      <4>1. (CHOOSE x \in s : TRUE) \in S
        BY <3>2
      <4> QED
        BY <1>1, <3>2, <4>1
    <3> QED
      BY <3>1, <3>2
  <2>2. [s \in SUBSET S |->
           IF s = {} THEN 0
           ELSE LET x == CHOOSE x \in s : TRUE
                IN  b.levels[side][x].total_quantity + f[s \ {x}]]
        = [s \in SUBSET S |->
             IF s = {} THEN 0
             ELSE LET x == CHOOSE x \in s : TRUE IN v[x] + f[s \ {x}]]
    BY <2>1
  <2> QED
    BY <2>2 DEF IsSum
<1>3. \E f : IsSum(f, v, S)
  BY <1>1, SumIsTotal
<1>4. \E f : Sum(f)
  <2> HIDE DEF Sum
  <2> QED
    BY <1>2, <1>3
<1>5. Sum(CHOOSE iter : Sum(iter))
  BY <1>4
<1>6. (CHOOSE iter : Sum(iter))[S] = Total(v, S)
  <2> HIDE DEF Sum
  <2> QED
    BY <1>1, <1>2, <1>5, SumIsTotal
<1> QED
  BY <1>1, <1>6 DEF MapThenSumSet, MapThenFoldSet, v

(* The sum the abstract book computes. *)
LEMMA OrdersSum ==
  ASSUME NEW S \in SUBSET RestingOrder, IsFiniteSet(S)
  PROVE  Abstract!MapThenSumSet(LAMBDA o : o.quantity, S) = Total([o \in S |-> o.quantity], S)
<1> DEFINE v == [o \in S |-> o.quantity]
           Sum(iter) == iter = [s \in SUBSET S |->
                          IF s = {} THEN 0
                          ELSE LET x == CHOOSE x \in s : TRUE
                               IN  x.quantity + iter[s \ {x}]]
<1>1. \A x \in S : v[x] \in Nat /\ v[x] = x.quantity
  BY DEF RestingOrder
<1> HIDE DEF v
<1>2. ASSUME NEW f PROVE Sum(f) <=> IsSum(f, v, S)
  <2>1. ASSUME NEW s \in SUBSET S
        PROVE  (IF s = {} THEN 0
                ELSE LET x == CHOOSE x \in s : TRUE IN x.quantity + f[s \ {x}])
               = (IF s = {} THEN 0
                  ELSE LET x == CHOOSE x \in s : TRUE IN v[x] + f[s \ {x}])
    <3>1. CASE s = {}
      BY <3>1
    <3>2. CASE s # {}
      <4>1. (CHOOSE x \in s : TRUE) \in S
        BY <3>2
      <4> QED
        BY <1>1, <3>2, <4>1
    <3> QED
      BY <3>1, <3>2
  <2>2. [s \in SUBSET S |->
           IF s = {} THEN 0
           ELSE LET x == CHOOSE x \in s : TRUE IN x.quantity + f[s \ {x}]]
        = [s \in SUBSET S |->
             IF s = {} THEN 0
             ELSE LET x == CHOOSE x \in s : TRUE IN v[x] + f[s \ {x}]]
    BY <2>1
  <2> QED
    BY <2>2 DEF IsSum
<1>3. \E f : IsSum(f, v, S)
  BY <1>1, SumIsTotal
<1>4. \E f : Sum(f)
  <2> HIDE DEF Sum
  <2> QED
    BY <1>2, <1>3
<1>5. Sum(CHOOSE iter : Sum(iter))
  BY <1>4
<1>6. (CHOOSE iter : Sum(iter))[S] = Total(v, S)
  <2> HIDE DEF Sum
  <2> QED
    BY <1>1, <1>2, <1>5, SumIsTotal
<1> QED
  BY <1>6 DEF Abstract!MapThenSumSet, Abstract!MapThenFoldSet, v

(* can_fully_fill visits the levels with orders that cross. *)
LEMMA ScanIs ==
  ASSUME NEW b, Sound(b), NEW side \in Sides, NEW limit \in Int
  PROVE  ScannedLevels(b, side, limit)
           = {i \in Occupied(b, Opposite(side)) : Crosses(side, limit, IndexPrice(i))}
<1> DEFINE opposite == Opposite(side)
           best == BestIndex(b, opposite)
           C(i) == Crosses(side, limit, IndexPrice(i))
           O == Occupied(b, opposite)
           Behind(i) == IF side = "Buy" THEN i > best ELSE i < best
<1>0. opposite \in Sides /\ (side = "Buy" <=> opposite = "Sell") /\ (side = "Sell" <=> opposite = "Buy")
  BY DEF Opposite, Sides
<1>1. IF O = {} THEN best = NoPrice
      ELSE best \in O /\ \A j \in O : NoWorse(opposite, best, j)
  BY <1>0, BestIndexIs
<1>2. O \subseteq Levels /\ \A i \in Levels : i \in O <=> b.levels[opposite][i].count # 0
  <2>1. \A i \in Levels : b.levels[opposite][i].count = Cardinality(Queued(b, opposite, i))
    BY <1>0 DEF Sound, CountsOK
  <2>2. \A i : IsFiniteSet(Queued(b, opposite, i))
    BY LiveFinite
  <2>3. \A i : Cardinality(Queued(b, opposite, i)) = 0 <=> Queued(b, opposite, i) = {}
    BY <2>2, FS_EmptySet
  <2> QED
    BY <2>1, <2>3 DEF Occupied
<1>3. NoPrice \notin Levels /\ \A i \in Levels : i \in Int /\ IndexPrice(i) \in Int
  BY LevelToPrice DEF NoPrice, Levels
<1>4. ScannedLevels(b, side, limit)
        = IF ~(best # NoPrice /\ C(best)) THEN {}
          ELSE {best} \cup {i \in Levels : /\ Behind(i)
                                           /\ b.levels[opposite][i].count # 0
                                           /\ i # NoPrice /\ C(i)}
  BY DEF ScannedLevels, CrossesLevel
<1> HIDE DEF best, O, opposite
<1>5. CASE O = {}
  BY <1>1, <1>4, <1>5 DEF O, opposite
<1>6. CASE O # {}
  <2>1. best \in O /\ best \in Levels /\ best # NoPrice
    BY <1>1, <1>2, <1>3, <1>6
  <2>2. ASSUME NEW j \in O
        PROVE  /\ j = best \/ Behind(j)
               /\ C(j) => C(best)
    <3>1. j \in Levels /\ j \in Int /\ best \in Int /\ NoWorse(opposite, best, j)
          /\ IndexPrice(j) \in Int /\ IndexPrice(best) \in Int
      BY <1>1, <1>2, <1>3, <1>6, <2>1
    <3>2. /\ best < j <=> IndexPrice(best) < IndexPrice(j)
          /\ j < best <=> IndexPrice(j) < IndexPrice(best)
      BY <2>1, <3>1, LadderOrder
    <3> QED
      BY <1>0, <3>1, <3>2 DEF NoWorse, Crosses, Sides
  <2> HIDE DEF C, Behind
  <2>3. CASE C(best)
    BY <1>2, <1>3, <1>4, <2>1, <2>2, <2>3 DEF C, opposite, O
  <2>4. CASE ~C(best)
    BY <1>4, <2>1, <2>2, <2>4 DEF C, opposite, O
  <2> QED
    BY <2>3, <2>4
<1> QED
  BY <1>5, <1>6 DEF O, opposite

(* The abstract book uses the same arithmetic of prices and commands. *)
LEMMA SamePrices ==
  ASSUME NEW c, NEW side, NEW limit, NEW price
  PROVE  /\ Abstract!Opposite(side) = Opposite(side)
         /\ Abstract!EffectiveLimit(c) = EffectiveLimit(c)
         /\ Abstract!Crosses(side, limit, price) <=> Crosses(side, limit, price)
         /\ Abstract!ValidPrice(price) <=> ValidPrice(price)
BY DEF Abstract!Opposite, Opposite, Abstract!EffectiveLimit, EffectiveLimit,
       Abstract!Crosses, Crosses, Abstract!ValidPrice, ValidPrice

(* The orders that cross are those of the nodes on the levels visited. *)
LEMMA CrossingAre ==
  ASSUME NEW b, Sound(b), NEW side \in Sides, NEW limit \in Int
  PROVE  LET N == NodesAt(b, Opposite(side), ScannedLevels(b, side, limit)) IN
         /\ N \in SUBSET Live(b)
         /\ Abstract!CrossingOrders(Orders(b), side, limit) = {OrderAt(b, n) : n \in N}
<1> DEFINE opposite == Opposite(side)
           L == ScannedLevels(b, side, limit)
           N == NodesAt(b, opposite, L)
           C(p) == Crosses(side, limit, p)
<1>1. L = {i \in Occupied(b, opposite) : C(IndexPrice(i))}
  BY ScanIs
<1>2. \A n \in Live(b) : /\ PriceIndex(b.nodes[n].price) \in Levels
                         /\ IndexPrice(PriceIndex(b.nodes[n].price)) = b.nodes[n].price
  <2> SUFFICES ASSUME NEW n \in Live(b)
               PROVE  /\ PriceIndex(b.nodes[n].price) \in Levels
                      /\ IndexPrice(PriceIndex(b.nodes[n].price)) = b.nodes[n].price
    OBVIOUS
  <2>1. b.nodes[n].price \in Int /\ ValidPrice(b.nodes[n].price)
    BY LiveCounted DEF OrderNode
  <2> QED
    BY <2>1, PriceToLevel
<1> HIDE DEF L, C
<1>3. \A n : n \in N <=> n \in Live(b) /\ b.nodes[n].side = opposite /\ C(b.nodes[n].price)
  BY <1>1, <1>2 DEF NodesAt, Queued, Occupied
<1>4. Abstract!CrossingOrders(Orders(b), side, limit)
        = {o \in Orders(b) : o.side = opposite /\ C(o.price)}
  BY SamePrices DEF Abstract!CrossingOrders, C
<1> HIDE DEF N, opposite
<1>5. {o \in Orders(b) : o.side = opposite /\ C(o.price)} = {OrderAt(b, n) : n \in N}
  <2>1. \A n \in Live(b) : OrderAt(b, n).side = b.nodes[n].side /\ OrderAt(b, n).price = b.nodes[n].price
    BY OrderFields
  <2> QED
    BY <1>3, <2>1 DEF Orders
<1>6. N \in SUBSET Live(b)
  BY <1>3
<1> QED
  BY <1>4, <1>5, <1>6 DEF N, L, opposite

(* Both are the quantity that crosses. *)
LEMMA CrossingSum ==
  ASSUME NoWrap, NEW b, Sound(b), NEW s, Fit(Orders(b), s), NEW side \in Sides, NEW limit \in Int
  PROVE  MapThenSumSet(LAMBDA i : b.levels[Opposite(side)][i].total_quantity,
                       ScannedLevels(b, side, limit))
           = Abstract!MapThenSumSet(LAMBDA o : o.quantity,
                                    Abstract!CrossingOrders(Orders(b), side, limit))
<1> DEFINE opposite == Opposite(side)
           L == ScannedLevels(b, side, limit)
           N == NodesAt(b, opposite, L)
           O == Abstract!CrossingOrders(Orders(b), side, limit)
           q == Quantity(b)
           v == [i \in Levels |-> b.levels[opposite][i].total_quantity]
           u == [i \in Levels |-> Total(q, Queued(b, opposite, i))]
           w == [o \in O |-> o.quantity]
<1>1. opposite \in Sides /\ L \in SUBSET Levels /\ b \in BookType
  <2>1. opposite \in Sides /\ b \in BookType
    BY DEF Opposite, Sides, Sound
  <2>2. L \in SUBSET Levels
    BY ScanIs DEF Occupied
  <2> QED
    BY <2>1, <2>2
<1>2. N \in SUBSET Live(b) /\ O = {OrderAt(b, n) : n \in N}
  BY CrossingAre
<1>3. O \in SUBSET RestingOrder /\ IsFiniteSet(O) /\ O \subseteq Orders(b)
  <2>1. O \subseteq Orders(b)
    BY <1>2 DEF Orders
  <2> HIDE DEF O
  <2> QED
    BY <2>1, OrdersAre, FS_Subset
<1> HIDE DEF L, O, opposite
<1>4. /\ IsFiniteSet(L)
      /\ MapThenSumSet(LAMBDA i : b.levels[opposite][i].total_quantity, L) = Total(v, L)
  BY <1>1, LevelsSum
<1>5. Total(v, L) = Total(u, L)
  <2>1. \A i \in Levels : v[i] = u[i]
    BY <1>1, TotalsExact
  <2> HIDE DEF v, u
  <2> QED
    BY <1>1, <2>1, TotalSame
<1>6. Total(u, L) = Total(q, N)
  BY <1>1, <1>4, LevelByLevel
<1>7. Total(w, O) = Total(q, N)
  <2> DEFINE f == [n \in N |-> OrderAt(b, n)]
  <2>1. N \in SUBSET Nodes
    BY <1>2, LiveFinite
  <2>2. IsFiniteSet(N) /\ \A n \in N : q[n] \in Nat /\ q[n] = b.nodes[n].remaining
    BY <1>1, <2>1, QuantityTyped
  <2> HIDE DEF N, q
  <2>3. f \in [N -> O] /\ \A t \in O : \E x \in N : f[x] = t
    BY <1>2
  <2>4. \A x, y \in N : f[x] = f[y] => x = y
    <3> SUFFICES ASSUME NEW x \in N, NEW y \in N, OrderAt(b, x) = OrderAt(b, y) PROVE x = y
      OBVIOUS
    <3>1. b.nodes[x].priority = b.nodes[y].priority
      BY OrderFields
    <3> QED
      BY <1>2, <3>1 DEF Sound, OrdersOK
  <2>5. \A x \in N : q[x] \in Nat /\ w[f[x]] = q[x]
    <3> SUFFICES ASSUME NEW x \in N PROVE q[x] \in Nat /\ w[f[x]] = q[x]
      OBVIOUS
    <3>1. f[x] = OrderAt(b, x) /\ f[x] \in O
      BY <2>3
    <3>2. w[f[x]] = OrderAt(b, x).quantity
      BY <3>1
    <3> QED
      BY <2>2, <3>2, OrderFields
  <2> HIDE DEF f, w
  <2> QED
    BY <2>2, <2>3, <2>4, <2>5, TotalRenamed
<1>8. Abstract!MapThenSumSet(LAMBDA o : o.quantity, O) = Total(w, O)
  BY <1>3, OrdersSum
<1> HIDE DEF N, q, v, u, w
<1>9. MapThenSumSet(LAMBDA i : b.levels[opposite][i].total_quantity, L)
        = Abstract!MapThenSumSet(LAMBDA o : o.quantity, O)
  BY <1>4, <1>5, <1>6, <1>7, <1>8
<1> QED
  BY <1>9 DEF L, O, opposite

(* can_fully_fill decides what the abstract book decides. *)
LEMMA CanFillSame ==
  ASSUME NoWrap, NEW b, Sound(b), NEW s, Fit(Orders(b), s), NEW c \in Command
  PROVE  CanFullyFill(b, c.side, EffectiveLimit(c), c.quantity) <=> Abstract!CanFill(Orders(b), c)
<1>1. c.side \in Sides /\ EffectiveLimit(c) \in Int
  BY ConfigAssumption DEF Command, EffectiveLimit
<1>2. Abstract!EffectiveLimit(c) = EffectiveLimit(c)
  BY SamePrices
<1>3. MapThenSumSet(LAMBDA i : b.levels[Opposite(c.side)][i].total_quantity,
                    ScannedLevels(b, c.side, EffectiveLimit(c)))
        = Abstract!MapThenSumSet(LAMBDA o : o.quantity,
                                 Abstract!CrossingOrders(Orders(b), c.side, EffectiveLimit(c)))
  BY <1>1, CrossingSum
<1> QED
  BY <1>2, <1>3 DEF CanFullyFill, Abstract!CanFill

(* No node is free exactly when the abstract book is full. *)
LEMMA FullSame ==
  ASSUME NEW b, Sound(b)
  PROVE  b.free = <<>> <=> Cardinality(Orders(b)) = MaximumOrders
<1>1. Len(b.free) = MaximumOrders - Cardinality(Live(b)) /\ b.free \in Seq(Nodes)
  BY FreeCount DEF Sound, BookType
<1>2. Cardinality(Orders(b)) = Cardinality(Live(b)) /\ Cardinality(Live(b)) \in Nat
  BY OrdersAre, LiveFinite
<1>3. b.free = <<>> <=> Len(b.free) = 0
  BY <1>1
<1>4. MaximumOrders \in Nat
  BY ConfigAssumption
<1> QED
  BY <1>1, <1>2, <1>3, <1>4

(* The instance counts as this module does. *)
LEMMA SameCardinality ==
  ASSUME NEW S
  PROVE  Abstract!Cardinality(S) = Cardinality(S)
BY DEF Abstract!Cardinality, Cardinality

(* Both books give submit the same early return. *)
LEMMA SubmitReasonSame ==
  ASSUME NoWrap, NEW b, Sound(b), NEW s, Fit(Orders(b), s), NEW c \in Command,
         NEW replacement \in BOOLEAN
  PROVE  SubmitReason(b, c, replacement) = Abstract!SubmitReason(Orders(b), c, replacement)
<1> DEFINE can == CanFullyFill(b, c.side, EffectiveLimit(c), c.quantity)
<1>1. can <=> Abstract!CanFill(Orders(b), c)
  BY CanFillSame
<1>2. b.free = <<>> <=> Cardinality(Orders(b)) = MaximumOrders
  BY FullSame
<1>3. NoRoom(b, c) <=> Abstract!NoRoom(Orders(b), c)
  BY <1>1, <1>2, SameCardinality DEF NoRoom, Abstract!NoRoom
<1>4. b.index[c.order_id] # InvalidNode <=> Abstract!Resting(Orders(b), c.order_id)
  BY IndexAnswers DEF Abstract!Resting, Command
<1>5. Abstract!ValidPrice(c.price) <=> ValidPrice(c.price)
  BY SamePrices
<1> HIDE DEF can
<1> QED
  BY <1>1, <1>3, <1>4, <1>5 DEF SubmitReason, Abstract!SubmitReason, can

(* The loop goes on while there is an order that crosses, and then trades with
   the best of them. *)
LEMMA BestSame ==
  ASSUME NEW b, Sound(b), NEW side \in Sides, NEW limit \in Int
  PROVE  LET i == BestIndex(b, Opposite(side))
             o == OrderAt(b, Maker(b.levels[Opposite(side)][i])) IN
         /\ CrossesLevel(side, limit, i) <=> Abstract!CrossingOrders(Orders(b), side, limit) # {}
         /\ CrossesLevel(side, limit, i) => o \in Abstract!BestOpposite(Orders(b), side, limit)
<1> DEFINE opposite == Opposite(side)
           i == BestIndex(b, opposite)
           n == Maker(b.levels[opposite][i])
           o == OrderAt(b, n)
           X == Abstract!CrossingOrders(Orders(b), side, limit)
<1>0. opposite \in Sides /\ (side = "Buy" <=> opposite = "Sell") /\ (side = "Sell" <=> opposite = "Buy")
  BY DEF Opposite, Sides
<1>1. X = {p \in Orders(b) : p.side = opposite /\ Crosses(side, limit, p.price)}
  BY SamePrices DEF Abstract!CrossingOrders
<1>2. ASSUME NEW p \in X
      PROVE  \E m \in Live(b) : /\ p = OrderAt(b, m) /\ p.price = b.nodes[m].price
                                /\ p.priority = b.nodes[m].priority
                                /\ p.price \in Int /\ p.priority \in Nat
                                /\ PriceIndex(p.price) \in Levels
                                /\ IndexPrice(PriceIndex(p.price)) = p.price
                                /\ m \in Queued(b, opposite, PriceIndex(p.price))
                                /\ PriceIndex(p.price) \in Occupied(b, opposite)
  <2> HIDE DEF opposite
  <2>1. PICK m \in Live(b) : p = OrderAt(b, m)
    BY <1>1 DEF Orders
  <2>2. p.price = b.nodes[m].price /\ p.side = b.nodes[m].side /\ p.priority = b.nodes[m].priority
    BY <2>1, OrderFields
  <2>3. /\ b.nodes[m].price \in Int /\ ValidPrice(b.nodes[m].price) /\ b.nodes[m].priority \in Nat
        /\ m \in Queued(b, b.nodes[m].side, PriceIndex(b.nodes[m].price))
    BY LiveCounted DEF OrderNode
  <2>4. p.side = opposite
    BY <1>1
  <2>5. PriceIndex(p.price) \in Levels /\ IndexPrice(PriceIndex(p.price)) = p.price
    BY <2>2, <2>3, PriceToLevel
  <2> QED
    BY <2>1, <2>2, <2>3, <2>4, <2>5 DEF Occupied
<1>3. ASSUME CrossesLevel(side, limit, i)
      PROVE  o \in Abstract!BestOpposite(Orders(b), side, limit)
  <2>1. i # NoPrice /\ Crosses(side, limit, IndexPrice(i))
    BY <1>3 DEF CrossesLevel
  <2>2. /\ i \in Levels /\ n \in Queued(b, opposite, i) /\ n \in Live(b)
        /\ \A j \in Occupied(b, opposite) : NoWorse(opposite, i, j)
        /\ \A m \in Queued(b, opposite, i) : b.nodes[n].priority <= b.nodes[m].priority
    BY <1>0, <2>1, MakerLive
  <2> HIDE DEF X, i, n, opposite
  <2>3. b.nodes[n].side = opposite /\ PriceIndex(b.nodes[n].price) = i
    BY <2>2 DEF Queued
  <2>4. /\ b.nodes[n].price \in Int /\ ValidPrice(b.nodes[n].price) /\ b.nodes[n].priority \in Nat
    BY <2>2, LiveCounted DEF OrderNode
  <2>5. IndexPrice(i) = b.nodes[n].price
    BY <2>3, <2>4, PriceToLevel
  <2>6. o.side = opposite /\ o.price = IndexPrice(i) /\ o.priority = b.nodes[n].priority
    BY <2>3, <2>5, OrderFields
  <2>7. o \in X
    BY <1>1, <2>1, <2>2, <2>6 DEF Orders
  <2>8. ASSUME NEW p \in X PROVE Abstract!Precedes(side, o, p)
    <3> DEFINE j == PriceIndex(p.price)
    <3>1. PICK m \in Live(b) : /\ p.price \in Int /\ p.priority = b.nodes[m].priority
                               /\ p.priority \in Nat
                               /\ j \in Levels /\ IndexPrice(j) = p.price
                               /\ m \in Queued(b, opposite, j)
                               /\ j \in Occupied(b, opposite)
      BY <1>2
    <3> HIDE DEF j
    <3>2. NoWorse(opposite, i, j) /\ i \in Int /\ j \in Int /\ IndexPrice(i) \in Int
      BY <2>2, <3>1, LevelToPrice
    <3>3. /\ i < j <=> IndexPrice(i) < IndexPrice(j)
          /\ j < i <=> IndexPrice(j) < IndexPrice(i)
      BY <2>2, <3>1, LadderOrder
    <3>4. i = j => o.priority <= p.priority
      BY <2>2, <2>6, <3>1
    <3>5. o.price = IndexPrice(i) /\ p.price = IndexPrice(j)
      BY <2>6, <3>1
    <3> HIDE DEF o
    <3> QED
      BY <1>0, <3>2, <3>3, <3>4, <3>5 DEF NoWorse, Abstract!Precedes, Sides
  <2> QED
    BY <2>7, <2>8 DEF Abstract!BestOpposite, X
<1>4. ASSUME X # {} PROVE CrossesLevel(side, limit, i)
  <2>1. PICK p \in X : TRUE
    BY <1>4
  <2> DEFINE j == PriceIndex(p.price)
  <2>2. j \in Occupied(b, opposite) /\ j \in Levels /\ IndexPrice(j) = p.price
    BY <1>2, <2>1
  <2>3. Crosses(side, limit, IndexPrice(j))
    BY <1>1, <2>1, <2>2
  <2> HIDE DEF j
  <2>4. i \in Occupied(b, opposite) /\ NoWorse(opposite, i, j)
    BY <1>0, <2>2, BestIndexIs
  <2>5. i \in Levels /\ i # NoPrice
    BY <2>4 DEF Occupied, Levels, NoPrice
  <2> HIDE DEF i, opposite
  <2>6. IndexPrice(i) \in Int /\ IndexPrice(j) \in Int /\ i \in Int /\ j \in Int
    BY <2>2, <2>5, LevelToPrice
  <2>7. /\ i < j <=> IndexPrice(i) < IndexPrice(j)
        /\ j < i <=> IndexPrice(j) < IndexPrice(i)
    BY <2>2, <2>5, LadderOrder
  <2>8. Crosses(side, limit, IndexPrice(i))
    BY <1>0, <2>3, <2>4, <2>6, <2>7 DEF NoWorse, Crosses, Sides
  <2> QED
    BY <2>5, <2>8 DEF CrossesLevel
<1>5. o \in Abstract!BestOpposite(Orders(b), side, limit) => X # {}
  BY DEF Abstract!BestOpposite
<1> HIDE DEF X, o
<1> QED
  BY <1>3, <1>4, <1>5 DEF X, o

-----------------------------------------------------------------------------
(* The refinement, step by step. *)

(* The abstract book's orders, before and after a step. *)
LEMMA IndexedAre ==
  /\ Sound(book) => IndexedOrders = Orders(book)
  /\ Sound(book') => IndexedOrders' = Orders(book')
<1>1. Sound(book) => IndexedOrders = Orders(book)
  BY LiveNodesAre
<1>2. ASSUME Sound(book') PROVE IndexedOrders' = Orders(book')
  <2>1. {book'.index[id] : id \in OrderIds} \ {InvalidNode} = Live(book')
    BY <1>2, IndexedLive
  <2> QED
    BY <2>1 DEF IndexedOrders, LiveNodes, Orders
<1> QED
  BY <1>1, <1>2

(* Both books build the same events and take the same commands. *)
LEMMA SameEvents ==
  ASSUME NEW type, NEW c, NEW contra, NEW price, NEW quantity, NEW reason
  PROVE  /\ Abstract!Emit(type, c, contra, price, quantity, reason)
              = Emit(type, c, contra, price, quantity, reason)
         /\ Abstract!Rejection(c, reason) = Rejection(c, reason)
         /\ Abstract!Acceptance(c) = Acceptance(c)
         /\ Abstract!Traded(price, quantity) = Traded(price, quantity)
<1>1. Abstract!Emit(type, c, contra, price, quantity, reason)
        = Emit(type, c, contra, price, quantity, reason)
  BY DEF Abstract!Emit, Emit
<1>2. Abstract!Rejection(c, reason) = Rejection(c, reason)
  BY DEF Abstract!Emit, Emit, Abstract!Rejection, Rejection
<1>3. Abstract!Acceptance(c) = Acceptance(c)
  BY DEF Abstract!Emit, Emit, Abstract!Acceptance, Acceptance
<1>4. Abstract!Traded(price, quantity) = Traded(price, quantity)
  BY DEF Abstract!Traded, Traded
<1> QED
  BY <1>1, <1>2, <1>3, <1>4

(* The abstract book takes the same commands and checks replacements alike. *)
LEMMA SameCommands ==
  ASSUME NEW s, NEW c, NEW side
  PROVE  /\ Abstract!Commands(s) = Commands(s)
         /\ Abstract!ReplaceReason(c) = ReplaceReason(c)
         /\ Abstract!Replacement(c, side) = Replacement(c, side)
<1>1. Abstract!Commands(s) = Commands(s)
  BY DEF Abstract!Commands, Commands, Abstract!Sides, Sides, Abstract!OrderTypes, OrderTypes
<1>2. Abstract!ReplaceReason(c) = ReplaceReason(c)
  BY SamePrices DEF Abstract!ReplaceReason, ReplaceReason
<1>3. Abstract!Replacement(c, side) = Replacement(c, side)
  BY DEF Abstract!Replacement, Replacement
<1> QED
  BY <1>1, <1>2, <1>3

(* A rejection is one of the abstract book. *)
LEMMA RejectImplements ==
  ASSUME Sound(book), NEW c, NEW reason, Reject(c, reason)
  PROVE  Abstract!Reject(c, reason)
<1>1. /\ events' = <<Rejection(c, reason)>> /\ book' = book
      /\ command' = command /\ remaining' = remaining
  BY DEF Reject
<1>2. IndexedOrders' = IndexedOrders
  BY <1>1 DEF IndexedOrders, LiveNodes
<1>3. Abstract!Rejection(c, reason) = Rejection(c, reason)
  BY SameEvents
<1> QED
  BY <1>1, <1>2, <1>3 DEF Abstract!Reject

(* submit is the abstract submit on the orders of the containers. *)
LEMMA SubmitImplements ==
  ASSUME NoWrap, NEW b, Sound(b), NEW s, Fit(Orders(b), s), NEW c \in Command,
         NEW replacement \in BOOLEAN, NEW before, Submit(b, c, before, replacement)
  PROVE  Abstract!Submit(Orders(b), c, before, replacement)
<1> DEFINE reason == SubmitReason(b, c, replacement)
<1>1. /\ IF reason = "None"
         THEN /\ command' = c
              /\ remaining' = c.quantity
              /\ events' = IF replacement THEN before ELSE Append(before, Acceptance(c))
         ELSE /\ events' = Append(before, Rejection(c, reason))
              /\ command' = command /\ remaining' = remaining
      /\ book' = b
  BY DEF Submit
<1>2. reason = Abstract!SubmitReason(Orders(b), c, replacement)
  BY SubmitReasonSame
<1>3. IndexedOrders' = Orders(b)
  <2>1. Sound(book') /\ Orders(book') = Orders(b)
    BY <1>1
  <2> QED
    BY <2>1, IndexedAre
<1>4. Abstract!Acceptance(c) = Acceptance(c) /\ Abstract!Rejection(c, reason) = Rejection(c, reason)
  BY SameEvents
<1> HIDE DEF reason
<1> QED
  BY <1>1, <1>2, <1>3, <1>4 DEF Abstract!Submit

(* process() does on arrival what the abstract book does. *)
LEMMA ProcessImplements ==
  ASSUME NoWrap, IndInv, NEW c \in Command, Process(c)
  PROVE  Abstract!Process(c)
<1>0. /\ command = NoCommand /\ Sound(book) /\ Fit(Orders(book), lastSequence)
      /\ c.order_id \in OrderIds /\ IndexedOrders = Orders(book)
  BY IndexedAre DEF Process, SequenceGap, New, Cancel, Replace, InSequence, Ready, IndInv,
                    CommandFit, Command
<1> DEFINE found == book.index[c.order_id]
<1>i. /\ found = InvalidNode <=> ~Abstract!Resting(IndexedOrders, c.order_id)
      /\ found # InvalidNode => /\ found \in Live(book)
                                /\ OrderAt(book, found) \in IndexedOrders
                                /\ OrderAt(book, found).order_id = c.order_id
  BY <1>0, IndexAnswers DEF Abstract!Resting
<1>s. InSequence(c) => Abstract!InSequence(c)
  BY DEF InSequence, Ready, Abstract!InSequence, Abstract!Ready
<1>1. CASE SequenceGap(c)
  <2>1. Abstract!Reject(c, "SequenceGap")
    BY <1>0, <1>1, RejectImplements DEF SequenceGap
  <2>2. Abstract!SequenceGap(c)
    BY <1>1, <2>1 DEF SequenceGap, Ready, Abstract!SequenceGap, Abstract!Ready
  <2> QED
    BY <2>2 DEF Abstract!Process
<1>2. CASE New(c)
  <2>1. Submit(book, c, <<>>, FALSE) /\ InSequence(c) /\ c.type = "New"
    BY <1>2 DEF New
  <2>2. Abstract!Submit(Orders(book), c, <<>>, FALSE)
    BY <1>0, <2>1, SubmitImplements
  <2>3. Abstract!Submit(IndexedOrders, c, <<>>, FALSE)
    BY <1>0, <2>2
  <2>4. Abstract!New(c)
    BY <1>s, <2>1, <2>3 DEF Abstract!New
  <2> QED
    BY <2>4 DEF Abstract!Process
<1>3. CASE Cancel(c)
  <2>0. c.type = "Cancel" /\ Abstract!InSequence(c)
    BY <1>3, <1>s DEF Cancel
  <2>1. CASE found = InvalidNode
    <3>1. Reject(c, "UnknownOrderId")
      BY <1>3, <2>1 DEF Cancel
    <3>2. Abstract!Reject(c, "UnknownOrderId")
      BY <1>0, <3>1, RejectImplements
    <3>3. Abstract!Cancel(c)
      BY <1>i, <2>0, <2>1, <3>2 DEF Abstract!Cancel
    <3> QED
      BY <3>3 DEF Abstract!Process
  <2>2. CASE found # InvalidNode
    <3> DEFINE o == OrderAt(book, found)
    <3>1. /\ book' = RemoveNode(book, found)
          /\ events' = <<Emit("Cancelled", c, NoOrder, book.nodes[found].price,
                              book.nodes[found].remaining, "None")>>
          /\ command' = command /\ remaining' = remaining
      BY <1>3, <2>2 DEF Cancel
    <3>2. found \in Live(book) /\ o \in IndexedOrders /\ o.order_id = c.order_id
      BY <1>i, <2>2
    <3>3. o.price = book.nodes[found].price /\ o.quantity = book.nodes[found].remaining
      BY OrderFields
    <3> HIDE DEF found
    <3>4. Sound(book') /\ Orders(book') = Orders(book) \ {o}
      BY <1>0, <3>1, <3>2, RemoveOrders
    <3>5. IndexedOrders' = IndexedOrders \ {o}
      BY <1>0, <3>4, IndexedAre
    <3>6. events' = <<Abstract!Emit("Cancelled", c, NoOrder, o.price, o.quantity, "None")>>
      BY <3>1, <3>3, SameEvents
    <3> HIDE DEF o
    <3>7. Abstract!Cancel(c)
      BY <2>0, <3>1, <3>2, <3>5, <3>6 DEF Abstract!Cancel
    <3> QED
      BY <3>7 DEF Abstract!Process
  <2> QED
    BY <2>1, <2>2
<1>4. CASE Replace(c)
  <2>0. c.type = "Replace" /\ Abstract!InSequence(c)
        /\ Abstract!ReplaceReason(c) = ReplaceReason(c)
    BY <1>4, <1>s, SameCommands DEF Replace
  <2>1. CASE found = InvalidNode
    <3>1. Reject(c, "UnknownOrderId")
      BY <1>4, <2>1 DEF Replace
    <3>2. Abstract!Reject(c, "UnknownOrderId")
      BY <1>0, <3>1, RejectImplements
    <3>3. Abstract!Replace(c)
      BY <1>i, <2>0, <2>1, <3>2 DEF Abstract!Replace
    <3> QED
      BY <3>3 DEF Abstract!Process
  <2>2. CASE found # InvalidNode /\ ReplaceReason(c) # "None"
    <3>1. Reject(c, ReplaceReason(c))
      BY <1>4, <2>2 DEF Replace
    <3>2. Abstract!Reject(c, ReplaceReason(c))
      BY <1>0, <3>1, RejectImplements
    <3>3. Abstract!Replace(c)
      BY <1>i, <2>0, <2>2, <3>2 DEF Abstract!Replace
    <3> QED
      BY <3>3 DEF Abstract!Process
  <2>3. CASE found # InvalidNode /\ ReplaceReason(c) = "None"
    <3> DEFINE o == OrderAt(book, found)
               r == Replacement(c, o.side)
               b == RemoveNode(book, found)
               e == Emit("Replaced", r, NoOrder, r.price, r.quantity, "None")
    <3>1. found \in Live(book) /\ o \in IndexedOrders /\ o.order_id = c.order_id
      BY <1>i, <2>3
    <3>2. o.side = book.nodes[found].side /\ o.side \in Sides
      BY <1>0, <3>1, LiveCounted, OrderFields
    <3>3. Submit(b, r, <<e>>, TRUE)
      BY <1>4, <2>3, <3>2 DEF Replace
    <3> HIDE DEF found
    <3>4. Sound(b) /\ Orders(b) = Orders(book) \ {o}
      BY <1>0, <3>1, RemoveOrders
    <3> HIDE DEF o
    <3>5. r \in Command
      BY <3>2 DEF Replacement, Command, OrderTypes
    <3> HIDE DEF b
    <3>6. Fit(Orders(b), lastSequence)
      BY <1>0, <3>4, FitSubset
    <3>7. Abstract!Submit(Orders(b), r, <<e>>, TRUE)
      <4> HIDE DEF r, e
      <4> QED
        BY <3>3, <3>4, <3>5, <3>6, SubmitImplements
    <3>8. Abstract!Submit(IndexedOrders \ {o}, r, <<e>>, TRUE)
      BY <1>0, <3>4, <3>7
    <3>9. /\ Abstract!Replacement(c, o.side) = r
          /\ Abstract!Emit("Replaced", r, NoOrder, r.price, r.quantity, "None") = e
      BY SameCommands, SameEvents
    <3> HIDE DEF r, e
    <3>10. Abstract!Replace(c)
      BY <2>0, <2>3, <3>1, <3>8, <3>9 DEF Abstract!Replace
    <3> QED
      BY <3>10 DEF Abstract!Process
  <2> QED
    BY <2>1, <2>2, <2>3
<1> QED
  BY <1>1, <1>2, <1>3, <1>4 DEF Process

(* The matching loop ends when the abstract one does, and otherwise its maker is the
   abstract best order. *)
LEMMA LoopSame ==
  ASSUME IndInv, command # NoCommand
  PROVE  LET i == BestIndex(book, Opposite(command.side))
             o == OrderAt(book, Maker(book.levels[Opposite(command.side)][i]))
             limit == EffectiveLimit(command) IN
         /\ LoopEnds <=> Abstract!LoopEnds
         /\ LoopContinues => o \in Abstract!BestOpposite(IndexedOrders, command.side, limit)
<1> DEFINE side == command.side
           i == BestIndex(book, Opposite(side))
           o == OrderAt(book, Maker(book.levels[Opposite(side)][i]))
           limit == EffectiveLimit(command)
           crosses == CrossesLevel(side, limit, i)
<1>1. /\ Sound(book) /\ side \in Sides /\ limit \in Int /\ remaining \in Nat
      /\ IndexedOrders = Orders(book)
  BY LoopState, IndexedAre, ConfigAssumption DEF EffectiveLimit
<1>2. /\ crosses <=> Abstract!CrossingOrders(IndexedOrders, side, limit) # {}
      /\ crosses => o \in Abstract!BestOpposite(IndexedOrders, side, limit)
  BY <1>1, BestSame
<1>3. LoopContinues <=> remaining > 0 /\ crosses
  BY DEF LoopContinues, BestOpposite
<1>4. Abstract!EffectiveLimit(command) = limit
  BY SamePrices
<1> HIDE DEF o, limit, crosses
<1>5. LoopEnds <=> Abstract!LoopEnds
  BY <1>1, <1>2, <1>3, <1>4 DEF LoopEnds, Abstract!LoopEnds
<1> QED
  BY <1>2, <1>3, <1>5 DEF o, limit

(* An iteration of the matching loop is an abstract trade. *)
LEMMA TradeImplements ==
  ASSUME IndInv, Trade
  PROVE  Abstract!Trade
<1> DEFINE side == Opposite(command.side)
           i == BestIndex(book, side)
           n == Maker(book.levels[side][i])
           o == OrderAt(book, n)
           traded == Traded(remaining, book.nodes[n].remaining)
<1>1. /\ command # NoCommand /\ remaining > 0 /\ i # NoPrice /\ LoopContinues
      /\ remaining' = remaining - traded
      /\ book' = TradeWith(book, n, traded)
      /\ events' = Append(events, Emit("Trade", command, book.nodes[n].id,
                                       book.nodes[n].price, traded, "None"))
      /\ lastSequence' = lastSequence /\ command' = command
  BY ZenonT(30) DEF Trade, LoopContinues, BestOpposite, CrossesLevel
<1>2. Sound(book) /\ remaining \in Nat /\ side \in Sides /\ IndexedOrders = Orders(book)
  BY <1>1, LoopState, IndexedAre, ZenonT(30)
<1>3. n \in Live(book)
  BY <1>1, <1>2, MakerLive, ZenonT(30)
<1>4. o \in Abstract!BestOpposite(IndexedOrders, command.side, Abstract!EffectiveLimit(command))
  BY <1>1, LoopSame, SamePrices, ZenonT(30)
<1>5. /\ o.order_id = book.nodes[n].id /\ o.price = book.nodes[n].price
      /\ o.quantity = book.nodes[n].remaining
  BY OrderFields, SMTT(30)
<1>6. o.quantity \in Nat
  BY <1>2, <1>3, <1>5, LiveCounted, ZenonT(30) DEF OrderNode
<1> HIDE DEF n, i, side
<1> HIDE DEF o
<1>7. traded \in Nat /\ traded <= book.nodes[n].remaining
  BY <1>2, <1>5, <1>6 DEF Traded
<1>t. traded = Abstract!Traded(remaining, o.quantity)
  BY <1>5, SameEvents
<1> HIDE DEF traded
<1>8. /\ Sound(book')
      /\ Orders(book') = IF traded = o.quantity THEN Orders(book) \ {o}
                         ELSE (Orders(book) \ {o}) \cup {[o EXCEPT !.quantity = @ - traded]}
  BY <1>1, <1>2, <1>3, <1>5, <1>7, TradeOrders DEF o
<1>9. IndexedOrders' = IF traded = o.quantity THEN IndexedOrders \ {o}
                       ELSE (IndexedOrders \ {o}) \cup {[o EXCEPT !.quantity = @ - traded]}
  BY <1>2, <1>8, IndexedAre
<1>10. events' = Append(events, Abstract!Emit("Trade", command, o.order_id, o.price, traded, "None"))
  BY <1>1, <1>5, SameEvents
<1> QED
  BY <1>1, <1>4, <1>t, <1>9, <1>10, ZenonT(30) DEF Abstract!Trade

(* Resting a remainder is the abstract step. *)
LEMMA RestImplements ==
  ASSUME IndInv, Rest
  PROVE  Abstract!Rest
<1>1. /\ command # NoCommand /\ ~LoopContinues /\ LoopEnds
      /\ remaining > 0 /\ command.order_type = "Limit"
      /\ book' = AddResting(book, command.order_id, command.side, command.price,
                            remaining, command.sequence)
      /\ events' = Append(events, Emit("Rested", command, NoOrder, command.price,
                                       remaining, "None"))
      /\ command' = NoCommand /\ remaining' = 0 /\ lastSequence' = lastSequence
  BY DEF Rest, LoopEnds
<1>2. /\ command \in Command /\ Sound(book) /\ lastSequence \in Nat \ {0} /\ remaining \in Nat
      /\ command.sequence = lastSequence /\ command.order_id \in OrderIds
      /\ command.side \in Sides /\ command.price \in Int
      /\ Fit(Orders(book), lastSequence - 1) /\ book.index[command.order_id] = InvalidNode
  BY <1>1, LoopState
<1>3. book.free # <<>> /\ ValidPrice(command.price)
  BY <1>1 DEF IndInv, CommandFit
<1>4. \A p \in Orders(book) : p.priority < lastSequence
  BY <1>2, OrdersAre DEF RestingOrder, Fit
<1> DEFINE o == [order_id |-> command.order_id, side |-> command.side,
                 price |-> command.price, quantity |-> remaining, priority |-> command.sequence]
<1>5. Sound(book') /\ Orders(book') = Orders(book) \cup {o}
  BY <1>1, <1>2, <1>3, <1>4, AddOrders
<1>6. IndexedOrders' = IndexedOrders \cup {o}
  BY <1>2, <1>5, IndexedAre
<1>7. Abstract!LoopEnds
  BY <1>1, LoopSame
<1>8. events' = Append(events, Abstract!Emit("Rested", command, NoOrder, command.price,
                                             remaining, "None"))
  BY <1>1, SameEvents
<1> QED
  BY <1>1, <1>6, <1>7, <1>8 DEF Abstract!Rest

(* The steps that change no order; a restart is a stuttering step. *)
LEMMA QuietImplements ==
  ASSUME IndInv, DropRemainder \/ Filled \/ TakeEvents \/ Recover \/ UNCHANGED vars
  PROVE  [Abstract!Next]_(Abstract!vars)
<1>1. book' = book => IndexedOrders' = IndexedOrders
  BY DEF IndexedOrders, LiveNodes
<1>2. CASE DropRemainder
  <2>1. command # NoCommand /\ LoopEnds /\ book' = book
    BY <1>2 DEF DropRemainder, LoopEnds
  <2>2. Abstract!LoopEnds
    BY <2>1, LoopSame
  <2>3. Abstract!DropRemainder
    BY <1>1, <1>2, <2>1, <2>2, SameEvents DEF DropRemainder, Abstract!DropRemainder
  <2> QED
    BY <2>3 DEF Abstract!Next
<1>3. CASE Filled
  <2>1. command # NoCommand /\ LoopEnds /\ book' = book
    BY <1>3 DEF Filled, LoopEnds
  <2>2. Abstract!LoopEnds
    BY <2>1, LoopSame
  <2>3. Abstract!Filled
    BY <1>1, <1>3, <2>1, <2>2 DEF Filled, Abstract!Filled
  <2> QED
    BY <2>3 DEF Abstract!Next
<1>4. CASE TakeEvents
  <2>1. Abstract!TakeEvents
    BY <1>1, <1>4 DEF TakeEvents, Abstract!TakeEvents
  <2> QED
    BY <2>1 DEF Abstract!Next
<1>5. CASE Recover
  <2>1. Orders(book') = Orders(book) /\ IndInv'
    BY <1>5, RecoverPreserves
  <2>2. IndexedOrders' = IndexedOrders
    BY <2>1, IndexedAre DEF IndInv
  <2> QED
    BY <1>5, <2>2 DEF Recover, Abstract!vars
<1>6. CASE UNCHANGED vars
  BY <1>1, <1>6 DEF vars, Abstract!vars
<1> QED
  BY <1>2, <1>3, <1>4, <1>5, <1>6

(* Every step is an abstract step or a stuttering one. *)
LEMMA NextImplements ==
  ASSUME NoWrap
  PROVE  IndInv /\ [Next]_vars => [Abstract!Next]_(Abstract!vars)
<1> SUFFICES ASSUME IndInv, [Next]_vars PROVE [Abstract!Next]_(Abstract!vars)
  OBVIOUS
<1>1. CASE Receive
  <2>1. PICK step \in SequenceSteps : \E c \in Commands(lastSequence + step) : Process(c)
    BY <1>1 DEF Receive
  <2>2. lastSequence + step \in Nat
    BY InputAssumption DEF IndInv, TypeOK
  <2>3. PICK c \in Commands(lastSequence + step) : Process(c)
    BY <2>1
  <2>4. c \in Command
    BY <2>2, <2>3, CommandsTyped
  <2>5. Abstract!Process(c)
    BY <2>3, <2>4, ProcessImplements
  <2>6. c \in Abstract!Commands(lastSequence + step)
    BY SameCommands
  <2>7. Abstract!Receive
    BY <1>1, <2>5, <2>6 DEF Receive, Ready, Abstract!Receive, Abstract!Ready
  <2> QED
    BY <2>7 DEF Abstract!Next
<1>2. CASE Trade
  BY <1>2, TradeImplements DEF Abstract!Next
<1>3. CASE Rest
  BY <1>3, RestImplements DEF Abstract!Next
<1> QED
  BY <1>1, <1>2, <1>3, QuietImplements DEF Next

(* The empty book is the abstract empty book. *)
LEMMA InitImplements == Init => Abstract!Init
<1> SUFFICES ASSUME Init PROVE Abstract!Init
  OBVIOUS
<1>1. Sound(book) /\ Live(book) = {}
  BY EmptySound DEF Init
<1>2. IndexedOrders = {}
  BY <1>1, IndexedAre DEF Orders
<1> QED
  BY <1>2 DEF Init, Abstract!Init

(* ImplementsPriceTime: class OrderBook implements price-time priority, event by event,
   as long as MaximumOrders quantities do not overflow. *)
THEOREM BookRefines == ASSUME NoWrap PROVE Spec => ImplementsPriceTime
BY BookInvariant, InitImplements, NextImplements, PTL DEF Spec, ImplementsPriceTime, Abstract!Spec
==============================================================================
