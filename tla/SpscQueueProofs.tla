--------------------------- MODULE SpscQueueProofs ---------------------------
(***************************************************************************)
(* The safety of the ring for every size and set of values, and that it    *)
(* implements the bounded FIFO.                                            *)
(***************************************************************************)
EXTENDS SpscQueue, TLAPS

(* A thread past its check keeps what it has seen: the producer a vacant slot
   beyond the one it fills, the consumer a filled slot. *)
ChecksHold ==
  /\ producer \in {"write", "publish"} => Distance(seenHead, tail) < Size - 1
  /\ consumer \in {"read", "advance"} => head # seenTail

(* What a thread has copied is what the slot holds until it moves its index. *)
CopiesHold ==
  /\ producer = "publish" => buffer[tail] = offered
  /\ consumer = "advance" => value = buffer[head]
  /\ producer = "idle" <=> offered = NoValue

IndInv == TypeOK /\ IndicesOrdered /\ ChecksHold

-----------------------------------------------------------------------------
(* Ring arithmetic without the remainder. *)
Gap(a, b) == IF a <= b THEN b - a ELSE b - a + Size

LEMMA Remainder ==
  ASSUME NEW n \in Nat \ {0}, NEW x \in Int
  PROVE  /\ -n <= x /\ x < 0 => x % n = x + n
         /\ 0 <= x /\ x < n => x % n = x
         /\ n <= x /\ x < 2 * n => x % n = x - n
OBVIOUS

LEMMA DistanceIs ==
  ASSUME NEW a \in Slots, NEW b \in Slots
  PROVE  Distance(a, b) = Gap(a, b) /\ Distance(a, b) \in Slots
<1>1. /\ Size \in Nat \ {0}
      /\ b - a \in Int /\ -Size <= b - a /\ b - a < Size
      /\ a \in Int /\ b \in Int
  BY QueueAssumption DEF Slots
<1>2. /\ b - a < 0 => (b - a) % Size = b - a + Size
      /\ 0 <= b - a => (b - a) % Size = b - a
  BY <1>1, Remainder
<1> QED
  BY <1>1, <1>2 DEF Distance, Slots, Gap

LEMMA AfterIs ==
  ASSUME NEW s \in Slots
  PROVE  /\ After(s) = IF s = Size - 1 THEN 0 ELSE s + 1
         /\ After(s) \in Slots
<1>1. /\ Size \in Nat \ {0}
      /\ s \in Int /\ s + 1 \in Int /\ 0 <= s + 1 /\ s + 1 < 2 * Size /\ s + 1 <= Size
  BY QueueAssumption DEF Slots
<1>2. /\ s + 1 < Size => (s + 1) % Size = s + 1
      /\ Size <= s + 1 => (s + 1) % Size = s + 1 - Size
  <2>1. PICK x \in Int : x = s + 1
    BY <1>1
  <2>2. (x < Size => x % Size = x) /\ (Size <= x => x % Size = x - Size)
    BY <1>1, <2>1, Remainder
  <2> QED
    BY <1>1, <2>1, <2>2
<1> QED
  BY <1>1, <1>2 DEF After, Slots

(* A load returns an index between the one last seen and the current one. *)
LEMMA ObservableBetween ==
  ASSUME NEW seen \in Slots, NEW actual \in Slots, NEW loaded \in Observable(seen, actual)
  PROVE  /\ loaded \in Slots
         /\ Distance(seen, loaded) + Distance(loaded, actual) = Distance(seen, actual)
<1>1. PICK k \in 0 .. Distance(seen, actual) : loaded = (seen + k) % Size
  BY DEF Observable
<1>2. Distance(seen, actual) \in Slots /\ Distance(seen, actual) = Gap(seen, actual)
  BY DistanceIs
<1>3. /\ Size \in Nat \ {0} /\ k \in Int /\ seen \in Int /\ actual \in Int
      /\ 0 <= k /\ k <= Gap(seen, actual) /\ k < Size
      /\ 0 <= seen /\ seen < Size /\ 0 <= actual /\ actual < Size
      /\ seen + k \in Int /\ 0 <= seen + k /\ seen + k < 2 * Size
  BY <1>2, QueueAssumption DEF Slots
<1>4. /\ seen + k < Size => loaded = seen + k
      /\ Size <= seen + k => loaded = seen + k - Size
  <2>1. PICK x \in Int : x = seen + k
    BY <1>3
  <2>2. (x < Size => x % Size = x) /\ (Size <= x => x % Size = x - Size)
    BY <1>3, <2>1, Remainder
  <2> QED
    BY <1>1, <1>3, <2>1, <2>2
<1>5. loaded \in Slots
  BY <1>3, <1>4 DEF Slots
<1>6. Gap(seen, loaded) + Gap(loaded, actual) = Gap(seen, actual)
  BY <1>3, <1>4 DEF Gap
<1> QED
  BY <1>2, <1>5, <1>6, DistanceIs

(* The index in the middle may move towards either end. *)
LEMMA BetweenDrop ==
  ASSUME NEW a \in Slots, NEW b \in Slots, NEW c \in Slots, NEW d \in Slots,
         Distance(a, b) + Distance(b, c) = Distance(a, c),
         Distance(a, c) + Distance(c, d) = Distance(a, d)
  PROVE  Distance(b, c) + Distance(c, d) = Distance(b, d)
<1>1. /\ Distance(a, b) = Gap(a, b) /\ Distance(b, c) = Gap(b, c) /\ Distance(a, c) = Gap(a, c)
      /\ Distance(c, d) = Gap(c, d) /\ Distance(a, d) = Gap(a, d) /\ Distance(b, d) = Gap(b, d)
  BY DistanceIs
<1> QED
  BY <1>1, QueueAssumption DEF Gap, Slots

LEMMA BetweenAdd ==
  ASSUME NEW a \in Slots, NEW b \in Slots, NEW c \in Slots, NEW d \in Slots,
         Distance(a, b) + Distance(b, d) = Distance(a, d),
         Distance(b, c) + Distance(c, d) = Distance(b, d)
  PROVE  Distance(a, c) + Distance(c, d) = Distance(a, d)
<1>1. /\ Distance(a, b) = Gap(a, b) /\ Distance(b, d) = Gap(b, d) /\ Distance(a, d) = Gap(a, d)
      /\ Distance(b, c) = Gap(b, c) /\ Distance(c, d) = Gap(c, d) /\ Distance(a, c) = Gap(a, c)
  BY DistanceIs
<1> QED
  BY <1>1, QueueAssumption DEF Gap, Slots

(* Moving the end of a distance forward, and its beginning. *)
LEMMA StepAhead ==
  ASSUME NEW a \in Slots, NEW b \in Slots
  PROVE  /\ After(b) # a => Distance(a, b) < Size - 1
         /\ Distance(a, b) < Size - 1 => Distance(a, After(b)) = Distance(a, b) + 1
<1>1. After(b) \in Slots /\ After(b) = IF b = Size - 1 THEN 0 ELSE b + 1
  BY AfterIs
<1>2. Distance(a, b) = Gap(a, b) /\ Distance(a, After(b)) = Gap(a, After(b))
  BY <1>1, DistanceIs
<1> QED
  BY <1>1, <1>2, QueueAssumption DEF Gap, Slots

LEMMA StepBehind ==
  ASSUME NEW a \in Slots, NEW b \in Slots
  PROVE  /\ a # b => Distance(After(a), b) = Distance(a, b) - 1 /\ Distance(a, b) > 0
         /\ a = b => Distance(a, b) = 0
<1>1. After(a) \in Slots /\ After(a) = IF a = Size - 1 THEN 0 ELSE a + 1
  BY AfterIs
<1>2. Distance(a, b) = Gap(a, b) /\ Distance(After(a), b) = Gap(After(a), b)
  BY <1>1, DistanceIs
<1> QED
  BY <1>1, <1>2, QueueAssumption DEF Gap, Slots

-----------------------------------------------------------------------------
LEMMA InitOK == Init => IndInv
<1> SUFFICES ASSUME Init PROVE IndInv
  OBVIOUS
<1>1. 0 \in Slots
  BY QueueAssumption DEF Slots
<1>2. Distance(0, 0) = 0
  BY <1>1, StepBehind
<1> QED
  BY <1>1, <1>2 DEF Init, IndInv, TypeOK, IndicesOrdered, ChecksHold

LEMMA LoadHeadPreserves ==
  ASSUME IndInv, NEW seen \in Slots, LoadHead(seen)
  PROVE  IndInv'
<1> USE DEF LoadHead
<1>1. head \in Slots /\ tail \in Slots /\ seenHead \in Slots /\ seen \in Slots
  BY DEF IndInv, TypeOK
<1>2. Distance(seenHead, seen) + Distance(seen, head) = Distance(seenHead, head)
  BY <1>1, ObservableBetween
<1>3. Distance(seen, head) + Distance(head, tail) = Distance(seen, tail)
  BY <1>1, <1>2, BetweenDrop DEF IndInv, IndicesOrdered
<1>4. ~LooksFull(seen) => Distance(seen, tail) < Size - 1
  BY <1>1, StepAhead DEF LooksFull
<1>5. TypeOK'
  BY DEF IndInv, TypeOK, consumerVars
<1>6. IndicesOrdered'
  BY <1>3 DEF IndInv, IndicesOrdered, consumerVars, Distance
<1>7. ChecksHold'
  BY <1>4 DEF IndInv, ChecksHold, consumerVars, Distance
<1> QED
  BY <1>5, <1>6, <1>7 DEF IndInv

LEMMA LoadTailPreserves ==
  ASSUME IndInv, NEW seen \in Slots, LoadTail(seen)
  PROVE  IndInv'
<1> USE DEF LoadTail
<1>1. head \in Slots /\ tail \in Slots /\ seenTail \in Slots /\ seen \in Slots
  BY DEF IndInv, TypeOK
<1>2. Distance(seenTail, seen) + Distance(seen, tail) = Distance(seenTail, tail)
  BY <1>1, ObservableBetween
<1>3. Distance(head, seen) + Distance(seen, tail) = Distance(head, tail)
  BY <1>1, <1>2, BetweenAdd DEF IndInv, IndicesOrdered
<1>5. TypeOK'
  BY DEF IndInv, TypeOK, producerVars
<1>6. IndicesOrdered'
  BY <1>3 DEF IndInv, IndicesOrdered, producerVars, Distance
<1>7. ChecksHold'
  BY DEF IndInv, ChecksHold, producerVars, Distance
<1> QED
  BY <1>5, <1>6, <1>7 DEF IndInv

(* The producer had seen room for one more, so the tail does not lap anyone. *)
LEMMA StoreTailPreserves ==
  ASSUME IndInv, StoreTail
  PROVE  IndInv'
<1> USE DEF StoreTail
<1>1. head \in Slots /\ tail \in Slots /\ seenHead \in Slots /\ seenTail \in Slots
  BY DEF IndInv, TypeOK
<1>2. Distance(seenHead, tail) < Size - 1
  BY DEF IndInv, ChecksHold
<1>3. /\ Distance(seenHead, head) \in Nat /\ Distance(head, tail) \in Nat
      /\ Distance(head, seenTail) \in Nat /\ Distance(seenTail, tail) \in Nat
      /\ Distance(seenHead, tail) \in Nat
  BY <1>1, DistanceIs DEF Slots
<1>4. Distance(head, tail) < Size - 1 /\ Distance(seenTail, tail) < Size - 1
  BY <1>2, <1>3, QueueAssumption DEF IndInv, IndicesOrdered
<1>5. /\ Distance(seenHead, tail') = Distance(seenHead, tail) + 1
      /\ Distance(head, tail') = Distance(head, tail) + 1
      /\ Distance(seenTail, tail') = Distance(seenTail, tail) + 1
  BY <1>1, <1>2, <1>4, StepAhead
<1>6. TypeOK'
  BY <1>1, AfterIs DEF IndInv, TypeOK, consumerVars
<1>7. IndicesOrdered'
  BY <1>3, <1>5 DEF IndInv, IndicesOrdered, consumerVars, Distance
<1>8. ChecksHold'
  BY DEF IndInv, ChecksHold, consumerVars
<1> QED
  BY <1>6, <1>7, <1>8 DEF IndInv

(* The consumer had seen a filled slot, so the head does not pass the tail. *)
LEMMA StoreHeadPreserves ==
  ASSUME IndInv, StoreHead
  PROVE  IndInv'
<1> USE DEF StoreHead
<1>1. head \in Slots /\ tail \in Slots /\ seenHead \in Slots /\ seenTail \in Slots
  BY DEF IndInv, TypeOK
<1>2. head # seenTail
  BY DEF IndInv, ChecksHold
<1>3. /\ Distance(seenHead, head) \in Nat /\ Distance(head, tail) \in Nat
      /\ Distance(head, seenTail) \in Nat /\ Distance(seenTail, tail) \in Nat
      /\ Distance(seenHead, tail) \in Nat /\ Distance(seenHead, tail) <= Size - 1
  BY <1>1, DistanceIs DEF Slots
<1>4. Distance(head', seenTail) = Distance(head, seenTail) - 1 /\ Distance(head, seenTail) > 0
  BY <1>1, <1>2, StepBehind
<1>5. Distance(head, tail) > 0
  BY <1>3, <1>4 DEF IndInv, IndicesOrdered
<1>6. head # tail
  BY <1>1, <1>5, StepBehind
<1>7. Distance(head', tail) = Distance(head, tail) - 1
  BY <1>1, <1>6, StepBehind
<1>8. Distance(seenHead, head) < Size - 1
  BY <1>3, <1>5, QueueAssumption DEF IndInv, IndicesOrdered
<1>9. Distance(seenHead, head') = Distance(seenHead, head) + 1
  BY <1>1, <1>8, StepAhead
<1>10. TypeOK'
  BY <1>1, AfterIs DEF IndInv, TypeOK, producerVars
<1>11. IndicesOrdered'
  BY <1>3, <1>4, <1>7, <1>9 DEF IndInv, IndicesOrdered, producerVars, Distance
<1>12. ChecksHold'
  BY DEF IndInv, ChecksHold, producerVars, Distance
<1> QED
  BY <1>10, <1>11, <1>12 DEF IndInv

LEMMA NextPreserves == IndInv /\ [Next]_vars => IndInv'
<1> SUFFICES ASSUME IndInv, [Next]_vars PROVE IndInv'
  OBVIOUS
<1>1. ASSUME NEW v \in Values, TryPush(v) PROVE IndInv'
  BY <1>1 DEF TryPush, IndInv, TypeOK, IndicesOrdered, ChecksHold, consumerVars, Distance
<1>2. ASSUME WriteSlot PROVE IndInv'
  BY <1>2 DEF WriteSlot, IndInv, TypeOK, IndicesOrdered, ChecksHold, consumerVars, Distance
<1>3. ASSUME ReadSlot PROVE IndInv'
  <2>1. buffer[head] \in Values \cup {NoValue}
    BY DEF IndInv, TypeOK
  <2> QED
    BY <1>3, <2>1 DEF ReadSlot, IndInv, TypeOK, IndicesOrdered, ChecksHold, producerVars, Distance
<1>4. ASSUME UNCHANGED vars PROVE IndInv'
  BY <1>4 DEF vars, IndInv, TypeOK, IndicesOrdered, ChecksHold, producerVars, consumerVars, Distance
<1> QED
  BY <1>1, <1>2, <1>3, <1>4, LoadHeadPreserves, LoadTailPreserves, StoreTailPreserves,
     StoreHeadPreserves DEF Next, Produce, Consume

(* A slot the consumer is about to release is filled, not the producer's. *)
LEMMA HeadNotTail ==
  ASSUME IndInv, consumer \in {"read", "advance"}
  PROVE  head # tail /\ Distance(head, tail) > 0
<1>1. head \in Slots /\ tail \in Slots /\ seenTail \in Slots /\ head # seenTail
  BY DEF IndInv, TypeOK, ChecksHold
<1>2. Distance(head, seenTail) > 0
  BY <1>1, StepBehind
<1>3. Distance(head, seenTail) \in Nat /\ Distance(seenTail, tail) \in Nat
  BY <1>1, DistanceIs DEF Slots
<1>4. Distance(head, tail) > 0
  BY <1>2, <1>3 DEF IndInv, IndicesOrdered
<1> QED
  BY <1>1, <1>4, StepBehind

(* The inductive invariant holds in every behaviour of the two threads, for
   every ring size of at least two and every set of values. *)
THEOREM Safety == Spec => []IndInv
<1> QED
  BY InitOK, NextPreserves, PTL DEF Spec

(* The ring's members and both threads' locals keep their types: in particular
   head_ and tail_ always index a slot. *)
THEOREM TypeCorrect == Spec => []TypeOK
<1>1. IndInv => TypeOK
  BY DEF IndInv
<1> QED
  BY <1>1, Safety, PTL

(* Whatever stale indices the acquire loads return, no view is ahead of the
   index it lags behind, nor a lap behind it. *)
THEOREM AlwaysOrdered == Spec => []IndicesOrdered
<1>1. IndInv => IndicesOrdered
  BY DEF IndInv
<1> QED
  BY <1>1, Safety, PTL

(* try_push never copies into the slot try_pop is copying from, nor into one it
   has not seen released. *)
THEOREM NeverRaces == Spec => []NoDataRace
<1>1. IndInv => NoDataRace
  BY HeadNotTail DEF IndInv, ChecksHold, NoDataRace
<1> QED
  BY <1>1, Safety, PTL

-----------------------------------------------------------------------------
(* The ring's contents as a sequence. *)
LEMMA RingIndex ==
  ASSUME NEW a \in Slots, NEW k \in Slots
  PROVE  /\ (a + k) % Size = IF a + k < Size THEN a + k ELSE a + k - Size
         /\ (a + k) % Size \in Slots
         /\ Distance(a, (a + k) % Size) = k
<1>1. /\ Size \in Nat \ {0} /\ a \in Int /\ k \in Int
      /\ 0 <= a /\ a < Size /\ 0 <= k /\ k < Size
  BY QueueAssumption DEF Slots
<1>2. PICK x \in Int : x = a + k /\ 0 <= x /\ x < 2 * Size
  BY <1>1
<1>3. (x < Size => x % Size = x) /\ (Size <= x => x % Size = x - Size)
  BY <1>1, <1>2, Remainder
<1>4. PICK y \in Int : y = x % Size /\ y = IF x < Size THEN x ELSE x - Size
  <2>1. x % Size = IF x < Size THEN x ELSE x - Size
    BY <1>1, <1>2, <1>3
  <2>2. x % Size \in Int
    BY <1>1, <1>2, <2>1
  <2> QED
    BY <2>1, <2>2, Zenon
<1>5. y \in Slots
  BY <1>1, <1>2, <1>4 DEF Slots
<1>6. Distance(a, y) = k
  <2>1. Gap(a, y) = k
    BY <1>1, <1>2, <1>4 DEF Gap
  <2> QED
    BY <1>5, <2>1, DistanceIs
<1>7. (a + k) % Size = y
  BY <1>1, <1>2, <1>4
<1> QED
  BY <1>1, <1>2, <1>4, <1>5, <1>6, <1>7

Buffers == [Slots -> Values \cup {NoValue}]

(* The values of a buffer from one index up to another, as in Contents. *)
Ring(b, h, t) == [k \in 1 .. Distance(h, t) |-> b[(h + k - 1) % Size]]

LEMMA RingIs ==
  ASSUME NEW b \in Buffers, NEW h \in Slots, NEW t \in Slots
  PROVE  /\ Distance(h, t) \in Nat /\ Distance(h, t) < Size
         /\ Ring(b, h, t) \in Seq(Values \cup {NoValue})
         /\ Len(Ring(b, h, t)) = Distance(h, t)
         /\ \A k \in 1 .. Distance(h, t) :
              /\ (h + k - 1) % Size \in Slots
              /\ Ring(b, h, t)[k] = b[(h + k - 1) % Size]
              /\ Distance(h, (h + k - 1) % Size) = k - 1
<1>1. Distance(h, t) \in Nat /\ Distance(h, t) < Size
  BY DistanceIs, QueueAssumption DEF Slots
<1>2. ASSUME NEW k \in 1 .. Distance(h, t)
      PROVE  /\ (h + k - 1) % Size \in Slots
             /\ Distance(h, (h + k - 1) % Size) = k - 1
  <2>1. k - 1 \in Slots /\ h + (k - 1) = h + k - 1
    BY <1>1, QueueAssumption DEF Slots
  <2>2. /\ (h + (k - 1)) % Size \in Slots
        /\ Distance(h, (h + (k - 1)) % Size) = k - 1
    BY <2>1, RingIndex
  <2> QED
    BY <2>1, <2>2
<1>3. \A k \in 1 .. Distance(h, t) :
        Ring(b, h, t)[k] = b[(h + k - 1) % Size] /\ Ring(b, h, t)[k] \in Values \cup {NoValue}
  BY <1>2 DEF Ring, Buffers
<1>4. Ring(b, h, t) \in [1 .. Distance(h, t) -> Values \cup {NoValue}]
  BY <1>3 DEF Ring
<1>5. Ring(b, h, t) \in Seq(Values \cup {NoValue}) /\ Len(Ring(b, h, t)) = Distance(h, t)
  BY <1>1, <1>4
<1> QED
  BY <1>1, <1>2, <1>3, <1>5

(* One more value at the end, and one less at the beginning. *)
LEMMA RingAppend ==
  ASSUME NEW b \in Buffers, NEW h \in Slots, NEW t \in Slots,
         Distance(h, t) < Size - 1
  PROVE  Ring(b, h, After(t)) = Append(Ring(b, h, t), b[t])
<1> DEFINE n == Distance(h, t)
<1>1. n \in Nat /\ After(t) \in Slots /\ Distance(h, After(t)) = n + 1
  BY RingIs, AfterIs, StepAhead
<1>2. (h + (n + 1) - 1) % Size = t
  <2>1. n \in Slots /\ n = Gap(h, t)
    BY DistanceIs
  <2>2. (h + n) % Size = IF h + n < Size THEN h + n ELSE h + n - Size
    BY <2>1, RingIndex
  <2>3. (h + n) % Size = t
    BY <2>1, <2>2, QueueAssumption DEF Gap, Slots
  <2>4. h + (n + 1) - 1 = h + n
    BY <1>1 DEF Slots
  <2> QED
    BY <2>3, <2>4
<1>3. /\ Ring(b, h, t) \in Seq(Values \cup {NoValue}) /\ Len(Ring(b, h, t)) = n
      /\ \A k \in 1 .. n : Ring(b, h, t)[k] = b[(h + k - 1) % Size]
  BY RingIs
<1>4. /\ Ring(b, h, After(t)) \in Seq(Values \cup {NoValue}) /\ Len(Ring(b, h, After(t))) = n + 1
      /\ \A k \in 1 .. n + 1 : Ring(b, h, After(t))[k] = b[(h + k - 1) % Size]
  BY <1>1, RingIs, SMTT(30)
<1> HIDE DEF n
<1>5. Ring(b, h, After(t))[n + 1] = b[t] /\ b[t] \in Values \cup {NoValue}
  BY <1>1, <1>2, <1>4 DEF Buffers
<1>6. \A k \in 1 .. n : Ring(b, h, After(t))[k] = Ring(b, h, t)[k]
  BY <1>1, <1>3, <1>4
<1> QED
  BY <1>1, <1>3, <1>4, <1>5, <1>6

LEMMA RingTail ==
  ASSUME NEW b \in Buffers, NEW h \in Slots, NEW t \in Slots, h # t
  PROVE  /\ Ring(b, h, t) # <<>>
         /\ Head(Ring(b, h, t)) = b[h]
         /\ Ring(b, After(h), t) = Tail(Ring(b, h, t))
<1> DEFINE n == Distance(h, t)
<1>1. /\ n \in Nat /\ n < Size /\ n > 0
      /\ After(h) \in Slots /\ Distance(After(h), t) = n - 1
  BY RingIs, AfterIs, StepBehind
<1>2. /\ Ring(b, h, t) \in Seq(Values \cup {NoValue}) /\ Len(Ring(b, h, t)) = n
      /\ \A k \in 1 .. n : Ring(b, h, t)[k] = b[(h + k - 1) % Size]
  BY RingIs
<1>3. /\ Ring(b, After(h), t) \in Seq(Values \cup {NoValue}) /\ Len(Ring(b, After(h), t)) = n - 1
      /\ \A k \in 1 .. n - 1 : Ring(b, After(h), t)[k] = b[(After(h) + k - 1) % Size]
  BY <1>1, RingIs, SMTT(30)
<1> HIDE DEF n
<1>4. ASSUME NEW k \in 1 .. n - 1
      PROVE  (After(h) + k - 1) % Size = (h + (k + 1) - 1) % Size
  <2>1. /\ k \in Slots /\ k - 1 \in Slots /\ After(h) + (k - 1) = After(h) + k - 1
        /\ h + (k + 1) - 1 = h + k
    BY <1>1, QueueAssumption DEF Slots
  <2>2. /\ (After(h) + (k - 1)) % Size =
             IF After(h) + (k - 1) < Size THEN After(h) + (k - 1) ELSE After(h) + (k - 1) - Size
        /\ (h + k) % Size = IF h + k < Size THEN h + k ELSE h + k - Size
    BY <1>1, <2>1, RingIndex
  <2>3. After(h) = IF h = Size - 1 THEN 0 ELSE h + 1
    BY AfterIs
  <2>4. (After(h) + (k - 1)) % Size = (h + k) % Size
    BY <2>1, <2>2, <2>3, QueueAssumption DEF Slots
  <2> QED
    BY <2>1, <2>4
<1>5. Ring(b, h, t)[1] = b[h]
  <2>1. 0 \in Slots /\ h \in Int /\ h < Size /\ h + 0 = h /\ h + 1 - 1 = h
    BY QueueAssumption DEF Slots
  <2>2. (h + 0) % Size = IF h + 0 < Size THEN h + 0 ELSE h + 0 - Size
    BY <2>1, RingIndex
  <2>3. (h + 1 - 1) % Size = h
    BY <2>1, <2>2
  <2> QED
    BY <1>1, <1>2, <2>3
<1>6. \A k \in 1 .. n - 1 : Ring(b, After(h), t)[k] = Ring(b, h, t)[k + 1]
  BY <1>1, <1>2, <1>3, <1>4, SMTT(30)
<1> QED
  BY <1>1, <1>2, <1>3, <1>5, <1>6, SMTT(30)

-----------------------------------------------------------------------------
LEMMA CopiesInit == Init => CopiesHold
  BY DEF Init, CopiesHold

(* The producer's write reaches no slot between head and tail. *)
LEMMA CopiesPreserved == IndInv /\ CopiesHold /\ [Next]_vars => CopiesHold'
<1> SUFFICES ASSUME IndInv, CopiesHold, [Next]_vars PROVE CopiesHold'
  OBVIOUS
<1> USE DEF CopiesHold
<1>1. ASSUME NEW v \in Values, TryPush(v) PROVE CopiesHold'
  BY <1>1, QueueAssumption DEF TryPush, consumerVars
<1>2. ASSUME NEW seen \in Slots, LoadHead(seen) PROVE CopiesHold'
  BY <1>2 DEF LoadHead, consumerVars
<1>3. ASSUME WriteSlot PROVE CopiesHold'
  <2>1. /\ buffer' = [buffer EXCEPT ![tail] = offered]
        /\ tail \in Slots /\ buffer \in [Slots -> Values \cup {NoValue}]
    BY <1>3 DEF WriteSlot, IndInv, TypeOK
  <2>2. buffer'[tail] = offered
    BY <2>1
  <2>3. consumer = "advance" => buffer'[head] = buffer[head]
    BY <2>1, HeadNotTail DEF IndInv, TypeOK
  <2> QED
    BY <1>3, <2>2, <2>3 DEF WriteSlot, consumerVars
<1>4. ASSUME StoreTail PROVE CopiesHold'
  BY <1>4 DEF StoreTail, consumerVars
<1>5. ASSUME NEW seen \in Slots, LoadTail(seen) PROVE CopiesHold'
  BY <1>5 DEF LoadTail, producerVars
<1>6. ASSUME ReadSlot PROVE CopiesHold'
  BY <1>6 DEF ReadSlot, producerVars
<1>7. ASSUME StoreHead PROVE CopiesHold'
  BY <1>7 DEF StoreHead, producerVars
<1>8. ASSUME UNCHANGED vars PROVE CopiesHold'
  BY <1>8 DEF vars, producerVars, consumerVars
<1> QED
  BY <1>1, <1>2, <1>3, <1>4, <1>5, <1>6, <1>7, <1>8 DEF Next, Produce, Consume

LEMMA ContentsAre == Contents = Ring(buffer, head, tail)
  BY DEF Contents, Ring

LEMMA ContentsInit == Init => Fifo!Init
<1> SUFFICES ASSUME Init PROVE Fifo!Init
  OBVIOUS
<1>1. /\ buffer \in Buffers /\ head \in Slots /\ tail \in Slots
      /\ head = tail
  BY InitOK DEF IndInv, TypeOK, Init, Buffers
<1>2. Distance(head, tail) = 0
  BY <1>1, StepBehind
<1>3. Ring(buffer, head, tail) \in Seq(Values \cup {NoValue}) /\ Len(Ring(buffer, head, tail)) = 0
  BY <1>1, <1>2, RingIs
<1>4. Contents = <<>>
  BY <1>3, ContentsAre
<1> QED
  BY <1>4 DEF Init, Fifo!Init

(* Writing the vacant slot changes nothing a consumer can pop. *)
LEMMA WriteHidden ==
  ASSUME IndInv, WriteSlot
  PROVE  Contents' = Contents
<1>1. /\ buffer' = [buffer EXCEPT ![tail] = offered] /\ head' = head /\ tail' = tail
      /\ head \in Slots /\ tail \in Slots /\ buffer \in Buffers /\ buffer \in [Slots -> Values \cup {NoValue}]
  BY DEF WriteSlot, IndInv, TypeOK, Buffers
<1>2. Distance(head, tail)' = Distance(head, tail)
  BY <1>1 DEF Distance
<1>3. ASSUME NEW k \in 1 .. Distance(head, tail)
      PROVE  buffer'[(head + k - 1) % Size] = buffer[(head + k - 1) % Size]
  <2>1. /\ (head + k - 1) % Size \in Slots
        /\ Distance(head, (head + k - 1) % Size) = k - 1
        /\ Distance(head, tail) \in Nat
    BY <1>1, RingIs
  <2>2. (head + k - 1) % Size # tail
    BY <2>1
  <2> QED
    BY <1>1, <2>1, <2>2
<1> QED
  BY <1>1, <1>2, <1>3 DEF Contents

(* Storing the tail appends the value just copied. *)
LEMMA StoreTailPushes ==
  ASSUME IndInv, CopiesHold, StoreTail
  PROVE  Fifo!Push
<1>1. /\ buffer \in Buffers /\ head \in Slots /\ tail \in Slots
      /\ buffer[tail] = offered /\ offered # NoValue
      /\ buffer' = buffer /\ head' = head /\ tail' = After(tail)
      /\ offered' = NoValue /\ popped' = popped
  BY DEF StoreTail, IndInv, TypeOK, CopiesHold, consumerVars, Buffers
<1>2. Distance(head, tail) < Size - 1
  <2>1. /\ Distance(seenHead, head) \in Nat /\ Distance(head, tail) \in Nat
        /\ Distance(seenHead, tail) \in Nat
    BY DistanceIs DEF IndInv, TypeOK, Slots
  <2> QED
    BY <2>1, QueueAssumption DEF StoreTail, IndInv, ChecksHold, IndicesOrdered
<1>3. Contents' = Ring(buffer, head, After(tail))
  BY <1>1 DEF Contents, Ring, Distance
<1>4. Len(Contents) = Distance(head, tail)
  BY <1>1, RingIs, ContentsAre
<1>5. Contents' = Append(Contents, offered)
  BY <1>1, <1>2, <1>3, RingAppend, ContentsAre
<1> QED
  BY <1>1, <1>2, <1>4, <1>5 DEF Fifo!Push

(* Storing the head hands out the oldest value. *)
LEMMA StoreHeadPops ==
  ASSUME IndInv, CopiesHold, StoreHead
  PROVE  Fifo!Pop
<1>1. /\ buffer \in Buffers /\ head \in Slots /\ tail \in Slots
      /\ popped' = buffer[head]
      /\ buffer' = buffer /\ head' = After(head) /\ tail' = tail
      /\ offered' = offered /\ consumer = "advance"
  BY DEF StoreHead, IndInv, TypeOK, CopiesHold, producerVars, Buffers
<1>2. head # tail
  BY <1>1, HeadNotTail
<1>3. Contents' = Ring(buffer, After(head), tail)
  BY <1>1 DEF Contents, Ring, Distance
<1>4. Contents # <<>> /\ Head(Contents) = buffer[head] /\ Contents' = Tail(Contents)
  BY <1>1, <1>2, <1>3, RingTail, ContentsAre
<1> QED
  BY <1>1, <1>4 DEF Fifo!Pop

(* Every step of a thread is a step of the FIFO or leaves it alone. *)
LEMMA StepsImplement ==
  IndInv /\ CopiesHold /\ [Next]_vars => [Fifo!Next]_<<Contents, offered, popped>>
<1> SUFFICES ASSUME IndInv, CopiesHold, [Next]_vars
             PROVE  Fifo!Next \/ UNCHANGED <<Contents, offered, popped>>
  OBVIOUS
<1>1. UNCHANGED <<buffer, head, tail>> => Contents' = Contents
  BY DEF Contents, Distance
<1>2. ASSUME NEW v \in Values, TryPush(v) PROVE Fifo!Offer(v)
  BY <1>1, <1>2 DEF TryPush, CopiesHold, consumerVars, Fifo!Offer
<1>3. ASSUME NEW seen \in Slots, LoadHead(seen)
      PROVE  Fifo!Refuse \/ UNCHANGED <<Contents, offered, popped>>
  BY <1>1, <1>3 DEF LoadHead, CopiesHold, consumerVars, Fifo!Refuse
<1>4. ASSUME WriteSlot PROVE UNCHANGED <<Contents, offered, popped>>
  BY <1>4, WriteHidden DEF WriteSlot, consumerVars
<1>5. ASSUME NEW seen \in Slots, LoadTail(seen) PROVE UNCHANGED <<Contents, offered, popped>>
  BY <1>1, <1>5 DEF LoadTail, producerVars
<1>6. ASSUME ReadSlot PROVE UNCHANGED <<Contents, offered, popped>>
  BY <1>1, <1>6 DEF ReadSlot, producerVars
<1>7. ASSUME UNCHANGED vars PROVE UNCHANGED <<Contents, offered, popped>>
  BY <1>1, <1>7 DEF vars, producerVars, consumerVars
<1> QED
  BY <1>2, <1>3, <1>4, <1>5, <1>6, <1>7, StoreTailPushes, StoreHeadPops
     DEF Next, Produce, Consume, Fifo!Next

(* The ring implements the bounded FIFO: try_push and try_pop lose, duplicate
   and reorder nothing, for every ring size and set of values. *)
THEOREM Refinement == Spec => ImplementsFifo
<1>1. Spec => []CopiesHold
  BY CopiesInit, CopiesPreserved, Safety, PTL DEF Spec
<1>2. Init => Fifo!Init
  BY ContentsInit
<1>3. IndInv /\ CopiesHold /\ [Next]_vars => [Fifo!Next]_(Fifo!fifoVars)
  BY StepsImplement DEF Fifo!fifoVars
<1> QED
  BY <1>1, <1>2, <1>3, Safety, PTL DEF Spec, ImplementsFifo, Fifo!Spec

==============================================================================
