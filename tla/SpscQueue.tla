------------------------------ MODULE SpscQueue ------------------------------
(***************************************************************************)
(* SpscQueue<T>: a ring of a power-of-two number of slots with one of them *)
(* left vacant, written by one producer thread and read by one consumer    *)
(* thread.  Each atomic access and each copy of a value is a step of its   *)
(* own.                                                                    *)
(*                                                                         *)
(* An acquire load of the other thread's index may return any value of its *)
(* modification order that is not older than the one this thread has seen: *)
(* seenHead and seenTail lag behind head and tail.  Having seen an index,  *)
(* a thread sees the slot accesses that preceded its release store.        *)
(***************************************************************************)
EXTENDS Integers, Sequences

CONSTANTS
  Size,     \* buffer_.size(), a power of two, so that & mask_ is % Size
  Values,   \* the values pushed
  NoValue

ASSUME QueueAssumption == Size \in Nat \ {0, 1} /\ NoValue \notin Values

VARIABLES
  buffer, head, tail,            \* the members
  seenHead, offered, producer,   \* the producer's view, argument and position
  seenTail, value, consumer,     \* the consumer's view, copy and position
  popped                         \* what the last successful try_pop returned

producerVars == <<seenHead, offered, producer>>
consumerVars == <<seenTail, value, consumer, popped>>
vars == <<buffer, head, tail, producerVars, consumerVars>>

Slots == 0 .. Size - 1

(* Mutant: the mask is forgotten. *)
FaultyAfter(slot) == slot + 1

After(slot) == (slot + 1) % Size

(* How many slots lie from one index up to, but not including, another. *)
Distance(from, to) == (to - from) % Size

(* What a load of an index may return to a thread that last saw `seen`. *)
Observable(seen, actual) == {(seen + k) % Size : k \in 0 .. Distance(seen, actual)}

Init ==
  /\ buffer = [s \in Slots |-> NoValue]
  /\ head = 0 /\ tail = 0
  /\ seenHead = 0 /\ offered = NoValue /\ producer = "idle"
  /\ seenTail = 0 /\ value = NoValue /\ consumer = "idle"
  /\ popped = NoValue

-----------------------------------------------------------------------------
TryPush(v) ==
  /\ producer = "idle"
  /\ producer' = "load"
  /\ offered' = v
  /\ UNCHANGED <<buffer, head, tail, seenHead, consumerVars>>

(* Mutant: the full ring is not recognised. *)
FaultyLooksFull(seen) == FALSE

LooksFull(seen) == After(tail) = seen

LoadHead(seen) ==
  /\ producer = "load"
  /\ seen \in Observable(seenHead, head)
  /\ seenHead' = seen
  /\ IF LooksFull(seen)
     THEN producer' = "idle" /\ offered' = NoValue
     ELSE producer' = "write" /\ UNCHANGED offered
  /\ UNCHANGED <<buffer, head, tail, consumerVars>>

(* Mutant: the slot is published before it is written. *)
FaultyWriteSlot ==
  /\ producer = "write"
  /\ tail' = After(tail)
  /\ producer' = "publish"
  /\ UNCHANGED <<buffer, head, seenHead, offered, consumerVars>>

WriteSlot ==
  /\ producer = "write"
  /\ buffer' = [buffer EXCEPT ![tail] = offered]
  /\ producer' = "publish"
  /\ UNCHANGED <<head, tail, seenHead, offered, consumerVars>>

StoreTail ==
  /\ producer = "publish"
  /\ tail' = After(tail)
  /\ producer' = "idle"
  /\ offered' = NoValue
  /\ UNCHANGED <<buffer, head, seenHead, consumerVars>>

-----------------------------------------------------------------------------
LoadTail(seen) ==
  /\ consumer = "idle"
  /\ seen \in Observable(seenTail, tail)
  /\ seenTail' = seen
  /\ consumer' = IF head = seen THEN "idle" ELSE "read"
  /\ UNCHANGED <<buffer, head, tail, producerVars, value, popped>>

ReadSlot ==
  /\ consumer = "read"
  /\ value' = buffer[head]
  /\ consumer' = "advance"
  /\ UNCHANGED <<buffer, head, tail, producerVars, seenTail, popped>>

(* Mutant: the consumer's index is not stored. *)
FaultyStoreHead ==
  /\ consumer = "advance"
  /\ popped' = value
  /\ value' = NoValue
  /\ consumer' = "idle"
  /\ UNCHANGED <<buffer, head, tail, producerVars, seenTail>>

StoreHead ==
  /\ consumer = "advance"
  /\ head' = After(head)
  /\ popped' = value
  /\ value' = NoValue
  /\ consumer' = "idle"
  /\ UNCHANGED <<buffer, tail, producerVars, seenTail>>

-----------------------------------------------------------------------------
Produce ==
  \/ \E v \in Values : TryPush(v)
  \/ \E seen \in Slots : LoadHead(seen)
  \/ WriteSlot
  \/ StoreTail

Consume ==
  \/ \E seen \in Slots : LoadTail(seen)
  \/ ReadSlot
  \/ StoreHead

Next == Produce \/ Consume

Spec == Init /\ [][Next]_vars

(* Both users poll in a loop (EngineRunner::run, the gateway's event loop), and
   a store to an atomic becomes visible to other threads in finite time. *)
Fairness ==
  /\ WF_vars(Produce) /\ SF_vars(LoadHead(head))
  /\ WF_vars(Consume) /\ SF_vars(LoadTail(tail))

FairSpec == Spec /\ Fairness

-----------------------------------------------------------------------------
TypeOK ==
  /\ buffer \in [Slots -> Values \cup {NoValue}]
  /\ head \in Slots /\ tail \in Slots /\ seenHead \in Slots /\ seenTail \in Slots
  /\ offered \in Values \cup {NoValue} /\ value \in Values \cup {NoValue}
  /\ popped \in Values \cup {NoValue}
  /\ producer \in {"idle", "load", "write", "publish"}
  /\ consumer \in {"idle", "read", "advance"}

(* The copies into and out of a slot are not atomic, so the producer must never
   be writing the slot the consumer is reading, nor may it write one before it
   has seen that the consumer is done with it. *)
NoDataRace ==
  producer = "write" =>
    /\ consumer = "read" => head # tail
    /\ Distance(seenHead, tail) < Size - 1

(* Neither thread's view of the other's index is ahead of it or a lap behind:
   the seen and the actual indices stay in ring order, whatever stale values the
   loads return.  Lost, the ring would read as empty when full. *)
IndicesOrdered ==
  /\ Distance(seenHead, head) + Distance(head, tail) = Distance(seenHead, tail)
  /\ Distance(head, seenTail) + Distance(seenTail, tail) = Distance(head, tail)

(* Elements keep flowing: a producer that keeps trying is not refused for ever,
   and a consumer that keeps polling is not told for ever that the ring is
   empty. *)
KeepsFlowing == []<>(producer = "publish") /\ []<>(consumer = "advance")

(* The values from head up to tail, the refinement mapping for queue. *)
Contents == [k \in 1 .. Distance(head, tail) |-> buffer[(head + k - 1) % Size]]

Fifo == INSTANCE BoundedFifo WITH Capacity <- Size - 1, queue <- Contents

(* The ring implements a FIFO of all slots but one: no value is lost,
   duplicated, reordered or overwritten before it is popped. *)
ImplementsFifo == Fifo!Spec

==============================================================================
