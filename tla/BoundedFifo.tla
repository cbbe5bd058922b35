----------------------------- MODULE BoundedFifo -----------------------------
(***************************************************************************)
(* What SpscQueue promises its two users: a FIFO of bounded capacity.  A   *)
(* push that succeeds appends the offered value, a pop that succeeds hands *)
(* out the oldest one; both take effect at one point of the call.          *)
(***************************************************************************)
EXTENDS Naturals, Sequences

CONSTANTS Capacity, Values, NoValue

VARIABLES
  queue,    \* the values pushed and not yet popped, oldest first
  offered,  \* the argument of the try_push in progress, or NoValue
  popped    \* what the last successful try_pop returned, or NoValue

fifoVars == <<queue, offered, popped>>

Init == queue = <<>> /\ offered = NoValue /\ popped = NoValue

Offer(v) == offered = NoValue /\ offered' = v /\ UNCHANGED <<queue, popped>>

Push ==
  /\ offered # NoValue
  /\ Len(queue) < Capacity
  /\ queue' = Append(queue, offered)
  /\ offered' = NoValue
  /\ UNCHANGED popped

(* A push may be refused when the queue looks full to the producer. *)
Refuse ==
  /\ offered # NoValue
  /\ offered' = NoValue
  /\ UNCHANGED <<queue, popped>>

Pop ==
  /\ queue # <<>>
  /\ popped' = Head(queue)
  /\ queue' = Tail(queue)
  /\ UNCHANGED offered

Next == (\E v \in Values : Offer(v)) \/ Push \/ Refuse \/ Pop

Spec == Init /\ [][Next]_fifoVars
==============================================================================
