---------------------------- MODULE EngineRunner ----------------------------
(***************************************************************************)
(* The single-writer event loop: EngineRunner::run, whose commands arrive  *)
(* with their engine sequence, and GatewayEngineRunner::run, which assigns *)
(* it.  The loop takes a command from the input queue, appends it to the   *)
(* journal, lets the book process it and pushes its events, waiting for    *)
(* room, while another thread fills the input, empties the output and may  *)
(* set the stop flag at any moment.                                        *)
(*                                                                         *)
(* The queues are the bounded FIFOs that SpscQueue implements.  The book   *)
(* is reduced to its sequence check and the commands it has applied, which *)
(* determine the rest of it; how many events a command yields is left      *)
(* open.                                                                   *)
(***************************************************************************)
EXTENDS Integers, Sequences

CONSTANTS
  InputCapacity, OutputCapacity,  \* usable slots of the two rings
  AssignsSequences,   \* TRUE for GatewayEngineRunner
  JournalModes,       \* of "none", "buffered" and "synchronous", the ones considered
  MaxCommands,        \* bound on the commands submitted
  MaxEvents           \* bound on the events of one command

ASSUME RunnerAssumption ==
  /\ InputCapacity \in Nat \ {0} /\ OutputCapacity \in Nat \ {0}
  /\ AssignsSequences \in BOOLEAN
  /\ JournalModes \subseteq {"none", "buffered", "synchronous"}
  /\ MaxCommands \in Nat \ {0} /\ MaxEvents \in Nat \ {0}

VARIABLES
  pc,            \* where run() is
  input, output, \* the queues
  stop,          \* the stop flag
  current,       \* the command taken from the input
  pending,       \* the events of current not yet pushed
  nextSequence,  \* next_engine_sequence_
  lastSequence,  \* the book's last accepted sequence
  applied,       \* the commands the book has accepted
  journal,       \* no journal, one whose appends are buffered or synchronous, or a
                 \* synchronous one of which a flush "failed" in some process
  stream, file,  \* journal records in the stream's buffer, and written out
  sent,          \* how many commands were submitted
  emitted,       \* every event the book has produced, in order
  delivered      \* every event the consumer has received, in order

engineVars == <<current, pending, nextSequence, lastSequence, applied, emitted>>
journalVars == <<journal, stream, file>>
vars == <<pc, input, output, stop, engineVars, journalVars, sent, delivered>>

(* n distinguishes the commands; sequence is the engine sequence. *)
Command == [n: 1 .. MaxCommands, sequence: 0 .. MaxCommands + 1]
NoCommand == [n |-> 0, sequence |-> 0]

(* What an interrupted write leaves of a journal record: its checksum, or its
   length, is wrong. *)
Torn == [n |-> 0, sequence |-> 0]

Init ==
  /\ pc = "poll"
  /\ input = <<>> /\ output = <<>> /\ stop = FALSE
  /\ current = NoCommand /\ pending = <<>>
  /\ nextSequence = 1 /\ lastSequence = 0 /\ applied = <<>>
  /\ journal \in JournalModes /\ stream = <<>> /\ file = <<>>
  /\ sent = 0 /\ emitted = <<>> /\ delivered = <<>>

-----------------------------------------------------------------------------
(* while (!stop) if (input_.try_pop(command)) *)
TakeCommand ==
  /\ pc = "poll"
  /\ ~stop
  /\ input # <<>>
  /\ current' = IF AssignsSequences THEN [Head(input) EXCEPT !.sequence = nextSequence]
                ELSE Head(input)
  /\ nextSequence' = IF AssignsSequences THEN nextSequence + 1 ELSE nextSequence
  /\ input' = Tail(input)
  /\ pc' = IF journal = "none" THEN "process" ELSE "append"
  /\ UNCHANGED <<output, stop, pending, lastSequence, applied, journalVars, sent, emitted, delivered>>

(* A flush failed in this process: the stream refuses everything from then on. *)
BadStream == journal = "failed" /\ stream # <<>>

(* JournalWriter::append: into the stream's buffer, flushed if synchronous.  The
   result of that flush is not looked at: the loop goes on when it fails. *)
AppendJournal ==
  /\ pc = "append"
  /\ ~BadStream
  /\ \/ /\ journal = "buffered"
        /\ stream' = Append(stream, current)
        /\ UNCHANGED <<journal, file>>
     \/ /\ journal # "buffered"
        /\ file' = file \o Append(stream, current)
        /\ stream' = <<>>
        /\ UNCHANGED journal
     \/ /\ journal # "buffered"
        /\ stream' = Append(stream, current)
        /\ journal' = "failed"
        /\ UNCHANGED file
  /\ pc' = "process"
  /\ UNCHANGED <<input, output, stop, engineVars, sent, delivered>>

(* The next append, or the flush after the loop, does look, and throws out of
   the engine's thread: the process is about to end, which Recovery's Crash is. *)
JournalThrows ==
  /\ BadStream
  /\ pc = "append" \/ (pc = "poll" /\ stop)
  /\ pc' = "terminated"
  /\ UNCHANGED <<input, output, stop, engineVars, journalVars, sent, delivered>>

(* book_.process: a sequence gap yields one rejection and changes nothing. *)
ProcessCommand(count) ==
  LET gap == current.sequence # lastSequence + 1
      events == [k \in 1 .. IF gap THEN 1 ELSE count |-> [command |-> current, k |-> k]] IN
  /\ pc = "process"
  /\ pending' = events
  /\ emitted' = emitted \o events
  /\ lastSequence' = IF gap THEN lastSequence ELSE current.sequence
  /\ applied' = IF gap THEN applied ELSE Append(applied, current)
  /\ pc' = "publish"
  /\ UNCHANGED <<input, output, stop, current, nextSequence, journalVars, sent, delivered>>

(* Mutant: the result of try_push is ignored. *)
LossyPushEvent ==
  /\ pc = "publish"
  /\ pending # <<>>
  /\ output' = IF Len(output) < OutputCapacity THEN Append(output, Head(pending)) ELSE output
  /\ pending' = Tail(pending)
  /\ UNCHANGED <<pc, input, stop, current, nextSequence, lastSequence, applied,
                 journalVars, sent, emitted, delivered>>

(* Mutant: the last slot is never used. *)
ShyPushEvent ==
  /\ pc = "publish"
  /\ pending # <<>>
  /\ Len(output) < OutputCapacity - 1
  /\ output' = Append(output, Head(pending))
  /\ pending' = Tail(pending)
  /\ UNCHANGED <<pc, input, stop, current, nextSequence, lastSequence, applied,
                 journalVars, sent, emitted, delivered>>

(* output_.try_push(event) *)
PushEvent ==
  /\ pc = "publish"
  /\ pending # <<>>
  /\ Len(output) < OutputCapacity
  /\ output' = Append(output, Head(pending))
  /\ pending' = Tail(pending)
  /\ UNCHANGED <<pc, input, stop, current, nextSequence, lastSequence, applied,
                 journalVars, sent, emitted, delivered>>

(* Mutant: the waiting loop does not look at the stop flag. *)
FaultyAbandonPublish == FALSE

(* The output is full and the stop flag is up: run() returns, here and now. *)
AbandonPublish ==
  /\ pc = "publish"
  /\ pending # <<>>
  /\ Len(output) = OutputCapacity
  /\ stop
  /\ pc' = "returned"
  /\ UNCHANGED <<input, output, stop, engineVars, journalVars, sent, delivered>>

Published ==
  /\ pc = "publish"
  /\ pending = <<>>
  /\ pc' = "poll"
  /\ UNCHANGED <<input, output, stop, engineVars, journalVars, sent, delivered>>

(* The loop ends; the journal is flushed. *)
StopRunning ==
  /\ pc = "poll"
  /\ stop
  /\ ~BadStream
  /\ file' = file \o stream
  /\ stream' = <<>>
  /\ pc' = "returned"
  /\ UNCHANGED <<journal, input, output, stop, engineVars, sent, delivered>>

Engine ==
  \/ TakeCommand \/ AppendJournal \/ JournalThrows \/ (\E count \in 1 .. MaxEvents : ProcessCommand(count))
  \/ PushEvent \/ AbandonPublish \/ Published \/ StopRunning

-----------------------------------------------------------------------------
(* The thread on the other side of the queues. *)
SubmitCommand(sequence) ==
  /\ sent < MaxCommands
  /\ Len(input) < InputCapacity
  /\ input' = Append(input, [n |-> sent + 1, sequence |-> sequence])
  /\ sent' = sent + 1
  /\ UNCHANGED <<pc, output, stop, engineVars, journalVars, delivered>>

ConsumeEvent ==
  /\ output # <<>>
  /\ delivered' = Append(delivered, Head(output))
  /\ output' = Tail(output)
  /\ UNCHANGED <<pc, input, stop, engineVars, journalVars, sent>>

SetStop ==
  /\ ~stop
  /\ stop' = TRUE
  /\ UNCHANGED <<pc, input, output, engineVars, journalVars, sent, delivered>>

(* Clients of EngineRunner number their commands, not always without gaps; a
   command for GatewayEngineRunner arrives without an engine sequence. *)
Sequences(n) == IF AssignsSequences THEN {0} ELSE {n - 1, n, n + 1}

Next ==
  \/ Engine
  \/ \E sequence \in Sequences(sent + 1) : SubmitCommand(sequence)
  \/ ConsumeEvent
  \/ SetStop

(* The engine has a thread of its own; nothing is assumed of the others. *)
Spec == Init /\ [][Next]_vars /\ WF_vars(Engine)

-----------------------------------------------------------------------------
Event == [command: Command, k: 1 .. MaxEvents]

TypeOK ==
  /\ pc \in {"poll", "append", "process", "publish", "returned", "terminated"}
  /\ input \in Seq(Command) /\ output \in Seq(Event) /\ stop \in BOOLEAN
  /\ current \in Command \cup {NoCommand} /\ pending \in Seq(Event)
  /\ nextSequence \in Nat /\ lastSequence \in Nat /\ applied \in Seq(Command)
  /\ journal \in JournalModes \cup {"failed"}
  /\ stream \in Seq(Command) /\ file \in Seq(Command \cup {Torn})
  /\ sent \in 0 .. MaxCommands /\ emitted \in Seq(Event) /\ delivered \in Seq(Event)

(* Until run() returns, the consumer receives exactly the book's events, in
   order: what it has, what is queued and what is still to be pushed add up,
   however often the output was full in between. *)
EventsInOrder == emitted = delivered \o output \o pending

(* GatewayEngineRunner numbers the commands so that the book never sees a gap:
   every command taken and processed is applied. *)
NoGaps ==
  AssignsSequences /\ pc \in {"poll", "publish", "returned"} =>
    lastSequence = nextSequence - 1 /\ Len(applied) = lastSequence
==============================================================================
