------------------------------ MODULE Recovery ------------------------------
(***************************************************************************)
(* The event loop of EngineRunner through crashes and restarts: the        *)
(* journal and the snapshot as files (JournalWriter, replay_journal,       *)
(* write_snapshot, read_snapshot), and the recovery procedure they are     *)
(* made for, which docs/DESIGN.md 10.3 leaves to the application.          *)
(*                                                                         *)
(* A process may end at any moment, by a crash or in good order.  What the *)
(* stream held by then has reached the file up to some byte: a prefix of   *)
(* its records is whole and the next one may be torn.  What the file       *)
(* received before is not lost: the crash is the process's, not the        *)
(* machine's.  The snapshot is reduced, like the book, to the commands     *)
(* applied.                                                                *)
(***************************************************************************)
EXTENDS EngineRunner, SequencesExt

CONSTANT MaxCrashes   \* bound on the processes that end

ASSUME RecoveryAssumption == MaxCrashes \in Nat

VARIABLES
  process,    \* "running", or where the application is outside run()
  header,     \* the journal's header: "absent", "torn" or "whole"
  snapshot,   \* the snapshot at its destination, or a value for none or a torn one
  told,       \* every applied command a client has had an event of, in any process
  crashes

disk == <<header, snapshot>>
recoveryVars == <<process, disk, told, crashes>>
allVars == <<vars, recoveryVars>>

EmptyBook == [last |-> 0, applied |-> <<>>]
NoSnapshot == [last |-> -1, applied |-> <<>>]
TornSnapshot == [last |-> -2, applied |-> <<>>]

RecoveryInit ==
  /\ Init
  /\ process = "open"
  /\ header = "absent" /\ snapshot = NoSnapshot
  /\ told = {} /\ crashes = 0

-----------------------------------------------------------------------------
(* JournalWriter's constructor: a new or empty file gets a header, another one
   must have a valid one. *)
OpenJournal ==
  /\ process = "open"
  /\ header # "torn"
  /\ header' = IF journal = "none" THEN header ELSE "whole"
  /\ process' = "running"
  /\ UNCHANGED <<vars, snapshot, told, crashes>>

(* A step inside the process; what it lets a client know is remembered. *)
InProcess ==
  /\ process = "running"
  /\ told' = told \cup ({delivered'[i].command : i \in DOMAIN delivered'} \cap ToSet(applied'))
  /\ UNCHANGED <<process, disk, crashes>>

(* Mutant: the snapshot is written where it is read. *)
FaultyBeginSnapshot ==
  /\ process = "running"
  /\ pc = "returned"
  /\ snapshot' = TornSnapshot
  /\ process' = "writing"
  /\ UNCHANGED <<vars, header, told, crashes>>

(* write_snapshot reads the book, which only its single writer may touch: run()
   has returned.  The temporary file, which nothing reads, is written first. *)
BeginSnapshot ==
  /\ process = "running"
  /\ pc = "returned"
  /\ process' = "writing"
  /\ UNCHANGED <<vars, disk, told, crashes>>

(* The complete temporary file replaces the destination at once. *)
ReplaceSnapshot ==
  /\ process = "writing"
  /\ snapshot' = [last |-> lastSequence, applied |-> applied]
  /\ process' = "saved"
  /\ UNCHANGED <<vars, header, told, crashes>>

(* The process ends: whole of the records not yet in the file have reached it,
   then perhaps a part of the next. *)
Unwritten == IF pc = "append" /\ ~BadStream THEN Append(stream, current) ELSE stream

Crash(whole, torn) ==
  /\ process # "down"
  /\ crashes < MaxCrashes
  /\ torn => whole < Len(Unwritten)
  /\ file' = file \o SubSeq(Unwritten, 1, whole) \o IF torn THEN <<Torn>> ELSE <<>>
  /\ header' \in IF process = "open" /\ header = "absent" /\ journal # "none"
                 THEN {"absent", "torn", "whole"} ELSE {header}
  /\ process' = "down"
  /\ crashes' = crashes + 1
  /\ UNCHANGED <<pc, input, output, stop, engineVars, journal, stream, sent, delivered, snapshot, told>>

-----------------------------------------------------------------------------
(* replay_journal stops at the first torn record. *)
ValidRecords(records) ==
  LET bad == {i \in DOMAIN records : records[i] = Torn} IN
  IF bad = {} THEN records ELSE SubSeq(records, 1, Min(bad) - 1)

(* Mutant: the length is counted before the record is checked. *)
FaultyValidBytes(records) == Min({Len(records), Len(ValidRecords(records)) + 1})

(* ReplayResult::valid_bytes, counted in records. *)
ValidBytes(records) == Len(ValidRecords(records))

(* A record through process()'s sequence check. *)
Processed(book, record) ==
  IF record.sequence = book.last + 1
  THEN [last |-> record.sequence, applied |-> Append(book.applied, record)]
  ELSE book

(* The book after the records whose sequence is greater than `after`. *)
Consumed(book, records, after) ==
  FoldLeft(LAMBDA b, record : IF record.sequence > after THEN Processed(b, record) ELSE b,
           book, records)

(* Mutant: the orders are restored, the sequence is not. *)
FaultyReadSnapshot == [last |-> 0, applied |-> snapshot.applied]

(* read_snapshot: the book that had applied these commands, with its sequence. *)
ReadSnapshot == [last |-> snapshot.last, applied |-> snapshot.applied]

(* dme_replay: the whole journal, into an empty book. *)
FullReplay(records) == Consumed(EmptyBook, ValidRecords(records), -1)

(* The book of the latest snapshot. *)
Base == IF snapshot = NoSnapshot THEN EmptyBook ELSE ReadSnapshot

(* docs/DESIGN.md 10.3: the latest snapshot, then the valid records with a
   higher sequence. *)
Recovered == Consumed(Base, ValidRecords(file), Base.last)

(* Mutant: the runner was constructed before the book was recovered. *)
EarlySequence(book) == 1

(* GatewayEngineRunner's constructor reads the sequence of its book. *)
FirstSequence(book) == book.last + 1

(* The application recovers the book, truncates the journal to its valid bytes
   and constructs the runner: its sequences go on from the book's. *)
Restart ==
  /\ process = "down"
  /\ header # "torn"
  /\ snapshot # TornSnapshot
  /\ lastSequence' = Recovered.last
  /\ applied' = Recovered.applied
  /\ nextSequence' = FirstSequence(Recovered)
  /\ file' = SubSeq(file, 1, ValidBytes(file))
  /\ stream' = <<>>
  /\ pc' = "poll" /\ input' = <<>> /\ output' = <<>> /\ stop' = FALSE
  /\ current' = NoCommand /\ pending' = <<>> /\ emitted' = <<>> /\ delivered' = <<>>
  /\ process' = "open"
  /\ UNCHANGED <<journal, sent, disk, told, crashes>>

RecoveryNext ==
  \/ Next /\ InProcess
  \/ OpenJournal
  \/ BeginSnapshot
  \/ ReplaceSnapshot
  \/ \E whole \in 0 .. Len(Unwritten), torn \in BOOLEAN : Crash(whole, torn)
  \/ Restart

(* The engine has a thread of its own; crashes and the other threads happen or
   do not. *)
RecoverySpec ==
  /\ RecoveryInit
  /\ [][RecoveryNext]_allVars
  /\ WF_allVars(Engine /\ InProcess)

-----------------------------------------------------------------------------
RecoveryTypeOK ==
  /\ TypeOK
  /\ process \in {"open", "running", "writing", "saved", "down"}
  /\ header \in {"absent", "torn", "whole"}
  /\ snapshot \in {NoSnapshot, TornSnapshot} \cup [last: 0 .. MaxCommands, applied: Seq(Command)]
  /\ told \subseteq Command /\ crashes \in 0 .. MaxCrashes

(* A recovered book is one the crashed process had: it has applied what that
   one had, less a tail, or the command that had been journalled and not yet
   processed besides.  No command comes back that was refused, none is applied
   twice and none is skipped. *)
RecoveredIsReal ==
  [][process = "down" /\ process' # "down" =>
       \/ IsPrefix(applied', applied)
       \/ applied' = Append(applied, current)]_allVars

(* With a synchronous journal no client has learnt of an effect that a crash
   undoes: whatever crashes lie between, the book goes on holding every applied
   command of which an event was delivered, at its sequence.  This holds until a
   flush fails: append does not look at its result, so the command is processed
   and its events go out although its record is still in the stream. *)
ToldIsDurable ==
  journal = "synchronous" =>
    \A command \in told :
      command.sequence <= Len(applied) /\ applied[command.sequence] = command

(* With a synchronous journal, until a flush fails, the two ways back give one
   book: the snapshot, at any moment readable, with the records after it, and a
   replay of the whole journal as dme_replay does.  Every variable keeps its
   type. *)
RoutesAgree ==
  /\ RecoveryTypeOK
  /\ journal = "synchronous" =>
       snapshot # TornSnapshot /\ Recovered = FullReplay(file)

(* The stop flag ends the loop even if the consumer has gone and the output
   stays full: join() on the engine's thread returns, unless the thread threw
   and took the process with it. *)
StopReturns == stop ~> pc \in {"returned", "terminated"} \/ process = "down"

(* Back-pressure resolves: with a consumer that keeps consuming, everything
   submitted reaches it unless the engine is stopped or crashes, or the journal
   has failed and the next command will end the process. *)
Drained == input = <<>> /\ output = <<>> /\ pc = "poll"
EverythingDelivered ==
  WF_allVars(ConsumeEvent /\ InProcess) => []<>(Drained \/ stop \/ BadStream \/ process # "running")
==============================================================================
