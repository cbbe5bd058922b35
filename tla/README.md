# A TLA+ model of the deterministic matching engine

The repository is a limit order book with a single-writer event loop: commands
arrive over a lock-free ring, are journalled, matched by price-time priority and
answered with events over a second ring; a TCP gateway and a binary protocol sit
in front, a journal and a snapshot file behind. This directory models the book,
its index, the ring, the event loop with its files through crashes and restarts,
the protocol and the gateway, checks them with TLC, and proves with TLAPS the
safety of the book's specification, of the book as it is built and of the index,
that the second implements the first, the safety of the event loop through crashes
and of the gateway, that its bytes arrive intact, and that the ring is a queue.

## Inventory

| Component | State | Operations | Talks to |
| --- | --- | --- | --- |
| Order book (`src/order_book.cpp`, `order_book.hpp`, `types.hpp`) | node arena and free stack, two ladders of price levels with intrusive FIFOs, two activity bitmaps, index, last sequence | `process` (new, cancel, replace), `resting_orders`, `restore` | called by the runners; calls the index |
| Reference book (`tests/test_differential.cpp`) | a list of resting orders | `process` | compared with the order book by the differential test |
| Order index (`fixed_hash.hpp`) | an open-addressing table | `insert`, `find`, `erase` with cluster repair | called by the book |
| SPSC queue (`spsc_queue.hpp`) | slots, two atomic indices | `try_push`, `try_pop` | one producer and one consumer thread |
| Engine runner (`engine_runner.hpp`) | the loop of the engine's thread | `run` | both queues, journal, book, stop flag |
| Gateway engine runner, session validator (`gateway.hpp`, `src/gateway.cpp`) | next engine sequence; per session, next client sequence and risk limits | `run`, `validate_and_advance` | the same, and the TCP gateway |
| Journal and snapshot (`journal.hpp`, `src/journal.cpp`) | an append-only file of checksummed records; a snapshot file | `append`, `flush`, `replay_journal`, `write_snapshot`, `read_snapshot` | runners; the book's `resting_orders` and `restore` |
| Wire protocol (`protocol.hpp`, `src/protocol.cpp`) | none | encoding and decoding of frames | TCP gateway |
| TCP gateway (`apps/gateway.cpp`) | connections, sessions, receive and transmit buffers | epoll loop | both queues of the engine |
| Replay tool, benchmark (`apps/`) | none of their own | command line | journal, book |

What is hard in this system:

* The book's five containers describe the same orders; `add_resting`,
  `remove_node` and the matching loop update all of them by hand, nodes are
  reused, and a slip shows only many commands later.
* Decisions are taken before the state they rest on changes: the capacity check
  and the fill-or-kill check run on admission, the matching loop then changes the
  book, and `add_resting` takes a node without checking. `replace` takes the old
  order out before it submits the new one.
* The ring is read and written by two threads without a lock.
* The event loop waits for room in its output, while the thread that makes room
  may be the one waiting for the loop to stop.
* A crash may fall between journal, book and publication, tear the last record,
  or interrupt a snapshot; recovery has two sources that must agree.
* TCP cuts frames up and runs them together; buffers are compacted by hand on
  both ways.

`PROJECT.json` lists these hazards line by line with the properties that watch
over them.

## Modules

`BookTypes` holds the commands, events and price arithmetic shared by the two
books.

`PriceTimeBook` is the abstract specification: resting orders are a set, and an
aggressor trades with the crossing order of best price, the oldest first. It is
the reference book of the differential test with the capacity rule of
`OrderBook::submit` added. A command is either one early-return step (`Reject`,
`Cancel`, a refusal by `Submit`) or an admission followed by one `Trade` step per
iteration of the matching loop and one of `Rest`, `DropRemainder` and `Filled`.
`command` and `remaining` are submit's argument and local, `events` the caller's
vector; `TakeEvents` is the caller publishing and clearing it. The engine is
single-threaded, so the steps of one command are not interleaved with another's,
but the invariants hold between its fills as well. `Deterministic` says that no two
resting orders have the same priority, the engine sequence, so that `Precedes`
leaves one order to trade with: the `\E` of `Trade` and of `Cancel` is no choice.

`OrderBook` is the book as it is built. `book` is one record of the containers:
`nodes`, `free`, `levels`, `bits`, `index`, `resting`. `AddResting` and
`RemoveNode` translate `add_resting` and `remove_node`; `BestIndex` scans the
bitmap words; `CanFullyFill` sums the levels' cached totals; quantities wrap
modulo `QMod`. `Recover` replaces the book by `restore` of its own
`resting_orders()`: the restart from a snapshot. The index is a map here; that
`FixedOrderIndex` is one is checked separately. The refinement mapping to
`PriceTimeBook` is the set of orders reached through the index.

`FixedOrderIndex` is the open-addressing table. The home slots are a variable
chosen in `Init`, as the hash is a bijective mix and some identifiers have any
given pattern; `Repair` is one iteration of the loop of `erase`. `live` is a
history variable: the map that callers were promised.

`SpscQueue` has one step per atomic access and per copy of a value. An acquire
load may return any value of the other thread's index from the one last seen to
the current one. `BoundedFifo` is what it promises: `try_push` and `try_pop` take
effect at one point each (`StoreTail` and `StoreHead`), and a push may be refused
when the queue only looks full.

`EngineRunner` is both event loops, told apart by `AssignsSequences`. Its queues
are the FIFOs that `SpscQueue` implements; the book is reduced to its sequence
check and the list of commands it applied, which determines its state, and a
command yields one or more events. `stream` is the journal stream's buffer, which
a crash may lose, `file` what has left the process. `append` does not look at the
result of its synchronous flush: `AppendJournal` may fail there, the command is
processed and published all the same, and only the next append or the flush after
the loop throws (`JournalThrows`), which ends the process. `journal` is then
"failed" for good and marks that a record was lost; `BadStream` is that stream
until the process ends. `emitted`, `delivered`, `sent` and `applied` are history
variables.

`Recovery` extends `EngineRunner` with the files and with what happens outside
`run`. `OpenJournal` is `JournalWriter`'s constructor, `BeginSnapshot` and
`ReplaceSnapshot` the two halves of `write_snapshot` (a snapshot is taken when
`run` has returned, as only the engine's thread may touch the book), `Restart` the
recovery procedure that `docs/DESIGN.md` 10.3 lays down over `read_snapshot` and
`replay_journal`: the application's part, which is not in the repository.
`Crash(whole, torn)` ends the process at any point: of the records that the
stream still holds, and of the one being appended, some have reached the file, and
the next may have reached it in part. How far the stream has written is decided
only then, since nothing looks at the file before. `Consumed` is `replay_journal`
with a consumer that hands the records beyond a sequence to `process`
(`Processed`); `Base` is the book the latest snapshot gives, or an empty one. An orderly exit is the case in
which all of it is written. A torn header, which `JournalWriter` and
`replay_journal` both refuse, ends the behaviour. After a crash the variables of
the process are kept until `Restart`, as history for `RecoveredIsReal`; `told`
remembers what clients have learnt in any process. The crash is the process's: the
documentation claims nothing for a loss of power.

`Protocol` has the encoders and decoders as operators, each with the offsets and
widths of the code, written separately as there; a word is written and read as
its two halves, which gives the bytes the code's loops give. Two things differ: a
byte holds `ByteBase` values, 14 when checked, since eight bytes of 256 do not fit
TLC's integers, and the magic number and the code 128 are smaller accordingly.
`RequestStatus` and `ResponseStatus` are the early returns of the decoders in
their order. `Framing` is one connection over these bytes: `Receive` moves what
has arrived into the receive buffer, `DecodeRequest`, `DecodeNoRoom`,
`DecodeMalformed` and `DecodeEnds` are the turns and exits of the decoding loop
with its compaction, `QueueResponse` compacts and fills the transmit buffer,
`Flush` is what one `send` takes. The client may send frames that are `Malformed`
(the assumption says what that means: decoding fails, and would fail with more
bytes behind) or differ in `Reserved` bytes only. It leaves out what `Gateway` has: sessions,
validation, other connections.

`SessionValidator` holds the checks of a request as operators over a validator's
state, with products taken modulo `WordMod`. `Gateway` is the gateway's thread:
`RouteResponse` is one turn of `drain_engine_responses`, `EpollWait` computes the
batch of events, and each event is handled by one or more steps (`Receive` and one
`Decode...` step per frame, since the engine's thread empties the request queue
meanwhile). Frames are whole here, which is what `Framing` shows of the buffers. What the kernel decides is nondeterministic: who connects, which socket
takes bytes, how many. `who` numbers the connections ever accepted and is carried
along by requests and responses, so that a reused descriptor or session can be told
from the one before; `received` is what each client has read. The early `continue`
of `run` for an event whose connection is gone is not a step: `BatchFresh` shows
that it is never taken. The engine's thread is reduced to taking a request and
pushing one or more events.

Definitions headed `Mutant:` are plausible slips of the definition that follows
them (`FaultyCrosses` of `Crosses`, and so on). No specification uses them; put in
the place of the original each one breaks the property `PROJECT.json` pairs it
with, so no property holds for want of anything that could break it.

## Runs

Run with `tlc -config X.cfg M`. In the configurations with `CHECK_DEADLOCK FALSE`
behaviours end at a bound (`MaxSequence`, `MaxCommands`) or when the loop was
stopped, which is not a deadlock of the code; `MCSpscQueue`, `MCFixedOrderIndex`
and `MCGateway`, whose threads never stop, are checked for deadlock.

| Run | Shows | Bounds |
| --- | --- | --- |
| `price_time` (`MCPriceTimeBook`) | never crossed, not between two fills either; no order lost to its own replacement; a remainder always finds room; fill-or-kill fills; every unit is traded, rested, cancelled or left, and the resting orders change by what the events report; exactly one order is next whenever anything crosses | capacity 2, three identifiers, three levels, a price between the ticks, quantities 0 to 2, gaps and repeats in the sequence, five commands |
| `order_book` (`MCOrderBook`) | arena, free stack, FIFOs, totals, bitmaps and index describe the same orders in every state, and a snapshot taken between any two commands rebuilds the same queues | capacity 3, four identifiers, three levels over two bitmap words, five commands, any number of restores |
| `book_refines` (`MCOrderBookRefinement`) | the book implements `PriceTimeBook`, event by event | capacity 2, three identifiers, two levels over two words, invalid prices, four commands |
| `quantity_wraps` (`MCOrderBookOverflow`) | a violation, see below | quantities of two bits |
| `order_index` | the table is a map for every pattern of collisions; `erase` ends | three identifiers in the eight slots the constructor allocates, histories of any length |
| `spsc_queue` | no data race; a FIFO; values keep flowing | the four slots of a queue for two values, two values, histories of any length |
| `recovery` (`Recovery`) | events reach the consumer in order under back-pressure; no sequence gaps; a stop request always ends the loop; what is submitted is delivered if the consumer consumes; a recovered book is one the crashed process had; with a synchronous journal, until one of its flushes fails, no crash undoes what a client was told, and snapshot and journal give the same book as the journal alone | no, a buffered or a synchronous journal, flushes that fail, output of one slot, four commands of one or two events, three crashes |
| `recovery_gap` (`Recovery`) | a violation, see below | two commands, one crash |
| `framing` (`MCFraming`) | requests and responses arrive whole, in order, with every field, and without waiting for later bytes; only a malformed frame or a full transmit buffer closes the connection | two frames of any type, intact, padded in their reserved bytes or malformed in one of twelve ways; a receive buffer of one largest frame, a transmit buffer of 100 bytes, pieces of 24, 31 and 51 bytes, of all there is, and of all that fits |
| `gateway_routing` (`MCGateway`) | session map exact; epoll events never handled for the wrong connection; no live client gets another one's events | two descriptors, two connections, two sessions, two frames each, malformed ones included, every buffer of one slot |
| `gateway_pipeline` (`MCGateway`) | each consumed client sequence is answered once and completely, engine events arrive in order, what is admitted is within the risk limits, answers arrive | one connection, three frames, two sessions, words of four bits, answers of up to two events |
| `gateway_reconnect` (`MCGateway`) | a violation, see below | two connections after one another, one frame each |

Why the bounds suffice. A capacity of three has a FIFO with a head, a middle and
a tail, and with five commands a node is reused after each of the ways it can be
freed; four identifiers let the book be full while another order arrives. Two
bitmap words show both directions of the word scan. A sweep of three levels, a
replacement on a full book, a fill-or-kill that just fills and one that just does
not, are all reached. Symmetry is over order identifiers, which the models only
compare for equality; no liveness property is checked with it. In the index three
identifiers make every cluster the load factor allows at this capacity, in every
position, across the end of the table too. Four slots let the ring lap itself;
its steps depend on the indices only through their distances. Two connections
compete for a session, follow each other on one descriptor and are in one batch;
buffers of one slot make every overflow happen with two responses. Three crashes
are a crash that tears the journal, a second after the file was appended to again
and a third on top of a snapshot. A receive buffer of exactly one largest frame is
the smallest the code could have, and two frames fill it to the last byte with a
frame and a part of the next; the pieces end on, before and behind every kind of
boundary (a header, one byte short of a frame, inside a field).

Fairness. The engine's thread runs (`WF(Engine)`); nothing is assumed of the
gateway's thread except, in `EverythingDelivered` itself, that it keeps
consuming. In the queue both sides poll in a loop (`WF`), and a store to an atomic
becomes visible in finite time, so that a load repeated for ever eventually
returns the current value (`SF` of the up-to-date loads). The repair loop of
`erase` runs on once entered. In the gateway both threads run; that a client keeps
reading, so that a socket with output becomes writable again and again, is an
assumption of `AnswersDelivered` and not of the specification. In `Framing` epoll
reports a readable or writable socket again until it is served, and the client
reads on; nothing is assumed of the engine. `Recovery` assumes nothing of crashes,
restarts and snapshots.

### Three disagreements with the documentation

* `recovery_gap`: `docs/DESIGN.md` says that journalling before processing makes
  replay reproduce rejections too, and that recovery replays the records whose
  sequence is greater than the snapshot's. With `EngineRunner`, whose clients
  assign sequences, a command that came too early is journalled and refused; if the
  gap is then filled and a snapshot taken, the refused command lies behind the
  snapshot's sequence and recovery applies it. Replaying the whole journal does
  reproduce the rejection, and `GatewayEngineRunner` journals no gaps: for it
  `RecoveredIsReal` and `RoutesAgree` hold.
* `quantity_wraps`: `docs/DESIGN.md` lists "a level's aggregate quantity equals
  the sum of `remaining` across its FIFO" as an invariant. `process` accepts
  quantities whose sum does not fit 64 bits, and the running total wraps. Behind
  the gateway the risk limits keep quantities far below that.
* `gateway_reconnect`: `docs/PROTOCOL.md` says that every event repeats the
  originating session and client sequence for correlation. Responses are routed by
  session when they come back, and client sequences start again at 1 on a new
  connection: a client that reconnects under its session while a request is in the
  engine gets the old request's events, with the pair its own first request uses.
  `NeverToAnotherLiveClient` shows that this needs the old connection to be gone.

One more difference shows without a run: `engine_runner.hpp` says that events are
never silently dropped when the output queue is full, and `AbandonPublish` is the
exception: if the stop flag is up, `run` returns with the rest of the command's
events in `pending`. `EventsInOrder` says that nothing else is dropped, and
`StopReturns` what this buys: the loop ends although nobody consumes.

And one about failures: `ToldIsDurable` and `RoutesAgree` are stated for a
synchronous journal until a flush fails. After a failed flush (`journal.cpp:80`)
clients learn of one command whose record is not written, and recovery may forget
it; `RecoveredIsReal`, `NoGaps` and `EventsInOrder` hold all the same.

## Proofs

`PriceTimeBookProofs` proves, for every ladder, capacity, set of identifiers,
prices, quantities and sequence steps, that `PriceTimeBook` satisfies `TypeOK`,
`CommandOK`, `NotCrossed`, `ReplacementAdmitted`, `RestIsSafe`, `FillOrKillFills`,
`Deterministic` and the action property `QuantityConserved`. The assumptions are
`ConfigAssumption`, the checks of `checked_price_count`, and `InputAssumption`,
which only types the inputs.

The inductive invariant is `IndInv`: `TypeOK`, `OrdersOK` (valid prices, nonzero
quantities, distinct identifiers, at most `MaximumOrders` orders), `CommandOK`,
`NotCrossed` and `ReplacementAdmitted`. `RestIsSafe` is not inductive: that a
remainder finds room when the loop ends depends on what was known when the order
was admitted. `CommandOK` carries it through the loop: on a full book, a limit
order with a quantity left has something to trade against. On admission that
follows from `can_fully_fill` (`NothingCrossesNothingFills`: an empty sum fills no
positive quantity); a fill either completes the aggressor or completes the maker
and thereby frees a place (`TradePreserves`). So when the loop ends with a
remainder the book is not full (`RoomToRest`). For a replacement the order just
taken out is the place (`RemovalOK`), which is why `submit` cannot refuse it after
the old order is gone. `NotCrossed` is preserved by `Rest` because the loop ended:
nothing on the other side crosses the limit.

The two properties of quantities speak of sums, and rest on a second invariant,
`Balanced`, inductive relative to the first. `Conserved`: while a command is matched
its `Trade` events and its remainder add up to its quantity, and it has no `Rested`
or `Cancelled` event yet. `Covered`: what is offered at or within the limit of a
fill-or-kill order is at least its remainder; `submit` checks it once, on admission,
and every fill takes the same amount from both. `QuantityConserved` speaks of steps,
since the step that rests or cancels the remainder also ends the command: from
`Balanced` before the step, `TradeConserves`, `RestConserves` and `EndConserves`
compute both sides after it (`EventCounted`: what one more event adds; `FillTakes`
and `RestAdds`: what a fill takes from the resting orders and a remainder adds). A fold over
a set is unique only by induction on the set, so `InductionLemmas` replaces it by
a count: `Total` is the number of units, pairs of an element and a number up to
its amount, and `SumIsTotal` shows that the sum of the model is that count.

`Deterministic` rests on a third invariant, `Sequenced`: priorities of resting orders
are distinct and not above the last sequence, and below it while the command that
has it is matched. Among the crossing orders the one nearest to the best price, and
of these the one of lowest priority, exists because sets of naturals have a least
element (`OneComesFirst`), and no other precedes all the rest.

`SpscQueueProofs` proves, for every ring size of at least two and every set of
values, `TypeOK`, `IndicesOrdered`, `NoDataRace` and `ImplementsFifo`, from
`QueueAssumption` alone. `IndicesOrdered` is not inductive: a thread between its
check and its store relies on what the check saw. `ChecksHold` states it: until
the producer stores the tail, the ring it last saw had room for one value more,
and until the consumer stores the head, it has seen a filled slot. Because a view
only lags, what a thread has seen bounds what is: the producer's ring is at least
as full as the real one and the consumer's at most, so neither index can pass the
other. The arithmetic is done once, on `Gap`, the distance without the remainder
(`DistanceIs`, `StepAhead`, `StepBehind`, `ObservableBetween`). For the refinement
`CopiesHold` adds that a copied value and its slot agree until the index moves;
storing the tail is then the abstract push (`RingAppend`), storing the head the
abstract pop (`RingTail`), and a write to the vacant slot is invisible
(`WriteHidden`).

`InductionLemmas` holds the induction itself: `NaturalInduction` and
`SubsetInduction` in a form whose parameter is a set and not an operator, which the
provers can instantiate. What a fold computes is proved with them: the sums above,
and `ConsumedGoes` in `RecoveryProofs` (a replay goes through the books that the
records lead to, one after another).

`FixedOrderIndexProofs` proves, for every table at most half full, every set of
identifiers and every pattern of home slots, `FindExact`, `OneSlotEach` and that a
slot is always empty (`NeverFull`: every search ends, and `insert` cannot fail;
`add_resting` throws if it does, with the order already linked in, and the
reinsertion inside `erase` does not look at the result). `CapacityAssumption` says what the constructor
computes, and that `nullptr` is no entry. `FindExact` is not inductive, and not
true inside `erase`: while the repair loop runs, entries of the cluster behind
the hole may be unreachable. `Reachable` says which: an entry is cut off from its
home slot by an empty one only if no slot between the repair's place and the entry
is empty, so the loop, which ends at an empty slot, has still to come to it.
Distances are taken around the table (`Gap`), and that an empty slot remains is a
counting argument (`WithinCapacity`).

`GatewayProofs` proves, for any number of descriptors, sessions, connections and
frames and every capacity, `SessionsBound`, `BatchFresh`, `NeverToAnotherLiveClient`
and `AdmittedWithinRisk`, and on top of these `AnswersInOrder` and `AnsweredOnce`.
The first inductive invariant, `IndInv`, adds to the four what they need of each
other: a batch has one event of a descriptor (`BatchOK`), the event being handled
is for a live connection and no other event of the batch is about its descriptor
(`CurrentOK`), connection numbers are unique and fresh (`WhoOK`), and everything in
the engine carries the session that its connection has bound, if it still lives
(`InFlightOK`). The last is why a response routed by session cannot reach another
live connection: that one would have to have bound the same session. The second,
`HistoryOK`, is one connection's history in the order events travel: what the
client received, the transmit buffer, the response queue, the events being pushed
and the requests waiting. Each part is sorted, each comes before the next
(`Ordered`), requests come after every event (`Pending`), and each client sequence
is in exactly one of four conditions (`Once`: not consumed, waiting, refused, or
answered by all its events). `AnsweredOnce` is about live connections, and compares
sets: it does not see what becomes of the requests of a closed connection, nor a
rejection queued twice in the same words. Lemmas move an element from one part to the next;
each action is then one such move. `GatewayAssumption` types the constants (prices
and quantities of commands are integers), `NoneAssumption` keeps the absence of a
connection apart from one.

`RecoveryProofs` proves for both runners, every capacity and any number of crashes
`EventsInOrder` and `NoGaps`, and for `GatewayEngineRunner` (`AssignsSequences`)
`ToldIsDurable`, `RoutesAgree` and the action property `RecoveredIsReal`. For
`EngineRunner` the last does not hold: `recovery_gap` is the counterexample. The
first invariant, `Basic`, has the types, that every book (the process's own, the
snapshot's) has applied the commands 1 to its last sequence (`BooksOK`), and that
the sequences assigned never run ahead of the commands submitted (`Counted`). The
second, `JournalOK`, is what the journal owes the book. Its `Records` are the file
and the stream, or what a replay accepts of the file a process left; its history
`Known` is the book's, with the command that is journalled and not processed yet.
`Owes` says that the records are commands of the history in ascending order and
linked without a gap from the snapshot on (`Kept`), that with the snapshot they
reach all of it while the process runs (`Reach`), and that in a synchronous journal
record i has sequence i and the records cover at least the book. After a failed
flush the record that the stream keeps counts as one that a crash may lose, and the
journal owes no more than a buffered one. A crash cuts the
records to a prefix (`CrashValid`, `OwesCut`), which keeps every part but the
reach; what is replayed is then the history up to where the prefix reaches
(`ReplayReaches`), and the restarted process begins with that as its book and
owes nothing more (`OwesRecovered`). A snapshot only moves the point from which
records must be linked (`OwesSaved`): after a buffered journal has lost records
that a snapshot covers there is a gap in the file, and it lies before that point.

`OrderBookProofs` proves of the book as it is built, for every ladder, word width,
capacity and input, `ArenaConsistent`, `FifosConsistent`, `BestIndexExact`,
`NodeAvailable` and `SnapshotFaithful`, and under one condition `AggregatesExact`
and `ImplementsPriceTime`. The condition, `NoWrap`, is that as many of the largest
quantities as the book holds orders do not overflow the width of a quantity; it is
a hypothesis of these two theorems and not an assumption of the module, since the
book does not check it and `quantity_wraps` shows what happens without.

The properties are stated over walks, folds and scans, none of which is inductive.
`Sound` says the same of a single book in terms of neighbours: every live node is
indexed under its identifier (`IndexOK`), the free stack holds the others once
(`FreeOK`), priorities are distinct (`OrdersOK`), a node's `next` is the order of
its level with the next higher priority and `previous` that with the next lower
(`NextOK`, `PreviousOK`), head and tail are the oldest and the youngest (`EndsOK`),
counts, totals modulo `QMod` and bits are those of the level's orders (`CountsOK`,
`TotalsOK`, `BitsOK`). `AddSound`, `RemoveSound` and `FillSound` show that each
container operation preserves it, one part at a time, from a lemma that says what
the operation changes (`AddFrame`, `RemoveFrame`, `FillFrame`). `IndInv` adds
`CommandFit`: quantities are positive and no larger than one a client sent,
priorities are older than the command being matched, and while no node is free the
loop of a limit order goes on, which is what makes the unchecked pop of
`add_resting` safe.

What is observed of a book then follows from `Sound` alone. A level's list is the
ranking of its orders by priority (`Places`), and walking it from the head, the
recursive `Fifo`, is that ranking (`FifoIs`), by induction on the position. The
scan by words finds the extreme occupied level (`BestIndexIs`). `Orders` is the set
of resting orders; `RemoveOrders`, `TradeOrders` and `AddOrders` say what the
operations do to it, and two sound books with the same orders have the same queues
(`SameQueues`). `restore` is an induction over the orders in priority order
(`RestoreSound`), so a snapshot loses nothing. For the refinement the levels that
`can_fully_fill` visits are those that cross (`ScanIs`), the sum of their totals is
the sum over the crossing orders (`CrossingSum`, where `NoWrap` is used), the free
stack is empty when the abstract book is full (`FullSame`), and the head of the
best level is the abstract best order (`BestSame`); each action is then the
abstract action of the same name, and `Recover` a stuttering step.

`FramingProofs` proves `RequestsIntact`, `ResponsesIntact` and `ClosedOnlyForCause`
for every even byte base from 12 on (256 among them), every magic number, every
receive buffer of at least `maximum_frame_size` and transmit buffer of at least one
response, every set of pieces and any number of frames the client sequence can
count. `ProtocolAssumption` and `FramingAssumption` say that, and give the fields
the ranges of their types; `DamageAssumption` says that a malformed frame is
malformed and that a padded one differs in reserved bytes only.

The inductive invariant `IndInv` looks at each direction as one stream. The strings
sent are the frames offered (`FrameStrings`) or the responses queued
(`ReplyStrings`); `Behind(s, k)` are the bytes of all but the first k of them; and
the buffer and the wire, in their order, are exactly the bytes behind the frames
decoded (`Requests`) or the responses seen (`Responses`). `Wires` adds what the
steps need of the marks: outside the decoding loop the receive buffer starts with a
frame that is not decoded. The argument has three parts. What the encoders write
the decoders read back at the same offset: first words (`RoundU16` to `RoundU64`,
`RoundSigned`), then enumerations, then the layouts (`RequestLayout`,
`ResponseLayout`), and so a prefix of a frame is answered with `NeedMoreData` until
it is complete and then yields what the frame carries (`DecodesIntact`,
`DecodesResponse`), while a malformed one is never accepted (`RefusesMalformed`).
The front of a stream agrees with its next string as far as the buffer goes
(`StreamHead`, `NextFrame`, `NextReply`). And each step moves bytes along a stream
(`Cut`, `SuffixOfSuffix`, `CompactedUnsent`), adds a string at its end
(`BehindGrows`) or takes one from its front (`BehindNext`). `ClosedOnlyForCause`
rests on the sizes: a receive buffer that is full after compaction holds more than
any intact frame, so its first frame would have been decoded. What
`FlattenSeq` computes, a fold, is proved by induction with `NaturalInduction`
(`FlatAppend`, `FlatHead`).

Checked by TLC only: the liveness properties. `RestIsSafe`,
`NeverFull` and the inductive invariants are proved only; the inductive invariants
were checked by TLC on the instances of the runs before they were proved, the one
of quantities with the model's own sums.

## Not modelled

The counters `commands`, `trades` and `rejected` of the book, which nothing but
`dme_replay`'s exit code reads back; timestamps; exceptions of checked file
writes (`write_exact`, `JournalWriter::flush`, the snapshot), which end the process
as a crash does (the unchecked flush of `append` is modelled; that of a new file's
header is not, as the first append throws before anything is processed); a corrupted record whose checksum still
fits; a loss of power, against which the code makes no promise; the check of the
journal's format version and record size, as the files are always of one build;
the gateway's set-up of its listening socket and failures of the system calls that
open or accept a connection (a `recv` or `send` that fails is a peer that hung up). The benchmark measures time and has no state of its own.

## Plan

1. `PriceTimeBook`, `OrderBook`, `FixedOrderIndex`, `SpscQueue`, `EngineRunner` and
   the proofs of `PriceTimeBook` and `SpscQueue`: done.
2. `SessionValidator` and `Gateway`, `Recovery`, `Protocol` and `Framing`: done.
3. Proofs of `FixedOrderIndex`, `Gateway`, `Recovery` and the sums of
   `PriceTimeBook`: done.
4. Proofs of the containers of `OrderBook` and its refinement of `PriceTimeBook`:
   done.
5. Proofs of the buffers of `Framing`: done.
