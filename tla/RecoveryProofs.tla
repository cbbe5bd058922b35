--------------------------- MODULE RecoveryProofs ---------------------------
(***************************************************************************)
(* The safety of the event loop through crashes and restarts, for every    *)
(* capacity, number of commands and number of crashes.                     *)
(***************************************************************************)
EXTENDS Recovery, InductionLemmas, SequenceTheorems

-----------------------------------------------------------------------------
(* One record, and the fold over the first n records that FoldLeft computes. *)
Step(b, record, after) == IF record.sequence > after THEN Processed(b, record) ELSE b

IsFold(f, book, records, after, n) ==
  f = [s \in SUBSET (1 .. n) |->
         IF s = {} THEN book
         ELSE LET x == Max(s) IN Step(f[s \ {x}], records[x], after)]

LEMMA MaxIs ==
  ASSUME NEW s \in SUBSET Nat, NEW x \in s, \A y \in s : y <= x
  PROVE  Max(s) = x
<1>1. \A y \in s : x >= y
  OBVIOUS
<1>2. \A z \in s : (\A y \in s : z >= y) => z = x
  OBVIOUS
<1> QED
  BY <1>1, <1>2 DEF Max

LEMMA FoldExtends ==
  ASSUME NEW f, NEW book, NEW records, NEW after, NEW n \in Nat,
         IsFold(f, book, records, after, n)
  PROVE  \E g : IsFold(g, book, records, after, n + 1)
<1> DEFINE m == n + 1
           g == [s \in SUBSET (1 .. m) |->
                   IF m \in s THEN Step(f[s \ {m}], records[m], after) ELSE f[s]]
<1>1. ASSUME NEW s \in SUBSET (1 .. m)
      PROVE  g[s] = IF s = {} THEN book
                    ELSE LET x == Max(s) IN Step(g[s \ {x}], records[x], after)
  <2>1. CASE m \in s
    <3>1. Max(s) = m
      <4>1. s \in SUBSET Nat /\ \A y \in s : y <= m
        OBVIOUS
      <4> QED
        BY <2>1, <4>1, MaxIs
    <3>2. s \ {m} \in SUBSET (1 .. m) /\ m \notin s \ {m}
      OBVIOUS
    <3>3. g[s \ {m}] = f[s \ {m}]
      BY <3>2
    <3>4. g[s] = Step(f[s \ {m}], records[m], after)
      BY <2>1
    <3> QED
      BY <2>1, <3>1, <3>3, <3>4
  <2>2. CASE m \notin s
    <3>1. s \in SUBSET (1 .. n)
      BY <2>2
    <3>2. g[s] = f[s]
      BY <2>2
    <3>3. f[s] = IF s = {} THEN book
                 ELSE LET x == Max(s) IN Step(f[s \ {x}], records[x], after)
      BY <3>1 DEF IsFold
    <3>4. ASSUME NEW x PROVE g[s \ {x}] = f[s \ {x}]
      <4>1. s \ {x} \in SUBSET (1 .. m) /\ m \notin s \ {x}
        BY <2>2
      <4> QED
        BY <4>1
    <3> HIDE DEF g
    <3> QED
      BY <3>2, <3>3, <3>4
  <2> QED
    BY <2>1, <2>2
<1>2. IsFold(g, book, records, after, m)
  <2> DEFINE h == [s \in SUBSET (1 .. m) |->
                     IF s = {} THEN book
                     ELSE LET x == Max(s) IN Step(g[s \ {x}], records[x], after)]
  <2>1. \A s \in SUBSET (1 .. m) : g[s] = h[s]
    BY <1>1
  <2>2. g = [s \in SUBSET (1 .. m) |-> g[s]] /\ h = [s \in SUBSET (1 .. m) |-> h[s]]
    OBVIOUS
  <2>3. g = h
    <3> HIDE DEF g, h
    <3> QED
      BY <2>1, <2>2
  <2> QED
    BY <2>3 DEF IsFold
<1> QED
  BY <1>2

LEMMA FoldExists ==
  ASSUME NEW book, NEW records, NEW after
  PROVE  \A n \in Nat : \E f : IsFold(f, book, records, after, n)
<1> DEFINE S == {n \in Nat : \E f : IsFold(f, book, records, after, n)}
<1>1. 0 \in S
  <2> DEFINE f == [s \in SUBSET (1 .. 0) |-> book]
  <2>1. SUBSET (1 .. 0) = {{}}
    OBVIOUS
  <2>2. IsFold(f, book, records, after, 0)
    BY <2>1 DEF IsFold
  <2> QED
    BY <2>2
<1>2. \A n \in S : n + 1 \in S
  BY FoldExtends
<1>3. S \in SUBSET Nat
  OBVIOUS
<1>4. S = Nat
  <2> HIDE DEF S
  <2> QED
    BY <1>1, <1>2, <1>3, NaturalInduction
<1> QED
  BY <1>4

(* The books a replay goes through: h[i] has consumed the first i records. *)
Goes(h, book, records, after) ==
  /\ h[0] = book
  /\ \A i \in 1 .. Len(records) : h[i] = Step(h[i - 1], records[i], after)

LEMMA ConsumedGoes ==
  ASSUME NEW R, NEW records \in Seq(R), NEW book, NEW after
  PROVE  \E h : /\ Goes(h, book, records, after)
                /\ Consumed(book, records, after) = h[Len(records)]
<1> DEFINE n == Len(records)
           Fold(iter) == iter = [s \in SUBSET (1 .. n) |->
                           IF s = {} THEN book
                           ELSE LET x == Max(s) IN
                                IF records[x].sequence > after
                                THEN Processed(iter[s \ {x}], records[x])
                                ELSE iter[s \ {x}]]
<1>1. n \in Nat /\ DOMAIN records = 1 .. n
  OBVIOUS
<1>2. \A f : Fold(f) <=> IsFold(f, book, records, after, n)
  BY DEF IsFold, Step
<1>3. \E f : Fold(f)
  BY <1>1, <1>2, FoldExists
<1>4. PICK f : f = CHOOSE iter : Fold(iter)
  OBVIOUS
<1>5. Fold(f)
  BY <1>3, <1>4
<1>6. Consumed(book, records, after) = f[1 .. n]
  <2>1. Consumed(book, records, after) = (CHOOSE iter : Fold(iter))[1 .. n]
    BY <1>1 DEF Consumed, FoldLeft, MapThenFoldSet
  <2> QED
    BY <1>4, <2>1
<1> DEFINE h == [i \in 0 .. n |-> f[1 .. i]]
<1>7. h[0] = book
  <2>1. 1 .. 0 = {} /\ {} \in SUBSET (1 .. n)
    OBVIOUS
  <2>2. f[{}] = book
    BY <1>5
  <2> QED
    BY <1>1, <2>1, <2>2
<1>8. ASSUME NEW i \in 1 .. n PROVE h[i] = Step(h[i - 1], records[i], after)
  <2>1. 1 .. i \in SUBSET (1 .. n) /\ 1 .. i # {} /\ (1 .. i) \ {i} = 1 .. i - 1
    <3> HIDE DEF n
    <3>1. i \in Nat /\ 1 <= i /\ i <= n
      BY <1>1
    <3>2. 1 .. i \in SUBSET (1 .. n) /\ 1 .. i # {}
      BY <1>1, <3>1
    <3>3. (1 .. i) \ {i} = 1 .. i - 1
      BY <3>1
    <3> QED
      BY <3>2, <3>3
  <2>2. Max(1 .. i) = i
    BY <1>1, MaxIs
  <2>3. f[1 .. i] = LET x == Max(1 .. i) IN Step(f[(1 .. i) \ {x}], records[x], after)
    <3>1. IsFold(f, book, records, after, n)
      BY <1>2, <1>5
    <3> QED
      BY <2>1, <3>1 DEF IsFold
  <2>4. f[1 .. i] = Step(f[1 .. i - 1], records[i], after)
    BY <2>1, <2>2, <2>3
  <2>5. i - 1 \in 0 .. n /\ i \in 0 .. n
    BY <1>1
  <2> QED
    BY <2>4, <2>5
<1>9. h[n] = f[1 .. n]
  BY <1>1
<1> QED
  BY <1>6, <1>7, <1>8, <1>9 DEF Goes

-----------------------------------------------------------------------------
(* A book has applied the commands 1 to its last sequence. *)
Book == [last: Nat, applied: Seq(Command)]

Numbered(b) ==
  /\ b.last = Len(b.applied)
  /\ \A i \in DOMAIN b.applied : b.applied[i].sequence = i

LEMMA CommandTyped ==
  ASSUME NEW c \in Command
  PROVE  c.sequence \in Nat /\ c.n \in Nat /\ c.n # 0 /\ c # Torn
BY RunnerAssumption DEF Command, Torn

LEMMA AppendNumbered ==
  ASSUME NEW b \in Book, Numbered(b), NEW c \in Command, c.sequence = b.last + 1
  PROVE  LET d == [last |-> c.sequence, applied |-> Append(b.applied, c)] IN
         d \in Book /\ Numbered(d)
<1>1. b.applied \in Seq(Command) /\ b.last \in Nat
  BY DEF Book
<1>2. c.sequence \in Nat
  BY CommandTyped
<1>3. PICK d : d = [last |-> c.sequence, applied |-> Append(b.applied, c)]
  OBVIOUS
<1>4. d.last = c.sequence /\ d.applied = Append(b.applied, c) /\ d \in Book
  BY <1>1, <1>2, <1>3 DEF Book
<1>5. d.last = Len(d.applied)
  BY <1>1, <1>4 DEF Numbered
<1>6. ASSUME NEW i \in DOMAIN d.applied PROVE d.applied[i].sequence = i
  <2>1. CASE i = Len(b.applied) + 1
    BY <1>1, <1>4, <2>1 DEF Numbered
  <2>2. CASE i # Len(b.applied) + 1
    <3>1. i \in DOMAIN b.applied /\ d.applied[i] = b.applied[i]
      BY <1>1, <1>4, <2>2
    <3> QED
      BY <3>1 DEF Numbered
  <2> QED
    BY <2>1, <2>2
<1>7. d \in Book /\ Numbered(d)
  BY <1>4, <1>5, <1>6 DEF Numbered
<1> QED
  BY <1>3, <1>7

(* Whatever the records, a replay yields a book whose last sequence is that of
   one of them or the one it started with. *)
LEMMA ConsumedBook ==
  ASSUME NEW records \in Seq(Command), NEW book \in Book, Numbered(book),
         NEW after \in Int, NEW bound \in Int, book.last <= bound,
         \A i \in DOMAIN records : records[i].sequence <= bound
  PROVE  /\ Consumed(book, records, after) \in Book
         /\ Numbered(Consumed(book, records, after))
         /\ Consumed(book, records, after).last <= bound
<1> DEFINE Good == {b \in Book : Numbered(b) /\ b.last <= bound}
<1>1. PICK h : Goes(h, book, records, after) /\ Consumed(book, records, after) = h[Len(records)]
  BY ConsumedGoes
<1>2. Len(records) \in Nat /\ DOMAIN records = 1 .. Len(records)
  OBVIOUS
<1> DEFINE S == {n \in Nat : n <= Len(records) => h[n] \in Good}
<1>3. 0 \in S
  BY <1>1 DEF Goes
<1>4. ASSUME NEW n \in S PROVE n + 1 \in S
  <2> SUFFICES ASSUME n + 1 <= Len(records) PROVE h[n + 1] \in Good
    OBVIOUS
  <2>1. n \in Nat /\ n + 1 \in 1 .. Len(records) /\ h[n] \in Good /\ (n + 1) - 1 = n
    BY <1>2
  <2>2. PICK b, c : b = h[n] /\ c = records[n + 1]
    OBVIOUS
  <2>3. h[n + 1] = Step(b, c, after)
    BY <1>1, <2>1, <2>2 DEF Goes
  <2>4. b \in Book /\ Numbered(b) /\ b.last <= bound
    BY <2>1, <2>2
  <2>5. c \in Command /\ c.sequence <= bound
    BY <1>2, <2>1, <2>2
  <2>6. CASE Step(b, c, after) = b
    BY <2>3, <2>4, <2>6
  <2>7. CASE Step(b, c, after) # b
    <3>1. /\ Step(b, c, after) = [last |-> c.sequence, applied |-> Append(b.applied, c)]
          /\ c.sequence = b.last + 1
      BY <2>7 DEF Step, Processed
    <3>2. Step(b, c, after) \in Book /\ Numbered(Step(b, c, after))
      BY <2>4, <2>5, <3>1, AppendNumbered
    <3>3. Step(b, c, after).last <= bound
      BY <2>5, <3>1
    <3> QED
      BY <2>3, <3>2, <3>3
  <2> QED
    BY <2>6, <2>7
<1>5. S = Nat
  <2>1. S \in SUBSET Nat
    OBVIOUS
  <2> HIDE DEF S
  <2> QED
    BY <1>3, <1>4, <2>1, NaturalInduction
<1>6. h[Len(records)] \in Good
  BY <1>2, <1>5
<1> QED
  BY <1>1, <1>6

(* What replay_journal keeps is a prefix of the file, without a torn record. *)
LEMMA ValidPrefix ==
  ASSUME NEW records \in Seq(Command \cup {Torn})
  PROVE  LET V == ValidRecords(records) IN
         /\ V \in Seq(Command)
         /\ Len(V) \in 0 .. Len(records)
         /\ V = SubSeq(records, 1, Len(V))
         /\ records \in Seq(Command) => V = records
<1> DEFINE bad == {i \in DOMAIN records : records[i] = Torn}
<1>1. Len(records) \in Nat /\ DOMAIN records = 1 .. Len(records)
  OBVIOUS
<1>2. CASE bad = {}
  <2>1. ValidRecords(records) = records
    BY <1>2 DEF ValidRecords
  <2>2. \A i \in 1 .. Len(records) : records[i] \in Command
    BY <1>1, <1>2
  <2>3. records \in Seq(Command)
    BY <1>1, <2>2
  <2>4. records = SubSeq(records, 1, Len(records))
    OBVIOUS
  <2> QED
    BY <1>1, <2>1, <2>3, <2>4
<1>3. CASE bad # {}
  <2>1. bad \in SUBSET Nat
    BY <1>1
  <2>2. PICK m \in bad : \A k \in bad : m <= k
    <3> HIDE DEF bad
    <3> QED
      BY <1>3, <2>1, LeastNatural
  <2>3. Min(bad) = m
    <3>1. \A k \in bad : m =< k
      BY <2>2
    <3>2. \A z \in bad : (\A k \in bad : z =< k) => z = m
      BY <2>1, <2>2
    <3> HIDE DEF bad
    <3> QED
      BY <3>1, <3>2 DEF Min
  <2>4. ValidRecords(records) = SubSeq(records, 1, m - 1)
    BY <1>3, <2>3 DEF ValidRecords
  <2>5. m \in 1 .. Len(records) /\ m \in Nat /\ records[m] = Torn
    BY <1>1, <2>2
  <2>6. PICK V : V = SubSeq(records, 1, m - 1)
    OBVIOUS
  <2>7. /\ V \in Seq(Command \cup {Torn}) /\ Len(V) = m - 1
        /\ \A i \in 1 .. m - 1 : V[i] = records[i]
    BY <1>1, <2>5, <2>6
  <2>8. \A i \in 1 .. Len(V) : V[i] \in Command
    <3>1. \A i \in 1 .. m - 1 : records[i] \in Command \cup {Torn}
      BY <1>1, <2>5
    <3>2. \A i \in 1 .. m - 1 : i \notin bad
      BY <2>2, <2>5
    <3>3. \A i \in 1 .. m - 1 : i \in DOMAIN records
      BY <1>1, <2>5
    <3> QED
      BY <2>7, <3>1, <3>2, <3>3
  <2>9. V \in Seq(Command) /\ Len(V) \in 0 .. Len(records)
    BY <1>1, <2>5, <2>7, <2>8
  <2>10. records \notin Seq(Command)
    <3> SUFFICES ASSUME records \in Seq(Command) PROVE FALSE
      OBVIOUS
    <3>1. Torn \in Command
      BY <1>1, <2>5
    <3> QED
      BY <3>1, CommandTyped
  <2> QED
    BY <2>4, <2>6, <2>7, <2>9, <2>10
<1> QED
  BY <1>2, <1>3

-----------------------------------------------------------------------------
(* The first invariant, for either runner.  A command has been taken from the
   input and the book has not seen it yet: *)
Taken == pc \in {"append", "process"}

LocalOK ==
  /\ Taken => current \in Command
  /\ pc \in {"poll", "append", "process"} => pending = <<>>
  /\ pc = "append" => journal # "none"
  /\ process \in {"writing", "saved"} => pc = "returned"

OutsideOK ==
  /\ process \in {"open", "running", "writing", "saved", "down"}
  /\ header \in {"absent", "torn", "whole"}
  /\ snapshot = NoSnapshot \/ snapshot \in Book
  /\ told \subseteq Command /\ crashes \in 0 .. MaxCrashes

BooksOK ==
  /\ Numbered([last |-> lastSequence, applied |-> applied])
  /\ Base \in Book /\ Numbered(Base)

(* The sequences that GatewayEngineRunner assigns never run ahead of the
   commands submitted. *)
Counted ==
  AssignsSequences =>
    /\ pc # "terminated" => nextSequence = lastSequence + IF Taken THEN 2 ELSE 1
    /\ Taken => current.sequence = lastSequence + 1
    /\ Len(input) + nextSequence <= sent + 1
    /\ \A i \in DOMAIN file : file[i].sequence <= sent
    /\ \A i \in DOMAIN stream : stream[i].sequence <= sent
    /\ Base.last <= sent

Basic == TypeOK /\ LocalOK /\ OutsideOK /\ BooksOK /\ Counted /\ EventsInOrder

LEMMA BaseSame ==
  ASSUME UNCHANGED snapshot
  PROVE  Base' = Base
BY DEF Base, ReadSnapshot, EmptyBook, NoSnapshot

LEMMA BooksSame ==
  ASSUME BooksOK, UNCHANGED <<snapshot, lastSequence, applied>>
  PROVE  BooksOK'
<1>1. Base' = Base
  BY BaseSame
<1>2. PICK a, b : a = [last |-> lastSequence, applied |-> applied] /\ b = Base
  OBVIOUS
<1>3. [last |-> lastSequence, applied |-> applied]' = a /\ Base' = b
  BY <1>1, <1>2
<1>4. Numbered(a) /\ b \in Book /\ Numbered(b)
  BY <1>2 DEF BooksOK
<1> QED
  BY <1>3, <1>4 DEF BooksOK, Numbered, Book, Command

(* What a step inside the process leaves of the rest. *)
LEMMA InsideOK ==
  ASSUME OutsideOK, InProcess, TypeOK'
  PROVE  OutsideOK'
<1>1. ToSet(applied') \subseteq Command
  BY DEF TypeOK, ToSet
<1>2. told' \subseteq Command
  BY <1>1 DEF InProcess, OutsideOK
<1> QED
  BY <1>2 DEF InProcess, OutsideOK, disk, Book, Command, NoSnapshot

LEMMA TakeCommandBasic ==
  ASSUME Basic, TakeCommand, InProcess
  PROVE  Basic'
<1>1. /\ TypeOK /\ LocalOK /\ OutsideOK /\ BooksOK /\ Counted /\ EventsInOrder
      /\ pc = "poll" /\ input # <<>> /\ input' = Tail(input)
      /\ UNCHANGED <<output, stop, pending, lastSequence, applied, journal, stream, file,
                     sent, emitted, delivered, process, snapshot>>
  BY DEF Basic, TakeCommand, InProcess, journalVars, disk
<1>2. PICK c : c = Head(input)
  OBVIOUS
<1>3. /\ input \in Seq(Command) /\ c \in Command /\ input' \in Seq(Command)
      /\ Len(input) \in Nat /\ Len(input) >= 1 /\ Len(input') = Len(input) - 1
  BY <1>1, <1>2 DEF TypeOK
<1>4. /\ nextSequence \in Nat /\ sent \in Nat /\ sent <= MaxCommands /\ MaxCommands \in Nat
      /\ lastSequence \in Nat
  BY <1>1, RunnerAssumption DEF TypeOK
<1>5. pc' \in {"append", "process"} /\ (pc' = "append" => journal # "none")
  BY DEF TakeCommand
<1>6. CASE AssignsSequences
  <2>1. nextSequence = lastSequence + 1 /\ Len(input) + nextSequence <= sent + 1
    BY <1>1, <1>6 DEF Counted, Taken
  <2>2. nextSequence \in 0 .. MaxCommands + 1
    BY <1>3, <1>4, <2>1
  <2>3. current' = [c EXCEPT !.sequence = nextSequence] /\ nextSequence' = nextSequence + 1
    BY <1>2, <1>6 DEF TakeCommand
  <2>4. current' \in Command /\ current'.sequence = nextSequence
    BY <1>3, <2>2, <2>3 DEF Command
  <2>5. TypeOK'
    BY <1>1, <1>3, <1>4, <1>5, <2>3, <2>4 DEF TypeOK
  <2>6. LocalOK'
    BY <1>1, <1>5, <2>4 DEF LocalOK, Taken, InProcess
  <2>7. Counted'
    <3>1. Base' = Base
      BY <1>1, BaseSame
    <3>2. nextSequence' = lastSequence' + IF Taken' THEN 2 ELSE 1
      BY <1>1, <1>4, <1>5, <2>1, <2>3 DEF Taken
    <3>3. current'.sequence = lastSequence' + 1
      BY <1>1, <2>1, <2>4
    <3>4. Len(input') + nextSequence' <= sent' + 1
      BY <1>1, <1>3, <1>4, <2>1, <2>3
    <3> QED
      BY <1>1, <1>6, <3>1, <3>2, <3>3, <3>4 DEF Counted
  <2>8. EventsInOrder'
    BY <1>1 DEF EventsInOrder
  <2> QED
    BY <1>1, <2>5, <2>6, <2>7, <2>8, BooksSame, InsideOK DEF Basic
<1>7. CASE ~AssignsSequences
  <2>1. current' = c /\ nextSequence' = nextSequence
    BY <1>2, <1>7 DEF TakeCommand
  <2>2. TypeOK'
    BY <1>1, <1>3, <1>4, <1>5, <2>1 DEF TypeOK
  <2>3. LocalOK'
    BY <1>1, <1>3, <1>5, <2>1 DEF LocalOK, Taken, InProcess
  <2>4. Counted'
    BY <1>7 DEF Counted
  <2>5. EventsInOrder'
    BY <1>1 DEF EventsInOrder
  <2> QED
    BY <1>1, <2>2, <2>3, <2>4, <2>5, BooksSame, InsideOK DEF Basic
<1> QED
  BY <1>6, <1>7

LEMMA AppendJournalBasic ==
  ASSUME Basic, AppendJournal, InProcess
  PROVE  Basic'
<1>1. /\ TypeOK /\ LocalOK /\ OutsideOK /\ BooksOK /\ Counted /\ EventsInOrder
      /\ pc = "append" /\ pc' = "process"
      /\ UNCHANGED <<input, output, stop, current, pending, nextSequence, lastSequence, applied,
                     sent, emitted, delivered, process, snapshot>>
      /\ journal' \in {journal, "failed"}
  BY DEF Basic, AppendJournal, InProcess, engineVars, disk
<1>2. /\ current \in Command /\ stream \in Seq(Command) /\ file \in Seq(Command \cup {Torn})
      /\ sent \in Nat /\ lastSequence \in Nat /\ nextSequence \in Nat /\ Len(input) \in Nat
  BY <1>1, RunnerAssumption DEF LocalOK, Taken, TypeOK
<1>3. PICK R : R = Command \cup {Torn}
  OBVIOUS
<1>4. AssignsSequences => current.sequence <= sent
  BY <1>1, <1>2 DEF Counted, Taken
<1>5. PICK t : t = Append(stream, current)
  OBVIOUS
<1>6. /\ t \in Seq(Command) /\ t \in Seq(R)
      /\ AssignsSequences => \A i \in DOMAIN t : t[i].sequence <= sent
  <2>1. t \in Seq(Command)
    BY <1>2, <1>5
  <2>2. t \in Seq(R)
    BY <1>3, <2>1
  <2>3. ASSUME AssignsSequences, NEW i \in DOMAIN t PROVE t[i].sequence <= sent
    <3>1. CASE i = Len(stream) + 1
      BY <1>2, <1>4, <1>5, <2>3, <3>1
    <3>2. CASE i # Len(stream) + 1
      <4>1. i \in DOMAIN stream /\ t[i] = stream[i]
        BY <1>2, <1>5, <3>2
      <4> QED
        BY <1>1, <2>3, <4>1 DEF Counted
    <3> QED
      BY <3>1, <3>2
  <2> QED
    BY <2>1, <2>2, <2>3
<1>7. /\ stream' \in Seq(Command) /\ file' \in Seq(Command \cup {Torn})
      /\ AssignsSequences => \A i \in DOMAIN stream' : stream'[i].sequence <= sent
      /\ AssignsSequences => \A i \in DOMAIN file' : file'[i].sequence <= sent
  <2>1. CASE file' = file \o t /\ stream' = <<>>
    <3>1. file' = file \o t /\ stream' = <<>>
      BY <2>1
    <3>2. PICK g : g = file \o t
      OBVIOUS
    <3>3. file \in Seq(R)
      BY <1>2, <1>3
    <3>4. /\ g \in Seq(R) /\ Len(g) = Len(file) + Len(t)
          /\ \A i \in 1 .. Len(g) : g[i] = IF i <= Len(file) THEN file[i] ELSE t[i - Len(file)]
      BY <1>6, <3>2, <3>3
    <3>5. ASSUME AssignsSequences, NEW i \in DOMAIN g PROVE g[i].sequence <= sent
      <4>1. i \in 1 .. Len(g) /\ Len(file) \in Nat /\ Len(t) \in Nat
        BY <1>6, <3>3, <3>4
      <4>2. CASE i <= Len(file)
        <5>1. i \in DOMAIN file /\ g[i] = file[i]
          BY <3>3, <3>4, <4>1, <4>2
        <5> QED
          BY <1>1, <3>5, <5>1 DEF Counted
      <4>3. CASE ~(i <= Len(file))
        <5>1. i - Len(file) \in DOMAIN t /\ g[i] = t[i - Len(file)]
          BY <1>6, <3>4, <4>1, <4>3
        <5> QED
          BY <1>6, <3>5, <5>1
      <4> QED
        BY <4>2, <4>3
    <3>6. <<>> \in Seq(Command) /\ DOMAIN <<>> = {}
      OBVIOUS
    <3> QED
      BY <1>3, <3>1, <3>2, <3>4, <3>5, <3>6
  <2>2. CASE stream' = t /\ file' = file
    BY <1>1, <1>2, <1>6, <2>2 DEF Counted
  <2> QED
    BY <1>5, <2>1, <2>2 DEF AppendJournal
<1>8. TypeOK'
  BY <1>1, <1>7 DEF TypeOK
<1>9. LocalOK'
  BY <1>1, <1>2 DEF LocalOK, Taken
<1>10. Counted'
  <2>1. Base' = Base
    BY <1>1, BaseSame
  <2> QED
    BY <1>1, <1>7, <2>1 DEF Counted, Taken
<1>11. EventsInOrder'
  BY <1>1 DEF EventsInOrder
<1> QED
  BY <1>1, <1>8, <1>9, <1>10, <1>11, BooksSame, InsideOK DEF Basic

(* The pieces of the event stream, as one element moves from one to the next. *)
LEMMA MoveHead ==
  ASSUME NEW S, NEW a \in Seq(S), NEW b \in Seq(S), b # <<>>
  PROVE  /\ Append(a, Head(b)) \o Tail(b) = a \o b
         /\ Append(a, Head(b)) \in Seq(S) /\ Tail(b) \in Seq(S)
<1> DEFINE c == Append(a, Head(b))
           t == Tail(b)
<1>1. /\ c \in Seq(S) /\ t \in Seq(S) /\ Len(c) = Len(a) + 1 /\ Len(t) = Len(b) - 1
      /\ Len(b) >= 1 /\ Len(a) \in Nat /\ Len(b) \in Nat
      /\ c[Len(a) + 1] = b[1]
  OBVIOUS
<1>2. /\ \A i \in 1 .. Len(a) : c[i] = a[i]
      /\ \A i \in 1 .. Len(t) : t[i] = b[i + 1]
  OBVIOUS
<1> HIDE DEF c, t
<1>3. /\ c \o t \in Seq(S) /\ a \o b \in Seq(S)
      /\ Len(c \o t) = Len(a) + Len(b) /\ Len(a \o b) = Len(a) + Len(b)
  <2>0. c \in Seq(S) /\ t \in Seq(S)
    BY <1>1
  <2>1. c \o t \in Seq(S) /\ Len(c \o t) = Len(c) + Len(t)
    BY <2>0, ConcatProperties
  <2>2. a \o b \in Seq(S) /\ Len(a \o b) = Len(a) + Len(b)
    OBVIOUS
  <2> QED
    BY <1>1, <2>1, <2>2
<1>4. ASSUME NEW i \in 1 .. Len(a) + Len(b) PROVE (c \o t)[i] = (a \o b)[i]
  <2>1. CASE i <= Len(a)
    BY <1>1, <1>2, <2>1
  <2>2. CASE i = Len(a) + 1
    BY <1>1, <2>2
  <2>3. CASE i > Len(a) + 1
    BY <1>1, <1>2, <2>3
  <2> QED
    BY <1>1, <2>1, <2>2, <2>3
<1>5. c \o t = a \o b
  <2>1. PICK x, y : x = c \o t /\ y = a \o b
    OBVIOUS
  <2>2. /\ x \in Seq(S) /\ y \in Seq(S) /\ Len(x) = Len(y)
        /\ \A i \in 1 .. Len(x) : x[i] = y[i]
    BY <1>1, <1>3, <1>4, <2>1
  <2>3. x = y
    BY <2>2, SMTT(30)
  <2> QED
    BY <2>1, <2>3
<1> QED
  BY <1>1, <1>5 DEF c, t

LEMMA ProcessCommandBasic ==
  ASSUME Basic, NEW count \in 1 .. MaxEvents, ProcessCommand(count), InProcess
  PROVE  Basic'
<1>1. /\ TypeOK /\ LocalOK /\ OutsideOK /\ BooksOK /\ Counted /\ EventsInOrder
      /\ pc = "process" /\ pc' = "publish"
      /\ UNCHANGED <<input, output, stop, current, nextSequence, journal, stream, file,
                     sent, delivered, process, snapshot>>
  BY DEF Basic, ProcessCommand, InProcess, journalVars, disk
<1>2. /\ current \in Command /\ pending = <<>> /\ lastSequence \in Nat /\ applied \in Seq(Command)
      /\ emitted \in Seq(Event) /\ delivered \in Seq(Event) /\ output \in Seq(Event)
  BY <1>1 DEF LocalOK, Taken, TypeOK
<1> DEFINE gap == current.sequence # lastSequence + 1
<1>3. PICK N : N = IF gap THEN 1 ELSE count
  OBVIOUS
<1>4. N \in 1 .. MaxEvents /\ N \in Nat
  BY <1>3, RunnerAssumption
<1>5. PICK ev : ev = [k \in 1 .. N |-> [command |-> current, k |-> k]]
  OBVIOUS
<1>6. pending' = ev /\ emitted' = emitted \o ev
  BY <1>3, <1>5 DEF ProcessCommand
<1>7. ev \in Seq(Event)
  <2>1. \A k \in 1 .. N : [command |-> current, k |-> k] \in Event
    <3>1. \A k \in 1 .. N : k \in 1 .. MaxEvents
      BY <1>4, RunnerAssumption
    <3> QED
      BY <1>2, <3>1 DEF Event
  <2> QED
    BY <1>4, <1>5, <2>1
<1>8. EventsInOrder'
  <2>1. PICK q : q = delivered \o output
    OBVIOUS
  <2>2. q \in Seq(Event)
    BY <1>2, <2>1
  <2>3. q \o <<>> = q
    BY <2>2, ConcatEmptySeq
  <2>4. emitted = q
    BY <1>1, <1>2, <2>1, <2>3 DEF EventsInOrder
  <2> QED
    BY <1>1, <1>6, <2>1, <2>4 DEF EventsInOrder
<1>9. emitted' \in Seq(Event)
  BY <1>2, <1>6, <1>7
<1>10. PICK b : b = [last |-> lastSequence, applied |-> applied]
  OBVIOUS
<1>11. b \in Book /\ Numbered(b) /\ b.last = lastSequence /\ b.applied = applied
  BY <1>1, <1>2, <1>10 DEF BooksOK, Book
<1>12. PICK d : d = [last |-> lastSequence', applied |-> applied']
  OBVIOUS
<1>13. d \in Book /\ Numbered(d) /\ d.last = lastSequence' /\ d.applied = applied'
  <2>1. CASE gap
    <3>1. lastSequence' = lastSequence /\ applied' = applied
      BY <2>1 DEF ProcessCommand
    <3> QED
      BY <1>10, <1>11, <1>12, <3>1
  <2>2. CASE ~gap
    <3>1. lastSequence' = current.sequence /\ applied' = Append(applied, current)
      BY <2>2 DEF ProcessCommand
    <3>2. d = [last |-> current.sequence, applied |-> Append(b.applied, current)]
      BY <1>11, <1>12, <3>1
    <3>3. current.sequence = b.last + 1
      BY <1>11, <2>2
    <3>4. PICK c \in Command : c = current
      BY <1>2
    <3>5. d \in Book /\ Numbered(d)
      BY <1>11, <3>2, <3>3, <3>4, AppendNumbered
    <3> QED
      BY <1>12, <3>5
  <2> QED
    BY <2>1, <2>2
<1>14. lastSequence' \in Nat /\ applied' \in Seq(Command)
  BY <1>13 DEF Book
<1>15. TypeOK'
  BY <1>1, <1>6, <1>7, <1>9, <1>14 DEF TypeOK
<1>16. LocalOK'
  BY <1>1 DEF LocalOK, Taken
<1>17. Base' = Base
  BY <1>1, BaseSame
<1>18. BooksOK'
  <2>1. Numbered([last |-> lastSequence', applied |-> applied'])
    BY <1>12, <1>13
  <2>2. PICK e : e = Base
    OBVIOUS
  <2>3. e \in Book /\ Numbered(e) /\ Base' = e
    BY <1>1, <1>17, <2>2 DEF BooksOK
  <2> QED
    BY <2>1, <2>3 DEF BooksOK, Numbered, Book, Command
<1>19. Counted'
  <2> SUFFICES ASSUME AssignsSequences PROVE Counted'
    BY DEF Counted
  <2>1. /\ nextSequence = lastSequence + 2 /\ current.sequence = lastSequence + 1
    BY <1>1 DEF Counted, Taken
  <2>2. lastSequence' = lastSequence + 1
    BY <2>1 DEF ProcessCommand
  <2>3. nextSequence' = lastSequence' + 1
    BY <1>1, <1>2, <2>1, <2>2
  <2> QED
    BY <1>1, <1>17, <2>3 DEF Counted, Taken
<1> QED
  BY <1>1, <1>8, <1>15, <1>16, <1>18, <1>19, InsideOK DEF Basic

LEMMA PushEventBasic ==
  ASSUME Basic, PushEvent, InProcess
  PROVE  Basic'
<1>1. /\ TypeOK /\ LocalOK /\ OutsideOK /\ BooksOK /\ Counted /\ EventsInOrder
      /\ pc = "publish" /\ pending # <<>>
      /\ output' = Append(output, Head(pending)) /\ pending' = Tail(pending)
      /\ UNCHANGED <<pc, input, stop, current, nextSequence, lastSequence, applied,
                     journal, stream, file, sent, emitted, delivered, process, snapshot>>
  BY DEF Basic, PushEvent, InProcess, journalVars, disk
<1>2. pending \in Seq(Event) /\ delivered \in Seq(Event) /\ output \in Seq(Event)
  BY <1>1 DEF TypeOK
<1>3. /\ output' \o pending' = output \o pending
      /\ output' \in Seq(Event) /\ pending' \in Seq(Event)
  BY <1>1, <1>2, MoveHead
<1>4. EventsInOrder'
  <2>1. (delivered \o output) \o pending = delivered \o (output \o pending)
    BY <1>2, ConcatAssociative
  <2>2. (delivered \o output') \o pending' = delivered \o (output' \o pending')
    <3>1. PICK d, o, p : d = delivered /\ o = output' /\ p = pending'
      OBVIOUS
    <3>2. d \in Seq(Event) /\ o \in Seq(Event) /\ p \in Seq(Event)
      BY <1>2, <1>3, <3>1
    <3>3. (d \o o) \o p = d \o (o \o p)
      BY <3>2, ConcatAssociative
    <3> QED
      BY <3>1, <3>3
  <2>3. emitted = (delivered \o output') \o pending'
    BY <1>1, <1>3, <2>1, <2>2 DEF EventsInOrder
  <2> QED
    BY <1>1, <2>3 DEF EventsInOrder
<1>5. TypeOK'
  BY <1>1, <1>3 DEF TypeOK
<1>6. LocalOK'
  BY <1>1 DEF LocalOK, Taken
<1>7. Counted'
  <2>1. Base' = Base
    BY <1>1, BaseSame
  <2> QED
    BY <1>1, <2>1 DEF Counted, Taken
<1> QED
  BY <1>1, <1>4, <1>5, <1>6, <1>7, BooksSame, InsideOK DEF Basic

LEMMA ConsumeEventBasic ==
  ASSUME Basic, ConsumeEvent, InProcess
  PROVE  Basic'
<1>1. /\ TypeOK /\ LocalOK /\ OutsideOK /\ BooksOK /\ Counted /\ EventsInOrder
      /\ output # <<>>
      /\ delivered' = Append(delivered, Head(output)) /\ output' = Tail(output)
      /\ UNCHANGED <<pc, input, stop, current, pending, nextSequence, lastSequence, applied,
                     journal, stream, file, sent, emitted, process, snapshot>>
  BY DEF Basic, ConsumeEvent, InProcess, engineVars, journalVars, disk
<1>2. delivered \in Seq(Event) /\ output \in Seq(Event)
  BY <1>1 DEF TypeOK
<1>3. /\ delivered' \o output' = delivered \o output
      /\ delivered' \in Seq(Event) /\ output' \in Seq(Event)
  BY <1>1, <1>2, MoveHead
<1>4. EventsInOrder'
  BY <1>1, <1>3 DEF EventsInOrder
<1>5. TypeOK'
  BY <1>1, <1>3 DEF TypeOK
<1>6. LocalOK'
  BY <1>1 DEF LocalOK, Taken
<1>7. Counted'
  <2>1. Base' = Base
    BY <1>1, BaseSame
  <2> QED
    BY <1>1, <2>1 DEF Counted, Taken
<1> QED
  BY <1>1, <1>4, <1>5, <1>6, <1>7, BooksSame, InsideOK DEF Basic

LEMMA SubmitCommandBasic ==
  ASSUME Basic, NEW sequence \in Sequences(sent + 1), SubmitCommand(sequence), InProcess
  PROVE  Basic'
<1>1. /\ TypeOK /\ LocalOK /\ OutsideOK /\ BooksOK /\ Counted /\ EventsInOrder
      /\ sent < MaxCommands /\ sent' = sent + 1
      /\ input' = Append(input, [n |-> sent + 1, sequence |-> sequence])
      /\ UNCHANGED <<pc, output, stop, current, pending, nextSequence, lastSequence, applied,
                     journal, stream, file, emitted, delivered, process, snapshot>>
  BY DEF Basic, SubmitCommand, InProcess, engineVars, journalVars, disk
<1>2. /\ sent \in Nat /\ MaxCommands \in Nat /\ sent' \in 0 .. MaxCommands
      /\ sent + 1 \in 1 .. MaxCommands /\ input \in Seq(Command) /\ nextSequence \in Nat
  BY <1>1, RunnerAssumption DEF TypeOK
<1>3. PICK c : c = [n |-> sent + 1, sequence |-> sequence]
  OBVIOUS
<1>4. sequence \in 0 .. MaxCommands + 1
  BY <1>1, <1>2 DEF Sequences
<1>5. c \in Command
  BY <1>2, <1>3, <1>4 DEF Command
<1>6. input' \in Seq(Command) /\ Len(input') = Len(input) + 1 /\ Len(input) \in Nat
  BY <1>1, <1>2, <1>3, <1>5
<1>7. TypeOK'
  BY <1>1, <1>2, <1>6 DEF TypeOK
<1>8. LocalOK'
  BY <1>1 DEF LocalOK, Taken
<1>9. Counted'
  <2> SUFFICES ASSUME AssignsSequences PROVE Counted'
    BY DEF Counted
  <2>1. Base' = Base
    BY <1>1, BaseSame
  <2>2. Len(input') + nextSequence' <= sent' + 1
    BY <1>1, <1>2, <1>6 DEF Counted
  <2>4. \A i \in DOMAIN file : file[i].sequence <= sent'
    <3>1. file \in Seq(Command \cup {Torn})
      BY <1>1 DEF TypeOK
    <3>2. \A r \in Command \cup {Torn} : r.sequence \in Nat
      BY CommandTyped DEF Torn
    <3>3. \A i \in DOMAIN file : file[i] \in Command \cup {Torn}
      BY <3>1
    <3>4. \A i \in DOMAIN file : file[i].sequence \in Nat
      BY <3>2, <3>3
    <3>5. \A i \in DOMAIN file : file[i].sequence <= sent
      BY <1>1 DEF Counted
    <3> QED
      BY <1>1, <1>2, <3>4, <3>5
  <2>5. \A i \in DOMAIN stream : stream[i].sequence <= sent'
    <3>1. stream \in Seq(Command)
      BY <1>1 DEF TypeOK
    <3>3. \A i \in DOMAIN stream : stream[i] \in Command
      BY <3>1
    <3>4. \A i \in DOMAIN stream : stream[i].sequence \in Nat
      BY <3>3, CommandTyped
    <3>5. \A i \in DOMAIN stream : stream[i].sequence <= sent
      BY <1>1 DEF Counted
    <3> QED
      BY <1>1, <1>2, <3>4, <3>5
  <2>6. Base'.last <= sent'
    <3>1. Base.last \in Nat /\ Base.last <= sent
      BY <1>1 DEF BooksOK, Book, Counted
    <3> QED
      BY <1>1, <1>2, <2>1, <3>1
  <2> QED
    BY <1>1, <2>2, <2>4, <2>5, <2>6 DEF Counted, Taken
<1>10. EventsInOrder'
  BY <1>1 DEF EventsInOrder
<1> QED
  BY <1>1, <1>7, <1>8, <1>9, <1>10, BooksSame, InsideOK DEF Basic

(* The steps of run() and of its callers that move no data. *)
LEMMA ControlBasic ==
  ASSUME Basic, AbandonPublish \/ Published \/ SetStop \/ JournalThrows, InProcess
  PROVE  Basic'
<1>1. /\ TypeOK /\ LocalOK /\ OutsideOK /\ BooksOK /\ Counted /\ EventsInOrder
      /\ UNCHANGED <<input, output, current, pending, nextSequence, lastSequence, applied,
                     journal, stream, file, sent, emitted, delivered, process, snapshot>>
  BY DEF Basic, AbandonPublish, Published, SetStop, JournalThrows, InProcess, engineVars,
         journalVars, disk
<1>2. \/ pc' = pc /\ stop' = TRUE
      \/ pc = "publish" /\ pc' = "returned" /\ stop' = stop
      \/ pc = "publish" /\ pc' = "poll" /\ pending = <<>> /\ stop' = stop
      \/ pc' = "terminated" /\ stop' = stop
  BY DEF AbandonPublish, Published, SetStop, JournalThrows
<1>3. TypeOK'
  BY <1>1, <1>2 DEF TypeOK
<1>4. process = "running"
  BY DEF InProcess
<1>5. LocalOK'
  BY <1>1, <1>2, <1>4 DEF LocalOK, Taken
<1>6. Counted'
  <2>1. Base' = Base
    BY <1>1, BaseSame
  <2> QED
    BY <1>1, <1>2, <2>1 DEF Counted, Taken
<1>7. EventsInOrder'
  BY <1>1 DEF EventsInOrder
<1> QED
  BY <1>1, <1>3, <1>5, <1>6, <1>7, BooksSame, InsideOK DEF Basic

(* The elements of a concatenation are those of its parts. *)
LEMMA ConcatElements ==
  ASSUME NEW S, NEW a \in Seq(S), NEW b \in Seq(S), NEW i \in DOMAIN (a \o b)
  PROVE  \/ i \in DOMAIN a /\ (a \o b)[i] = a[i]
         \/ /\ i - Len(a) \in DOMAIN b /\ (a \o b)[i] = b[i - Len(a)]
            /\ i > Len(a) /\ Len(a) \in Nat
<1>1. PICK c : c = a \o b
  OBVIOUS
<1>2. /\ c \in Seq(S) /\ Len(c) = Len(a) + Len(b) /\ Len(a) \in Nat /\ Len(b) \in Nat
      /\ \A j \in 1 .. Len(a) + Len(b) : c[j] = IF j <= Len(a) THEN a[j] ELSE b[j - Len(a)]
  BY <1>1, ConcatProperties
<1>3. i \in 1 .. Len(a) + Len(b)
  BY <1>1, <1>2
<1>4. DOMAIN a = 1 .. Len(a) /\ DOMAIN b = 1 .. Len(b)
  OBVIOUS
<1>5. CASE i <= Len(a)
  <2>1. i \in DOMAIN a /\ c[i] = a[i]
    BY <1>2, <1>3, <1>4, <1>5
  <2> QED
    BY <1>1, <2>1
<1>6. CASE ~(i <= Len(a))
  <2>1. i - Len(a) \in DOMAIN b /\ c[i] = b[i - Len(a)] /\ i > Len(a)
    BY <1>2, <1>3, <1>4, <1>6
  <2> QED
    BY <1>1, <1>2, <2>1
<1> QED
  BY <1>5, <1>6

LEMMA StopRunningBasic ==
  ASSUME Basic, StopRunning, InProcess
  PROVE  Basic'
<1>1. /\ TypeOK /\ LocalOK /\ OutsideOK /\ BooksOK /\ Counted /\ EventsInOrder
      /\ pc = "poll" /\ pc' = "returned" /\ file' = file \o stream /\ stream' = <<>>
      /\ UNCHANGED <<input, output, stop, current, pending, nextSequence, lastSequence, applied,
                     journal, sent, emitted, delivered, process, snapshot>>
  BY DEF Basic, StopRunning, InProcess, engineVars, disk
<1>2. PICK R : R = Command \cup {Torn}
  OBVIOUS
<1>3. file \in Seq(R) /\ stream \in Seq(R)
  BY <1>1, <1>2 DEF TypeOK
<1>4. file' \in Seq(R)
  BY <1>1, <1>3
<1>5. TypeOK'
  BY <1>1, <1>2, <1>4 DEF TypeOK
<1>6. LocalOK'
  BY <1>1 DEF LocalOK, Taken, InProcess
<1>7. Counted'
  <2> SUFFICES ASSUME AssignsSequences PROVE Counted'
    BY DEF Counted
  <2>1. Base' = Base
    BY <1>1, BaseSame
  <2>2. ASSUME NEW i \in DOMAIN (file \o stream) PROVE (file \o stream)[i].sequence <= sent
    <3>1. \/ i \in DOMAIN file /\ (file \o stream)[i] = file[i]
          \/ i - Len(file) \in DOMAIN stream /\ (file \o stream)[i] = stream[i - Len(file)]
      BY <1>3, ConcatElements
    <3> QED
      BY <1>1, <3>1 DEF Counted
  <2>3. \A i \in DOMAIN file' : file'[i].sequence <= sent'
    BY <1>1, <2>2
  <2>4. DOMAIN stream' = {}
    BY <1>1
  <2> QED
    BY <1>1, <2>1, <2>3, <2>4 DEF Counted, Taken
<1>8. EventsInOrder'
  BY <1>1 DEF EventsInOrder
<1> QED
  BY <1>1, <1>5, <1>6, <1>7, <1>8, BooksSame, InsideOK DEF Basic

(* A step inside the process keeps the invariant. *)
LEMMA NextBasic ==
  ASSUME Basic, Next, InProcess
  PROVE  Basic'
BY TakeCommandBasic, AppendJournalBasic, ProcessCommandBasic, PushEventBasic, ControlBasic,
   StopRunningBasic, SubmitCommandBasic, ConsumeEventBasic
   DEF Next, Engine

-----------------------------------------------------------------------------
(* The records a process ending in this state has still to write. *)
LEMMA UnwrittenTyped ==
  ASSUME Basic
  PROVE  /\ Unwritten \in Seq(Command) /\ Len(Unwritten) \in Nat
         /\ AssignsSequences => \A i \in DOMAIN Unwritten : Unwritten[i].sequence <= sent
<1>1. /\ stream \in Seq(Command)
      /\ pc = "append" => current \in Command
      /\ AssignsSequences => \A i \in DOMAIN stream : stream[i].sequence <= sent
  BY DEF Basic, TypeOK, LocalOK, Taken, Counted
<1>2. CASE pc = "append" /\ ~BadStream
  <2>1. Unwritten = Append(stream, current)
    BY <1>2 DEF Unwritten
  <2>2. PICK u : u = Append(stream, current)
    OBVIOUS
  <2>3. /\ u \in Seq(Command) /\ Len(u) = Len(stream) + 1 /\ Len(stream) \in Nat
        /\ u[Len(stream) + 1] = current
        /\ \A i \in 1 .. Len(stream) : u[i] = stream[i]
        /\ DOMAIN u = 1 .. Len(stream) + 1 /\ DOMAIN stream = 1 .. Len(stream)
    BY <1>1, <1>2, <2>2
  <2>4. AssignsSequences => current.sequence <= sent
    <3> SUFFICES ASSUME AssignsSequences PROVE current.sequence <= sent
      OBVIOUS
    <3>1. /\ nextSequence = lastSequence + 2 /\ current.sequence = lastSequence + 1
          /\ Len(input) + nextSequence <= sent + 1
      BY <1>2 DEF Basic, Counted, Taken
    <3>2. lastSequence \in Nat /\ Len(input) \in Nat /\ sent \in Nat
      BY RunnerAssumption DEF Basic, TypeOK
    <3> QED
      BY <3>1, <3>2
  <2>5. ASSUME AssignsSequences, NEW i \in DOMAIN u PROVE u[i].sequence <= sent
    <3>1. CASE i = Len(stream) + 1
      BY <2>3, <2>4, <2>5, <3>1
    <3>2. CASE i # Len(stream) + 1
      <4>1. i \in DOMAIN stream /\ u[i] = stream[i]
        BY <2>3, <3>2
      <4> QED
        BY <1>1, <2>5, <4>1
    <3> QED
      BY <3>1, <3>2
  <2>6. Len(u) \in Nat
    BY <2>3
  <2> QED
    BY <2>1, <2>2, <2>3, <2>5, <2>6
<1>3. CASE ~(pc = "append" /\ ~BadStream)
  BY <1>1, <1>3 DEF Unwritten
<1> QED
  BY <1>2, <1>3

LEMMA CrashBasic ==
  ASSUME Basic, NEW whole \in 0 .. Len(Unwritten), NEW torn \in BOOLEAN, Crash(whole, torn)
  PROVE  Basic'
<1>1. /\ TypeOK /\ LocalOK /\ OutsideOK /\ BooksOK /\ Counted /\ EventsInOrder
      /\ process' = "down" /\ header' \in {"absent", "torn", "whole"}
      /\ crashes' = crashes + 1 /\ crashes < MaxCrashes
      /\ UNCHANGED <<pc, input, output, stop, current, pending, nextSequence, lastSequence, applied,
                     journal, stream, sent, emitted, delivered, snapshot, told>>
  BY DEF Basic, Crash, engineVars, OutsideOK
<1>2. PICK R : R = Command \cup {Torn}
  OBVIOUS
<1>3. /\ Unwritten \in Seq(Command) /\ Len(Unwritten) \in Nat
      /\ AssignsSequences => \A i \in DOMAIN Unwritten : Unwritten[i].sequence <= sent
  BY UnwrittenTyped
<1>4. PICK u, t : u = SubSeq(Unwritten, 1, whole) /\ t = (IF torn THEN <<Torn>> ELSE <<>>)
  OBVIOUS
<1>5. file' = (file \o u) \o t
  BY <1>4 DEF Crash
<1>6. /\ u \in Seq(R) /\ DOMAIN u = 1 .. whole /\ whole \in Nat
      /\ \A i \in 1 .. whole : u[i] = Unwritten[i] /\ i \in DOMAIN Unwritten
  <2>1. PICK w : w = Unwritten
    OBVIOUS
  <2>2. w \in Seq(R) /\ whole \in 0 .. Len(w) /\ Len(w) \in Nat
    BY <1>2, <1>3, <2>1
  <2>3. u = SubSeq(w, 1, whole)
    BY <1>4, <2>1
  <2>4. /\ u \in Seq(R) /\ DOMAIN u = 1 .. whole /\ whole \in Nat
        /\ \A i \in 1 .. whole : u[i] = w[i] /\ i \in DOMAIN w
    BY <2>2, <2>3
  <2> QED
    BY <2>1, <2>4
<1>7. t \in Seq(R) /\ file \in Seq(R) /\ \A i \in DOMAIN t : t[i] = Torn
  <2>1. <<Torn>> \in Seq(R) /\ <<>> \in Seq(R)
    BY <1>2
  <2>2. \A i \in DOMAIN <<Torn>> : <<Torn>>[i] = Torn
    OBVIOUS
  <2>3. DOMAIN <<>> = {}
    OBVIOUS
  <2> QED
    BY <1>1, <1>2, <1>4, <2>1, <2>2, <2>3 DEF TypeOK
<1>8. PICK g, f : g = file \o u /\ f = g \o t
  OBVIOUS
<1>9. g \in Seq(R) /\ f \in Seq(R) /\ file' = f
  BY <1>5, <1>6, <1>7, <1>8
<1>10. TypeOK'
  BY <1>1, <1>2, <1>9 DEF TypeOK
<1>11. LocalOK'
  BY <1>1 DEF LocalOK, Taken
<1>12. OutsideOK'
  <2>1. crashes' \in 0 .. MaxCrashes
    BY <1>1, RecoveryAssumption DEF OutsideOK
  <2> QED
    BY <1>1, <2>1 DEF OutsideOK, Book, Command, NoSnapshot
<1>13. Counted'
  <2> SUFFICES ASSUME AssignsSequences PROVE Counted'
    BY DEF Counted
  <2>1. Base' = Base
    BY <1>1, BaseSame
  <2>2. \A i \in DOMAIN g : g[i].sequence <= sent
    <3> SUFFICES ASSUME NEW i \in DOMAIN g PROVE g[i].sequence <= sent
      OBVIOUS
    <3>1. \/ i \in DOMAIN file /\ g[i] = file[i]
          \/ i - Len(file) \in DOMAIN u /\ g[i] = u[i - Len(file)]
      BY <1>6, <1>7, <1>8, ConcatElements
    <3>2. \A j \in DOMAIN u : u[j].sequence <= sent
      BY <1>3, <1>6
    <3> QED
      BY <1>1, <3>1, <3>2 DEF Counted
  <2>3. \A i \in DOMAIN f : f[i].sequence <= sent
    <3> SUFFICES ASSUME NEW i \in DOMAIN f PROVE f[i].sequence <= sent
      OBVIOUS
    <3>1. \/ i \in DOMAIN g /\ f[i] = g[i]
          \/ i - Len(g) \in DOMAIN t /\ f[i] = t[i - Len(g)]
      BY <1>7, <1>8, <1>9, ConcatElements
    <3>2. Torn.sequence <= sent
      BY <1>1, RunnerAssumption DEF Torn, TypeOK
    <3> QED
      BY <1>7, <2>2, <3>1, <3>2
  <2> QED
    BY <1>1, <1>9, <2>1, <2>3 DEF Counted, Taken
<1>14. EventsInOrder'
  BY <1>1 DEF EventsInOrder
<1> QED
  BY <1>1, <1>10, <1>11, <1>12, <1>13, <1>14, BooksSame DEF Basic

LEMMA OutsideBasic ==
  ASSUME Basic, OpenJournal \/ BeginSnapshot \/ ReplaceSnapshot
  PROVE  Basic'
<1>1. /\ TypeOK /\ LocalOK /\ OutsideOK /\ BooksOK /\ Counted /\ EventsInOrder
      /\ UNCHANGED <<pc, input, output, stop, current, pending, nextSequence, lastSequence, applied,
                     journal, stream, file, sent, emitted, delivered, told, crashes>>
  BY DEF Basic, OpenJournal, BeginSnapshot, ReplaceSnapshot, vars, engineVars, journalVars
<1>2. TypeOK' /\ EventsInOrder'
  BY <1>1 DEF TypeOK, EventsInOrder
<1>3. LocalOK'
  BY <1>1 DEF LocalOK, Taken, OpenJournal, BeginSnapshot, ReplaceSnapshot
<1>4. CASE OpenJournal \/ BeginSnapshot
  <2>1. snapshot' = snapshot
    BY <1>4 DEF OpenJournal, BeginSnapshot, disk
  <2>2. OutsideOK'
    BY <1>1, <1>4 DEF OutsideOK, OpenJournal, BeginSnapshot, disk, Book, Command, NoSnapshot
  <2>3. Base' = Base
    BY <2>1, BaseSame
  <2>4. Counted'
    BY <1>1, <2>3 DEF Counted, Taken
  <2> QED
    BY <1>1, <1>2, <1>3, <2>1, <2>2, <2>4, BooksSame DEF Basic
<1>5. CASE ReplaceSnapshot
  <2>1. PICK b : b = [last |-> lastSequence, applied |-> applied]
    OBVIOUS
  <2>2. b \in Book /\ Numbered(b) /\ b.last = lastSequence /\ b # NoSnapshot
    BY <1>1, <2>1 DEF BooksOK, Book, TypeOK, NoSnapshot
  <2>3. snapshot' = b /\ process' = "saved" /\ header' = header
    BY <1>5, <2>1 DEF ReplaceSnapshot
  <2>4. Base' = b
    <3>1. snapshot' # NoSnapshot
      BY <2>2, <2>3
    <3>2. Base' = [last |-> snapshot'.last, applied |-> snapshot'.applied]
      BY <3>1 DEF Base, ReadSnapshot, NoSnapshot
    <3> QED
      BY <2>1, <2>3, <3>2
  <2>5. OutsideOK'
    BY <1>1, <2>2, <2>3 DEF OutsideOK, Book, Command
  <2>6. BooksOK'
    BY <1>1, <2>1, <2>2, <2>4 DEF BooksOK, Numbered, Book, Command
  <2>7. Counted'
    <3> SUFFICES ASSUME AssignsSequences PROVE Counted'
      BY DEF Counted
    <3>1. nextSequence = lastSequence + 1 /\ Len(input) + nextSequence <= sent + 1
      BY <1>1, <1>5 DEF Counted, LocalOK, Taken, ReplaceSnapshot
    <3>2. lastSequence \in Nat /\ Len(input) \in Nat /\ sent \in Nat
      BY <1>1, RunnerAssumption DEF TypeOK
    <3>3. lastSequence <= sent
      BY <3>1, <3>2
    <3> QED
      BY <1>1, <2>2, <2>4, <3>3 DEF Counted, Taken
  <2> QED
    BY <1>2, <1>3, <2>5, <2>6, <2>7 DEF Basic
<1> QED
  BY <1>4, <1>5

(* The book an application recovers is a book, whatever the crashes left. *)
LEMMA RecoveredBook ==
  ASSUME Basic
  PROVE  /\ Recovered \in Book /\ Numbered(Recovered)
         /\ AssignsSequences => Recovered.last <= sent
<1>1. /\ file \in Seq(Command \cup {Torn}) /\ Base \in Book /\ Numbered(Base)
      /\ sent \in Nat /\ MaxCommands \in Nat /\ sent <= MaxCommands
  BY RunnerAssumption DEF Basic, TypeOK, BooksOK
<1>2. PICK f, b : f = file /\ b = Base
  OBVIOUS
<1>3. f \in Seq(Command \cup {Torn}) /\ b \in Book /\ Numbered(b) /\ b.last \in Nat
  BY <1>1, <1>2 DEF Book
<1>4. PICK V : V = ValidRecords(f)
  OBVIOUS
<1>5. V \in Seq(Command) /\ Len(V) \in 0 .. Len(f) /\ V = SubSeq(f, 1, Len(V))
  BY <1>3, <1>4, ValidPrefix
<1>6. \A i \in DOMAIN V : V[i] = f[i] /\ i \in DOMAIN f /\ V[i] \in Command
  BY <1>3, <1>5
<1>7. Recovered = Consumed(b, V, b.last)
  BY <1>2, <1>4 DEF Recovered
<1>8. PICK bound \in Int : /\ b.last <= bound
                           /\ \A i \in DOMAIN V : V[i].sequence <= bound
                           /\ AssignsSequences => bound = sent
  <2>1. CASE AssignsSequences
    BY <1>1, <1>2, <1>6, <2>1 DEF Basic, Counted
  <2>2. CASE ~AssignsSequences
    <3> DEFINE m == b.last + MaxCommands + 1
    <3>1. m \in Int /\ b.last <= m
      BY <1>1, <1>3
    <3>2. ASSUME NEW i \in DOMAIN V PROVE V[i].sequence <= m
      <4>1. V[i].sequence \in 0 .. MaxCommands + 1
        BY <1>6 DEF Command
      <4> QED
        BY <1>1, <1>3, <4>1
    <3> HIDE DEF m
    <3> QED
      BY <2>2, <3>1, <3>2
  <2> QED
    BY <2>1, <2>2
<1>9. /\ Consumed(b, V, b.last) \in Book
      /\ Numbered(Consumed(b, V, b.last))
      /\ Consumed(b, V, b.last).last <= bound
  BY <1>3, <1>5, <1>8, ConsumedBook
<1> QED
  BY <1>7, <1>8, <1>9

LEMMA RestartBasic ==
  ASSUME Basic, Restart
  PROVE  Basic'
<1>1. /\ TypeOK /\ OutsideOK /\ BooksOK /\ Counted
      /\ pc' = "poll" /\ input' = <<>> /\ output' = <<>> /\ stop' = FALSE
      /\ current' = NoCommand /\ pending' = <<>> /\ emitted' = <<>> /\ delivered' = <<>>
      /\ process' = "open" /\ stream' = <<>>
      /\ UNCHANGED <<journal, sent, header, snapshot, told, crashes>>
  BY DEF Basic, Restart, disk
<1>2. PICK b : b = Recovered
  OBVIOUS
<1>3. b \in Book /\ Numbered(b) /\ (AssignsSequences => b.last <= sent)
  BY <1>2, RecoveredBook
<1>4. lastSequence' = b.last /\ applied' = b.applied /\ nextSequence' = b.last + 1
  BY <1>2 DEF Restart, FirstSequence
<1>5. b.last \in Nat /\ b.applied \in Seq(Command)
  BY <1>3 DEF Book
<1>6. PICK R, f : R = Command \cup {Torn} /\ f = file
  OBVIOUS
<1>7. f \in Seq(R) /\ Len(f) \in Nat
  BY <1>1, <1>6 DEF TypeOK
<1>8. PICK v : v = ValidBytes(f)
  OBVIOUS
<1>9. v \in 0 .. Len(f)
  BY <1>6, <1>7, <1>8, ValidPrefix DEF ValidBytes
<1>10. PICK g : g = SubSeq(f, 1, v)
  OBVIOUS
<1>11. g \in Seq(R) /\ \A i \in DOMAIN g : g[i] = f[i] /\ i \in DOMAIN f
  BY <1>7, <1>9, <1>10
<1>12. file' = g
  BY <1>6, <1>8, <1>10 DEF Restart
<1>13. TypeOK'
  <2>1. <<>> \in Seq(Command) /\ <<>> \in Seq(Event)
    OBVIOUS
  <2>2. /\ input' \in Seq(Command) /\ output' \in Seq(Event) /\ pending' \in Seq(Event)
        /\ stream' \in Seq(Command) /\ emitted' \in Seq(Event) /\ delivered' \in Seq(Event)
    BY <1>1, <2>1
  <2>3. stop' \in BOOLEAN
    BY <1>1
  <2>4. lastSequence' \in Nat /\ nextSequence' \in Nat /\ applied' \in Seq(Command)
    BY <1>4, <1>5
  <2>5. file' \in Seq(Command \cup {Torn})
    BY <1>6, <1>11, <1>12
  <2>6. journal' \in JournalModes \cup {"failed"} /\ sent' \in 0 .. MaxCommands
    BY <1>1 DEF TypeOK
  <2>7. current' \in Command \cup {NoCommand} /\ pc' = "poll"
    BY <1>1
  <2> QED
    BY <2>2, <2>3, <2>4, <2>5, <2>6, <2>7 DEF TypeOK
<1>14. LocalOK'
  BY <1>1 DEF LocalOK, Taken
<1>15. OutsideOK'
  BY <1>1 DEF OutsideOK, Book, Command, NoSnapshot
<1>16. Base' = Base
  BY <1>1, BaseSame
<1>17. BooksOK'
  <2>1. Numbered([last |-> lastSequence', applied |-> applied'])
    BY <1>3, <1>4 DEF Numbered
  <2>2. PICK e : e = Base
    OBVIOUS
  <2>3. e \in Book /\ Numbered(e) /\ Base' = e
    BY <1>1, <1>16, <2>2 DEF BooksOK
  <2> QED
    BY <2>1, <2>3 DEF BooksOK, Numbered, Book, Command
<1>18. Counted'
  <2> SUFFICES ASSUME AssignsSequences PROVE Counted'
    BY DEF Counted
  <2>1. Len(input') + nextSequence' <= sent' + 1
    <3>1. Len(input') = 0 /\ sent \in Nat
      BY <1>1, RunnerAssumption DEF TypeOK
    <3> QED
      BY <1>1, <1>3, <1>4, <1>5, <3>1
  <2>2. \A i \in DOMAIN file' : file'[i].sequence <= sent'
    BY <1>1, <1>6, <1>11, <1>12 DEF Counted
  <2>3. DOMAIN stream' = {}
    BY <1>1
  <2>4. nextSequence' = lastSequence' + IF Taken' THEN 2 ELSE 1
    BY <1>1, <1>4 DEF Taken
  <2>5. ~Taken'
    BY <1>1 DEF Taken
  <2> QED
    BY <1>1, <1>16, <2>1, <2>2, <2>3, <2>4, <2>5 DEF Counted
<1>19. EventsInOrder'
  BY <1>1 DEF EventsInOrder
<1> QED
  BY <1>13, <1>14, <1>15, <1>17, <1>18, <1>19 DEF Basic

LEMMA BasicInit ==
  ASSUME RecoveryInit
  PROVE  Basic
<1>1. /\ pc = "poll" /\ input = <<>> /\ output = <<>> /\ stop = FALSE
      /\ current = NoCommand /\ pending = <<>>
      /\ nextSequence = 1 /\ lastSequence = 0 /\ applied = <<>>
      /\ journal \in JournalModes /\ stream = <<>> /\ file = <<>>
      /\ sent = 0 /\ emitted = <<>> /\ delivered = <<>>
      /\ process = "open" /\ header = "absent" /\ snapshot = NoSnapshot
      /\ told = {} /\ crashes = 0
  BY DEF RecoveryInit, Init
<1>2. TypeOK
  <2>1. <<>> \in Seq(Command) /\ <<>> \in Seq(Event) /\ <<>> \in Seq(Command \cup {Torn})
    OBVIOUS
  <2>2. /\ input \in Seq(Command) /\ output \in Seq(Event) /\ pending \in Seq(Event)
        /\ stream \in Seq(Command) /\ emitted \in Seq(Event) /\ delivered \in Seq(Event)
        /\ applied \in Seq(Command) /\ file \in Seq(Command \cup {Torn})
    BY <1>1, <2>1
  <2>3. stop \in BOOLEAN
    BY <1>1
  <2>4. current \in Command \cup {NoCommand}
    BY <1>1
  <2>5. nextSequence \in Nat /\ lastSequence \in Nat /\ sent \in 0 .. MaxCommands
    BY <1>1, RunnerAssumption
  <2> QED
    BY <1>1, <2>2, <2>3, <2>4, <2>5 DEF TypeOK
<1>3. LocalOK /\ EventsInOrder
  BY <1>1 DEF LocalOK, Taken, EventsInOrder
<1>4. OutsideOK
  BY <1>1, RecoveryAssumption DEF OutsideOK
<1>5. Base = [last |-> 0, applied |-> <<>>]
  BY <1>1 DEF Base, EmptyBook
<1>6. PICK b : b = [last |-> 0, applied |-> <<>>]
  OBVIOUS
<1>7. b \in Book /\ Numbered(b) /\ b.last = 0
  <2>1. <<>> \in Seq(Command) /\ Len(<<>>) = 0 /\ DOMAIN <<>> = {}
    OBVIOUS
  <2>2. b.last = 0 /\ b.applied = <<>> /\ b \in Book
    BY <1>6, <2>1 DEF Book
  <2> QED
    BY <2>1, <2>2 DEF Numbered
<1>8. BooksOK
  BY <1>1, <1>5, <1>6, <1>7 DEF BooksOK
<1>9. Counted
  <2>1. DOMAIN <<>> = {} /\ Len(<<>>) = 0
    OBVIOUS
  <2> QED
    BY <1>1, <1>5, <1>6, <1>7, <2>1 DEF Counted, Taken
<1> QED
  BY <1>2, <1>3, <1>4, <1>8, <1>9 DEF Basic

LEMMA BasicStep ==
  ASSUME Basic, [RecoveryNext]_allVars
  PROVE  Basic'
<1>1. CASE Next /\ InProcess
  BY <1>1, NextBasic
<1>2. CASE OpenJournal \/ BeginSnapshot \/ ReplaceSnapshot
  BY <1>2, OutsideBasic
<1>3. CASE \E whole \in 0 .. Len(Unwritten), torn \in BOOLEAN : Crash(whole, torn)
  BY <1>3, CrashBasic
<1>4. CASE Restart
  BY <1>4, RestartBasic
<1>5. CASE UNCHANGED allVars
  <2>1. UNCHANGED <<pc, input, output, stop, current, pending, nextSequence, lastSequence, applied,
                    journal, stream, file, sent, emitted, delivered, process, header, snapshot,
                    told, crashes>>
    BY <1>5 DEF allVars, vars, engineVars, journalVars, recoveryVars, disk
  <2>2. Base' = Base
    BY <2>1, BaseSame
  <2>3. TypeOK' /\ EventsInOrder' /\ LocalOK'
    BY <2>1 DEF Basic, TypeOK, EventsInOrder, LocalOK, Taken
  <2>4. OutsideOK'
    BY <2>1 DEF Basic, OutsideOK, Book, Command, NoSnapshot
  <2>5. BooksOK'
    BY <2>1, BooksSame DEF Basic
  <2>6. Counted'
    BY <2>1, <2>2 DEF Basic, Counted, Taken
  <2> QED
    BY <2>3, <2>4, <2>5, <2>6 DEF Basic
<1> QED
  BY <1>1, <1>2, <1>3, <1>4, <1>5 DEF RecoveryNext

(* The types, the numbering of the books and the stream of events, through
   every crash and restart and for either runner. *)
THEOREM AlwaysBasic == RecoverySpec => []Basic
<1>1. RecoveryInit => Basic
  BY BasicInit
<1>2. Basic /\ [RecoveryNext]_allVars => Basic'
  BY BasicStep
<1> QED
  BY <1>1, <1>2, PTL DEF RecoverySpec

(* What the consumer received, what is queued and what run() has still to push
   are the book's events in order, however often the output was full and
   wherever the process crashed or was stopped. *)
THEOREM EventsAlwaysInOrder == RecoverySpec => []EventsInOrder
<1>1. Basic => EventsInOrder
  BY DEF Basic
<1> QED
  BY <1>1, AlwaysBasic, PTL

(* The book never refuses a command that GatewayEngineRunner numbered, not
   even the first one after a recovery. *)
THEOREM NeverAGap == RecoverySpec => []NoGaps
<1>1. Basic => NoGaps
  <2> SUFFICES ASSUME Basic, AssignsSequences, pc \in {"poll", "publish", "returned"}
               PROVE  lastSequence = nextSequence - 1 /\ Len(applied) = lastSequence
    BY DEF NoGaps
  <2>1. nextSequence = lastSequence + 1 /\ lastSequence \in Nat
    BY DEF Basic, Counted, Taken, TypeOK
  <2>2. lastSequence = Len(applied)
    BY DEF Basic, BooksOK, Numbered
  <2> QED
    BY <2>1, <2>2
<1> QED
  BY <1>1, AlwaysBasic, PTL

-----------------------------------------------------------------------------
(* The second invariant, for GatewayEngineRunner: what the journal holds.  The
   records W of a journal are kept for the history A and a snapshot taken at
   sequence k when they are commands of A in ascending order, without a gap
   from the snapshot on. *)
Prefix(A, m) == [last |-> m, applied |-> SubSeq(A, 1, m)]

LastOf(W) == IF W = <<>> THEN 0 ELSE W[Len(W)].sequence

(* How far the snapshot and the records reach. *)
Reach(W, k) == IF LastOf(W) > k THEN LastOf(W) ELSE k

Faithful(W, A) == \A i \in DOMAIN W : W[i].sequence \in DOMAIN A /\ W[i] = A[W[i].sequence]

Ascending(W) == \A i, j \in DOMAIN W : i < j => W[i].sequence < W[j].sequence

Linked(W, k) ==
  \A i \in DOMAIN W : W[i].sequence > k + 1 => i > 1 /\ W[i].sequence = W[i - 1].sequence + 1

Kept(W, A, k) == Faithful(W, A) /\ Ascending(W) /\ Linked(W, k)

LEMMA LastTyped ==
  ASSUME NEW W \in Seq(Command), NEW A \in Seq(Command), Faithful(W, A)
  PROVE  LastOf(W) \in 0 .. Len(A) /\ Len(A) \in Nat
<1>1. Len(A) \in Nat /\ DOMAIN A = 1 .. Len(A)
  OBVIOUS
<1>2. CASE W = <<>>
  BY <1>1, <1>2 DEF LastOf
<1>3. CASE W # <<>>
  <2>1. Len(W) \in DOMAIN W
    BY <1>3
  <2>2. W[Len(W)].sequence \in DOMAIN A
    BY <2>1 DEF Faithful
  <2> QED
    BY <1>1, <1>3, <2>2 DEF LastOf
<1> QED
  BY <1>2, <1>3

LEMMA ReachTyped ==
  ASSUME NEW W \in Seq(Command), NEW A \in Seq(Command), Faithful(W, A), NEW k \in 0 .. Len(A)
  PROVE  Reach(W, k) \in k .. Len(A) /\ k \in Nat /\ Len(A) \in Nat
BY LastTyped DEF Reach

LEMMA PrefixStep ==
  ASSUME NEW A \in Seq(Command), NEW m \in 0 .. Len(A), NEW c \in Command,
         NEW after \in Int, after <= m
  PROVE  /\ c.sequence <= m => Step(Prefix(A, m), c, after) = Prefix(A, m)
         /\ c.sequence = m + 1 /\ m + 1 <= Len(A) /\ c = A[m + 1]
              => Step(Prefix(A, m), c, after) = Prefix(A, m + 1)
<1>1. c.sequence \in Nat /\ m \in Nat /\ Len(A) \in Nat
  BY CommandTyped
<1>2. PICK b : b = Prefix(A, m)
  OBVIOUS
<1>3. b.last = m /\ b.applied = SubSeq(A, 1, m)
  BY <1>2 DEF Prefix
<1>4. c.sequence <= m => Step(b, c, after) = b
  BY <1>1, <1>3 DEF Step, Processed
<1>5. ASSUME c.sequence = m + 1, m + 1 <= Len(A), c = A[m + 1]
      PROVE  Step(b, c, after) = Prefix(A, m + 1)
  <2>1. Step(b, c, after) = [last |-> m + 1, applied |-> Append(SubSeq(A, 1, m), c)]
    BY <1>1, <1>3, <1>5 DEF Step, Processed
  <2>2. Append(SubSeq(A, 1, m), c) = SubSeq(A, 1, m + 1)
    <3>1. PICK x, y : x = Append(SubSeq(A, 1, m), c) /\ y = SubSeq(A, 1, m + 1)
      OBVIOUS
    <3>2. PICK z : z = SubSeq(A, 1, m)
      OBVIOUS
    <3>3. z \in Seq(Command) /\ Len(z) = m /\ \A i \in 1 .. m : z[i] = A[i]
      BY <1>1, <3>2
    <3>4. /\ x \in Seq(Command) /\ Len(x) = m + 1 /\ x[m + 1] = c
          /\ \A i \in 1 .. m : x[i] = z[i]
      BY <3>1, <3>2, <3>3
    <3>5. y \in Seq(Command) /\ Len(y) = m + 1 /\ \A i \in 1 .. m + 1 : y[i] = A[i]
      BY <1>1, <1>5, <3>1
    <3>6. \A i \in 1 .. m + 1 : x[i] = y[i]
      BY <1>1, <1>5, <3>3, <3>4, <3>5
    <3>7. x = y
      BY <3>4, <3>5, <3>6
    <3> QED
      BY <3>1, <3>7
  <2> QED
    BY <2>1, <2>2 DEF Prefix
<1> QED
  BY <1>2, <1>4, <1>5

(* A replay from the snapshot, skipping what the snapshot has or not, yields
   the history as far as the records reach. *)
LEMMA ReplayReaches ==
  ASSUME NEW V \in Seq(Command), NEW A \in Seq(Command), NEW k \in 0 .. Len(A),
         Kept(V, A, k), NEW after \in Int, after <= k
  PROVE  Consumed(Prefix(A, k), V, after) = Prefix(A, Reach(V, k))
<1>1. PICK h : /\ Goes(h, Prefix(A, k), V, after)
               /\ Consumed(Prefix(A, k), V, after) = h[Len(V)]
  BY ConsumedGoes
<1>2. /\ Len(V) \in Nat /\ DOMAIN V = 1 .. Len(V) /\ Len(A) \in Nat /\ k \in Nat
      /\ DOMAIN A = 1 .. Len(A)
  OBVIOUS
<1>3. \A i \in 1 .. Len(V) : V[i] \in Command /\ V[i].sequence \in 1 .. Len(A) /\ V[i] = A[V[i].sequence]
  BY <1>2 DEF Kept, Faithful
<1> DEFINE At(i) == IF i = 0 THEN k ELSE IF V[i].sequence > k THEN V[i].sequence ELSE k
           S == {n \in Nat : n <= Len(V) => h[n] = Prefix(A, At(n))}
<1>4. 0 \in S
  BY <1>1 DEF Goes
<1>5. ASSUME NEW n \in S PROVE n + 1 \in S
  <2> SUFFICES ASSUME n + 1 <= Len(V) PROVE h[n + 1] = Prefix(A, At(n + 1))
    OBVIOUS
  <2>1. n \in Nat /\ n + 1 \in 1 .. Len(V) /\ h[n] = Prefix(A, At(n)) /\ (n + 1) - 1 = n
    BY <1>2
  <2>2. PICK m, c : m = At(n) /\ c = V[n + 1]
    OBVIOUS
  <2>3. h[n + 1] = Step(Prefix(A, m), c, after)
    BY <1>1, <2>1, <2>2 DEF Goes
  <2>4. c \in Command /\ c.sequence \in 1 .. Len(A) /\ c = A[c.sequence]
    BY <1>3, <2>1, <2>2
  <2>5. n # 0 => n \in 1 .. Len(V) /\ V[n].sequence \in 1 .. Len(A) /\ V[n].sequence < c.sequence
    <3> SUFFICES ASSUME n # 0
                 PROVE  n \in 1 .. Len(V) /\ V[n].sequence \in 1 .. Len(A) /\ V[n].sequence < c.sequence
      OBVIOUS
    <3>1. n \in 1 .. Len(V) /\ n < n + 1
      BY <1>2, <2>1
    <3> QED
      BY <1>2, <1>3, <2>1, <2>2, <3>1 DEF Kept, Ascending
  <2>6. m \in 0 .. Len(A) /\ m >= k
    BY <1>2, <2>2, <2>5
  <2>7. after <= m
    BY <1>2, <2>6
  <2>8. CASE c.sequence <= k
    <3>1. m = k
      BY <1>2, <2>2, <2>4, <2>5, <2>8
    <3>2. At(n + 1) = k
      BY <1>2, <2>1, <2>2, <2>4, <2>8
    <3>3. Step(Prefix(A, m), c, after) = Prefix(A, m)
      BY <2>4, <2>6, <2>7, <2>8, <3>1, PrefixStep
    <3> QED
      BY <2>3, <3>1, <3>2, <3>3
  <2>9. CASE c.sequence > k
    <3>1. At(n + 1) = c.sequence
      BY <1>2, <2>1, <2>2, <2>4, <2>9
    <3>2. c.sequence = m + 1
      <4>1. CASE c.sequence = k + 1
        <5>1. m = k
          BY <1>2, <2>2, <2>4, <2>5, <4>1
        <5> QED
          BY <4>1, <5>1
      <4>2. CASE c.sequence # k + 1
        <5>1. c.sequence > k + 1
          BY <1>2, <2>4, <2>9, <4>2
        <5>2. n + 1 > 1 /\ c.sequence = V[n].sequence + 1
          <6>1. n + 1 \in DOMAIN V /\ V[n + 1].sequence > k + 1
            BY <1>2, <2>1, <2>2, <5>1
          <6>2. n + 1 > 1 /\ V[n + 1].sequence = V[(n + 1) - 1].sequence + 1
            BY <6>1 DEF Kept, Linked
          <6> QED
            BY <2>1, <2>2, <6>2
        <5>3. n # 0
          BY <2>1, <5>2
        <5>4. m = V[n].sequence
          BY <1>2, <2>2, <2>5, <5>1, <5>2, <5>3
        <5> QED
          BY <5>2, <5>4
      <4> QED
        BY <4>1, <4>2
    <3>3. Step(Prefix(A, m), c, after) = Prefix(A, m + 1)
      <4>1. m + 1 <= Len(A) /\ c = A[m + 1]
        BY <1>2, <2>4, <3>2
      <4> QED
        BY <2>4, <2>6, <2>7, <3>2, <4>1, PrefixStep
    <3> QED
      BY <2>3, <3>1, <3>2, <3>3
  <2> QED
    BY <1>2, <2>4, <2>8, <2>9
<1>6. S = Nat
  <2>1. S \in SUBSET Nat
    OBVIOUS
  <2> HIDE DEF S
  <2> QED
    BY <1>4, <1>5, <2>1, NaturalInduction
<1>7. h[Len(V)] = Prefix(A, At(Len(V)))
  BY <1>2, <1>6
<1>8. At(Len(V)) = Reach(V, k)
  <2>1. CASE V = <<>>
    <3>1. Len(V) = 0
      BY <2>1
    <3> QED
      BY <1>2, <2>1, <3>1 DEF Reach, LastOf
  <2>2. CASE V # <<>>
    <3>1. Len(V) # 0
      BY <2>2
    <3> QED
      BY <2>2, <3>1 DEF Reach, LastOf
  <2> QED
    BY <2>1, <2>2
<1> QED
  BY <1>1, <1>7, <1>8

(* A prefix of the records is kept as well. *)
LEMMA KeptPrefix ==
  ASSUME NEW W \in Seq(Command), NEW A, NEW k, Kept(W, A, k), NEW n \in 0 .. Len(W)
  PROVE  SubSeq(W, 1, n) \in Seq(Command) /\ Kept(SubSeq(W, 1, n), A, k)
<1>1. PICK V : V = SubSeq(W, 1, n)
  OBVIOUS
<1>2. /\ V \in Seq(Command) /\ DOMAIN V = 1 .. n /\ n \in Nat /\ Len(W) \in Nat
      /\ DOMAIN W = 1 .. Len(W) /\ n <= Len(W) /\ \A i \in 1 .. n : V[i] = W[i]
  BY <1>1
<1>3. \A i \in DOMAIN V : i \in DOMAIN W /\ V[i] = W[i]
  BY <1>2
<1>4. \A i \in DOMAIN V : i > 1 => V[i - 1] = W[i - 1]
  BY <1>2
<1>5. Kept(V, A, k)
  <2>1. Faithful(V, A) /\ Ascending(V)
    BY <1>3 DEF Kept, Faithful, Ascending
  <2>2. Linked(V, k)
    BY <1>3, <1>4 DEF Kept, Linked
  <2> QED
    BY <2>1, <2>2 DEF Kept
<1> QED
  BY <1>1, <1>2, <1>5

(* A longer history, and a snapshot of all of it, keep the records. *)
LEMMA KeptLonger ==
  ASSUME NEW W \in Seq(Command), NEW A \in Seq(Command), NEW k, Kept(W, A, k), NEW c \in Command
  PROVE  Kept(W, Append(A, c), k)
<1>1. PICK B : B = Append(A, c)
  OBVIOUS
<1>2. \A j \in DOMAIN A : j \in DOMAIN B /\ B[j] = A[j]
  BY <1>1
<1>3. Kept(W, B, k)
  BY <1>2 DEF Kept, Faithful
<1> QED
  BY <1>1, <1>3

LEMMA KeptSnapshot ==
  ASSUME NEW W \in Seq(Command), NEW A \in Seq(Command), NEW k, Kept(W, A, k)
  PROVE  Kept(W, A, Len(A)) /\ Reach(W, Len(A)) = Len(A)
<1>1. Len(A) \in Nat /\ DOMAIN A = 1 .. Len(A)
  OBVIOUS
<1>2. \A i \in DOMAIN W : ~(W[i].sequence > Len(A) + 1)
  BY <1>1 DEF Kept, Faithful
<1>3. LastOf(W) \in 0 .. Len(A)
  BY LastTyped DEF Kept
<1>4. Linked(W, Len(A))
  BY <1>2 DEF Linked
<1>5. Reach(W, Len(A)) = Len(A)
  BY <1>1, <1>3 DEF Reach
<1> QED
  BY <1>4, <1>5 DEF Kept

(* The next command of the history, journalled. *)
LEMMA KeptAppend ==
  ASSUME NEW W \in Seq(Command), NEW A \in Seq(Command), NEW k \in 0 .. Len(A), Kept(W, A, k),
         Reach(W, k) = Len(A), NEW c \in Command, c.sequence = Len(A) + 1
  PROVE  /\ Append(W, c) \in Seq(Command)
         /\ Kept(Append(W, c), Append(A, c), k)
         /\ Reach(Append(W, c), k) = Len(A) + 1
<1>1. PICK B, V : B = Append(A, c) /\ V = Append(W, c)
  OBVIOUS
<1>2. /\ B \in Seq(Command) /\ V \in Seq(Command) /\ Len(A) \in Nat /\ Len(W) \in Nat /\ k \in Nat
      /\ k <= Len(A)
      /\ DOMAIN A = 1 .. Len(A) /\ DOMAIN W = 1 .. Len(W)
      /\ DOMAIN B = 1 .. Len(A) + 1 /\ DOMAIN V = 1 .. Len(W) + 1 /\ Len(V) = Len(W) + 1
      /\ B[Len(A) + 1] = c /\ V[Len(W) + 1] = c
  BY <1>1
<1>3. /\ \A j \in DOMAIN A : B[j] = A[j]
      /\ \A i \in DOMAIN W : V[i] = W[i]
  BY <1>1
<1>4. \A i \in DOMAIN W : /\ V[i].sequence \in DOMAIN A /\ V[i] = A[V[i].sequence]
                          /\ V[i].sequence < c.sequence
  BY <1>2, <1>3 DEF Kept, Faithful
<1>5. \A i \in DOMAIN V : i \in DOMAIN W \/ i = Len(W) + 1
  BY <1>2
<1>6. Faithful(V, B)
  <2> SUFFICES ASSUME NEW i \in DOMAIN V
               PROVE  V[i].sequence \in DOMAIN B /\ V[i] = B[V[i].sequence]
    BY DEF Faithful
  <2>1. CASE i \in DOMAIN W
    <3>1. V[i].sequence \in DOMAIN A /\ V[i] = A[V[i].sequence]
      BY <1>4, <2>1
    <3>2. V[i].sequence \in DOMAIN B
      BY <1>2, <3>1
    <3> QED
      BY <1>3, <3>1, <3>2
  <2>2. CASE i = Len(W) + 1
    BY <1>2, <2>2
  <2> QED
    BY <1>5, <2>1, <2>2
<1>7. Ascending(V)
  <2> SUFFICES ASSUME NEW i \in DOMAIN V, NEW j \in DOMAIN V, i < j
               PROVE  V[i].sequence < V[j].sequence
    BY DEF Ascending
  <2>1. i \in DOMAIN W
    BY <1>2
  <2>2. CASE j \in DOMAIN W
    BY <1>3, <2>1, <2>2 DEF Kept, Ascending
  <2>3. CASE j = Len(W) + 1
    BY <1>2, <1>4, <2>1, <2>3
  <2> QED
    BY <1>5, <2>2, <2>3
<1>8. Linked(V, k)
  <2> SUFFICES ASSUME NEW i \in DOMAIN V, V[i].sequence > k + 1
               PROVE  i > 1 /\ V[i].sequence = V[i - 1].sequence + 1
    BY DEF Linked
  <2>1. CASE i \in DOMAIN W
    <3>1. i > 1 /\ W[i].sequence = W[i - 1].sequence + 1
      BY <1>3, <2>1 DEF Kept, Linked
    <3>2. i - 1 \in DOMAIN W
      BY <1>2, <2>1, <3>1
    <3> QED
      BY <1>3, <2>1, <3>1, <3>2
  <2>2. CASE i = Len(W) + 1
    <3>1. Len(A) > k
      BY <1>2, <2>2
    <3>2. LastOf(W) = Len(A) /\ LastOf(W) # 0
      <4>1. PICK l, a : l = LastOf(W) /\ a = Len(A)
        OBVIOUS
      <4>2. (IF l > k THEN l ELSE k) = a
        BY <4>1 DEF Reach
      <4>3. a \in Nat /\ k \in Nat /\ a > k
        BY <1>2, <3>1, <4>1
      <4>4. l = a /\ a # 0
        BY <4>2, <4>3
      <4> QED
        BY <4>1, <4>4
    <3>3. W # <<>> /\ W[Len(W)].sequence = Len(A)
      BY <3>2 DEF LastOf
    <3>4. Len(W) \in DOMAIN W
      BY <3>3
    <3>5. V[i - 1] = W[Len(W)] /\ i > 1
      BY <1>2, <1>3, <2>2, <3>4
    <3> QED
      BY <1>2, <2>2, <3>3, <3>5
  <2> QED
    BY <1>5, <2>1, <2>2
<1>9. Reach(V, k) = Len(A) + 1
  <2>1. V # <<>>
    BY <1>2
  <2>2. LastOf(V) = Len(A) + 1
    BY <1>2, <2>1 DEF LastOf
  <2>3. PICK a : a = Len(A)
    OBVIOUS
  <2>4. Reach(V, k) = IF a + 1 > k THEN a + 1 ELSE k
    BY <2>2, <2>3 DEF Reach
  <2>5. a \in Nat /\ k \in Nat /\ k <= a
    BY <1>2, <2>3
  <2>6. Reach(V, k) = a + 1
    BY <2>4, <2>5
  <2> QED
    BY <2>3, <2>6
<1> QED
  BY <1>1, <1>2, <1>6, <1>7, <1>8, <1>9 DEF Kept

(* After a recovery the records are kept for the history they reach. *)
LEMMA KeptRecovered ==
  ASSUME NEW V \in Seq(Command), NEW A \in Seq(Command), NEW k \in 0 .. Len(A), Kept(V, A, k)
  PROVE  /\ SubSeq(A, 1, Reach(V, k)) \in Seq(Command)
         /\ Len(SubSeq(A, 1, Reach(V, k))) = Reach(V, k)
         /\ Kept(V, SubSeq(A, 1, Reach(V, k)), k)
<1>1. PICK m : m = Reach(V, k)
  OBVIOUS
<1>2. m \in k .. Len(A) /\ k \in Nat /\ Len(A) \in Nat
  BY <1>1, ReachTyped DEF Kept
<1>3. PICK B : B = SubSeq(A, 1, m)
  OBVIOUS
<1>4. /\ B \in Seq(Command) /\ Len(B) = m /\ DOMAIN B = 1 .. m /\ \A j \in 1 .. m : B[j] = A[j]
      /\ m \in Nat /\ DOMAIN A = 1 .. Len(A)
  BY <1>2, <1>3
<1>5. Len(V) \in Nat /\ DOMAIN V = 1 .. Len(V)
  OBVIOUS
<1>6. ASSUME NEW i \in DOMAIN V PROVE V[i].sequence <= m
  <2>1. /\ Len(V) \in DOMAIN V /\ V # <<>>
        /\ V[i].sequence \in DOMAIN A /\ V[Len(V)].sequence \in DOMAIN A
    <3>1. Len(V) \in DOMAIN V /\ V # <<>>
      BY <1>5
    <3> QED
      BY <3>1 DEF Kept, Faithful
  <2>2. i = Len(V) \/ V[i].sequence < V[Len(V)].sequence
    BY <1>5, <2>1 DEF Kept, Ascending
  <2>3. V[i].sequence <= LastOf(V)
    BY <1>4, <2>1, <2>2 DEF LastOf
  <2>4. LastOf(V) \in 0 .. Len(A)
    BY LastTyped DEF Kept
  <2> QED
    BY <1>1, <1>2, <1>4, <2>1, <2>3, <2>4 DEF Reach
<1>7. Faithful(V, B)
  <2> SUFFICES ASSUME NEW i \in DOMAIN V
               PROVE  V[i].sequence \in DOMAIN B /\ V[i] = B[V[i].sequence]
    BY DEF Faithful
  <2>1. V[i].sequence \in DOMAIN A /\ V[i] = A[V[i].sequence]
    BY DEF Kept, Faithful
  <2>2. V[i].sequence \in 1 .. m
    BY <1>2, <1>4, <1>6, <2>1
  <2> QED
    BY <1>4, <2>1, <2>2
<1> QED
  BY <1>1, <1>3, <1>4, <1>7 DEF Kept

LEMMA SameElements ==
  ASSUME NEW S, NEW x \in Seq(S), NEW y \in Seq(S), Len(x) = Len(y),
         \A i \in 1 .. Len(x) : x[i] = y[i]
  PROVE  x = y
OBVIOUS

(* What replay_journal makes of the file a crash leaves. *)
LEMMA CrashValid ==
  ASSUME NEW f \in Seq(Command), NEW u \in Seq(Command), NEW n \in 0 .. Len(u),
         NEW torn \in BOOLEAN
  PROVE  ValidRecords((f \o SubSeq(u, 1, n)) \o (IF torn THEN <<Torn>> ELSE <<>>))
           = SubSeq(f \o u, 1, Len(f) + n)
<1>1. PICK R, p, q : /\ R = Command \cup {Torn} /\ q = SubSeq(u, 1, n)
                     /\ p = f \o q
  <2>1. PICK q : q = SubSeq(u, 1, n)
    OBVIOUS
  <2> QED
    BY <2>1
<1>2. /\ q \in Seq(Command) /\ Len(q) = n /\ n \in Nat /\ Len(u) \in Nat /\ n <= Len(u)
      /\ \A i \in 1 .. n : q[i] = u[i]
  BY <1>1
<1>3. /\ p \in Seq(Command) /\ Len(p) = Len(f) + n /\ Len(f) \in Nat
      /\ \A i \in 1 .. Len(f) + n : p[i] = IF i <= Len(f) THEN f[i] ELSE q[i - Len(f)]
  <2>1. f \o q \in Seq(Command) /\ Len(f \o q) = Len(f) + Len(q)
    BY <1>2, ConcatProperties
  <2>2. \A i \in 1 .. Len(f) + Len(q) : (f \o q)[i] = IF i <= Len(f) THEN f[i] ELSE q[i - Len(f)]
    BY <1>2, ConcatProperties
  <2> QED
    BY <1>1, <1>2, <2>1, <2>2
<1>4. p = SubSeq(f \o u, 1, Len(f) + n)
  <2>1. PICK w, x : w = f \o u /\ x = SubSeq(w, 1, Len(f) + n)
    <3>1. PICK w : w = f \o u
      OBVIOUS
    <3> QED
      BY <3>1
  <2>2. /\ w \in Seq(Command) /\ Len(w) = Len(f) + Len(u)
        /\ \A i \in 1 .. Len(f) + Len(u) : w[i] = IF i <= Len(f) THEN f[i] ELSE u[i - Len(f)]
    BY <2>1, ConcatProperties
  <2>3. /\ x \in Seq(Command) /\ Len(x) = Len(f) + n
        /\ \A i \in 1 .. Len(f) + n : x[i] = w[i]
    BY <1>2, <1>3, <2>1, <2>2
  <2>4. ASSUME NEW i \in 1 .. Len(f) + n PROVE x[i] = p[i]
    <3>1. i \in 1 .. Len(f) + Len(u)
      BY <1>2, <1>3
    <3>2. CASE i <= Len(f)
      BY <1>3, <2>2, <2>3, <3>1, <3>2
    <3>3. CASE ~(i <= Len(f))
      <4>1. i - Len(f) \in 1 .. n
        BY <1>2, <1>3, <3>3
      <4> QED
        BY <1>2, <1>3, <2>2, <2>3, <3>1, <3>3, <4>1
    <3> QED
      BY <3>2, <3>3
  <2>5. x = p
    <3>1. /\ x \in Seq(Command) /\ p \in Seq(Command) /\ Len(x) = Len(p)
          /\ \A i \in 1 .. Len(x) : x[i] = p[i]
      BY <1>3, <2>3, <2>4
    <3> QED
      BY <3>1, SameElements
  <2> QED
    BY <2>1, <2>5
<1>5. p \in Seq(R) /\ ValidRecords(p) = p
  <2>1. p \in Seq(Command \cup {Torn})
    BY <1>3
  <2> QED
    BY <1>1, <1>3, <2>1, ValidPrefix
<1>6. CASE torn
  <2>1. PICK g : g = p \o <<Torn>>
    OBVIOUS
  <2>2. PICK m : m = Len(p) + 1
    OBVIOUS
  <2>3. /\ g \in Seq(R) /\ Len(g) = m /\ g[m] = Torn /\ m \in Nat /\ m >= 1
        /\ \A i \in 1 .. m - 1 : g[i] = p[i]
    <3>1. <<Torn>> \in Seq(R) /\ Len(<<Torn>>) = 1 /\ <<Torn>>[1] = Torn
      BY <1>1
    <3>2. PICK t : t = <<Torn>>
      OBVIOUS
    <3>3. /\ g \in Seq(R) /\ Len(g) = Len(p) + Len(t) /\ Len(p) \in Nat /\ Len(t) = 1
          /\ \A i \in 1 .. Len(p) + Len(t) : g[i] = IF i <= Len(p) THEN p[i] ELSE t[i - Len(p)]
      BY <1>5, <2>1, <3>1, <3>2, ConcatProperties
    <3>4. t[1] = Torn
      BY <3>1, <3>2
    <3> QED
      BY <2>2, <3>3, <3>4
  <2>4. \A i \in 1 .. m - 1 : p[i] # Torn
    <3>1. \A i \in 1 .. m - 1 : p[i] \in Command
      BY <1>3, <2>2
    <3> QED
      BY <3>1, CommandTyped
  <2>5. {i \in DOMAIN g : g[i] = Torn} = {m}
    BY <2>3, <2>4
  <2>6. Min({m}) = m
    BY <2>3 DEF Min
  <2>7. ValidRecords(g) = SubSeq(g, 1, m - 1)
    BY <2>5, <2>6 DEF ValidRecords
  <2>8. SubSeq(g, 1, m - 1) = p
    <3>1. PICK x : x = SubSeq(g, 1, m - 1)
      OBVIOUS
    <3>2. x \in Seq(R) /\ Len(x) = m - 1 /\ \A i \in 1 .. m - 1 : x[i] = g[i]
      BY <2>3, <3>1
    <3>3. x = p
      BY <1>3, <1>5, <2>2, <2>3, <3>2
    <3> QED
      BY <3>1, <3>3
  <2> QED
    BY <1>1, <1>4, <1>6, <2>1, <2>7, <2>8
<1>7. CASE ~torn
  <2>1. p \o <<>> = p
    BY <1>3, ConcatEmptySeq
  <2> QED
    BY <1>1, <1>4, <1>5, <1>7, <2>1
<1> QED
  BY <1>6, <1>7

-----------------------------------------------------------------------------
(* The history the journal may hold: what the book has applied, with the
   command that is in the journal, or may be after a crash, and not in it. *)
Known ==
  IF pc = "process" \/ (process = "down" /\ pc = "append" /\ ~BadStream)
  THEN Append(applied, current) ELSE applied

(* The records of the journal: in the file and the stream, or what a replay
   accepts of the file that a process left. *)
Records == IF process = "down" THEN ValidRecords(file) ELSE file \o stream

(* What a journal with records W owes a book that has applied A, for the history
   K, the snapshot b and the commands T that clients know of. *)
Owes(W, K, A, b, mode, p, T) ==
  /\ b.last \in 0 .. Len(A) /\ b = Prefix(A, b.last)
  /\ Kept(W, K, b.last)
  /\ mode # "none" /\ p # "down" => Reach(W, b.last) = Len(K)
  /\ mode = "synchronous" =>
       /\ \A i \in DOMAIN W : W[i].sequence = i
       /\ Len(W) >= Len(A)
       /\ p # "down" => Len(W) = Len(K)
       /\ \A c \in T : c.sequence \in DOMAIN A /\ A[c.sequence] = c

JournalOK ==
  /\ process # "down" => file \in Seq(Command) /\ (journal = "synchronous" => stream = <<>>)
  /\ journal = "none" => file = <<>> /\ stream = <<>>
  /\ Owes(Records, Known, applied, Base, journal, process, told)

LEMMA OwesTold ==
  ASSUME NEW W, NEW K, NEW A \in Seq(Command), NEW b, NEW mode, NEW p, NEW T, NEW U,
         NEW q, p = "down" <=> q = "down",
         Owes(W, K, A, b, mode, p, T), \A i \in DOMAIN A : A[i].sequence = i,
         U \subseteq T \cup ToSet(A)
  PROVE  Owes(W, K, A, b, mode, q, U)
<1>1. ASSUME mode = "synchronous", NEW c \in U
      PROVE  c.sequence \in DOMAIN A /\ A[c.sequence] = c
  <2>1. CASE c \in T
    BY <1>1, <2>1 DEF Owes
  <2>2. CASE c \in ToSet(A)
    <3>1. PICK i \in DOMAIN A : c = A[i]
      BY <2>2 DEF ToSet
    <3> QED
      BY <3>1
  <2> QED
    BY <2>1, <2>2
<1> QED
  BY <1>1 DEF Owes

(* A journal that failed owes no more than the one it was. *)
LEMMA OwesLess ==
  ASSUME NEW W, NEW K, NEW A, NEW b, NEW mode, NEW p, NEW T, mode # "none",
         Owes(W, K, A, b, mode, p, T)
  PROVE  Owes(W, K, A, b, "failed", p, T)
BY DEF Owes

(* Without a journal a command goes straight to the book. *)
LEMMA OwesTaken ==
  ASSUME NEW W \in Seq(Command), NEW A \in Seq(Command), NEW b, NEW p, NEW T, NEW c \in Command,
         Owes(W, A, A, b, "none", p, T)
  PROVE  Owes(W, Append(A, c), A, b, "none", p, T)
<1>1. Kept(W, A, b.last)
  BY DEF Owes
<1>2. Kept(W, Append(A, c), b.last)
  BY <1>1, KeptLonger
<1> QED
  BY <1>2 DEF Owes

(* A record is appended for the command that the book has not seen yet. *)
LEMMA OwesAppended ==
  ASSUME NEW W \in Seq(Command), NEW A \in Seq(Command), NEW b, NEW mode, NEW p, NEW T,
         NEW c \in Command, c.sequence = Len(A) + 1, mode # "none", p # "down",
         Owes(W, A, A, b, mode, p, T)
  PROVE  /\ Append(W, c) \in Seq(Command)
         /\ Owes(Append(W, c), Append(A, c), A, b, mode, p, T)
<1>1. PICK V, K, k : V = Append(W, c) /\ K = Append(A, c) /\ k = b.last
  OBVIOUS
<1>2. k \in 0 .. Len(A) /\ Kept(W, A, k) /\ Reach(W, k) = Len(A) /\ Len(A) \in Nat
  BY <1>1 DEF Owes
<1>3. V \in Seq(Command) /\ Kept(V, K, k) /\ Reach(V, k) = Len(A) + 1
  BY <1>1, <1>2, KeptAppend
<1>4. Len(K) = Len(A) + 1 /\ Len(V) = Len(W) + 1 /\ Len(W) \in Nat
  BY <1>1
<1>5. ASSUME mode = "synchronous", NEW i \in DOMAIN V PROVE V[i].sequence = i
  <2>1. CASE i = Len(W) + 1
    BY <1>1, <1>5, <2>1 DEF Owes
  <2>2. CASE i # Len(W) + 1
    <3>1. i \in DOMAIN W /\ V[i] = W[i]
      BY <1>1, <2>2
    <3> QED
      BY <1>5, <3>1 DEF Owes
  <2> QED
    BY <2>1, <2>2
<1>6. mode = "synchronous" => Len(W) = Len(A)
  BY DEF Owes
<1>7. Owes(V, K, A, b, mode, p, T)
  BY <1>1, <1>2, <1>3, <1>4, <1>5, <1>6 DEF Owes
<1> QED
  BY <1>1, <1>3, <1>7

(* The book applies the command. *)
LEMMA OwesApplied ==
  ASSUME NEW W \in Seq(Command), NEW A \in Seq(Command), NEW b, NEW mode, NEW p, NEW T,
         NEW c \in Command, p # "down",
         Owes(W, Append(A, c), A, b, mode, p, T)
  PROVE  Owes(W, Append(A, c), Append(A, c), b, mode, p, T)
<1>1. PICK K, k : K = Append(A, c) /\ k = b.last
  OBVIOUS
<1>2. /\ K \in Seq(Command) /\ Len(K) = Len(A) + 1 /\ Len(A) \in Nat
      /\ \A i \in DOMAIN A : i \in DOMAIN K /\ K[i] = A[i]
  BY <1>1
<1>3. k \in 0 .. Len(A) /\ b = Prefix(A, k) /\ Owes(W, K, A, b, mode, p, T)
  BY <1>1 DEF Owes
<1>4. SubSeq(K, 1, k) = SubSeq(A, 1, k)
  BY <1>1, <1>2, <1>3
<1>5. b = Prefix(K, k) /\ k \in 0 .. Len(K)
  BY <1>2, <1>3, <1>4 DEF Prefix
<1>6. mode = "synchronous" => Len(W) = Len(K)
  BY <1>3 DEF Owes
<1>7. Owes(W, K, K, b, mode, p, T)
  BY <1>1, <1>2, <1>3, <1>5, <1>6 DEF Owes
<1> QED
  BY <1>1, <1>7

(* A snapshot of the book replaces the one before it. *)
LEMMA OwesSaved ==
  ASSUME NEW W \in Seq(Command), NEW A \in Seq(Command), NEW b, NEW mode, NEW p, NEW q, NEW T,
         p # "down", q # "down", Owes(W, A, A, b, mode, p, T),
         NEW d, d = [last |-> Len(A), applied |-> A]
  PROVE  Owes(W, A, A, d, mode, q, T)
<1>1. Len(A) \in Nat /\ SubSeq(A, 1, Len(A)) = A
  OBVIOUS
<1>2. d.last = Len(A) /\ d = Prefix(A, Len(A))
  BY <1>1 DEF Prefix
<1>3. Kept(W, A, b.last)
  BY DEF Owes
<1>4. Kept(W, A, Len(A)) /\ Reach(W, Len(A)) = Len(A)
  BY <1>3, KeptSnapshot
<1> QED
  BY <1>1, <1>2, <1>4 DEF Owes

(* A process ends: a prefix of the records, the whole file at least, is kept. *)
LEMMA OwesCut ==
  ASSUME NEW W \in Seq(Command), NEW K, NEW A \in Seq(Command), NEW b, NEW mode, NEW p, NEW T,
         Owes(W, K, A, b, mode, p, T), NEW n \in 0 .. Len(W),
         mode = "synchronous" => n >= Len(A)
  PROVE  /\ SubSeq(W, 1, n) \in Seq(Command)
         /\ Owes(SubSeq(W, 1, n), K, A, b, mode, "down", T)
<1>1. PICK V : V = SubSeq(W, 1, n)
  OBVIOUS
<1>2. /\ V \in Seq(Command) /\ Len(V) = n /\ n \in Nat
      /\ \A i \in DOMAIN V : V[i] = W[i] /\ i \in DOMAIN W
  BY <1>1
<1>3. PICK k : k = b.last
  OBVIOUS
<1>4. Kept(W, K, k)
  BY <1>3 DEF Owes
<1>5. Kept(V, K, k)
  BY <1>1, <1>4, KeptPrefix
<1>6. Owes(V, K, A, b, mode, "down", T)
  BY <1>2, <1>3, <1>5 DEF Owes
<1> QED
  BY <1>1, <1>2, <1>6

(* The recovered book is the history up to where the snapshot and the records
   reach; with a synchronous journal that is all of the book, at least. *)
LEMMA OwesRecovered ==
  ASSUME NEW V \in Seq(Command), NEW A \in Seq(Command), NEW K \in Seq(Command), NEW b, NEW mode,
         NEW p, NEW T, Owes(V, K, A, b, mode, p, T),
         Len(A) <= Len(K), \A i \in DOMAIN A : K[i] = A[i]
  PROVE  \E m \in 0 .. Len(K) :
           LET B == SubSeq(K, 1, m) IN
           /\ B \in Seq(Command) /\ Len(B) = m
           /\ Consumed(b, V, b.last) = [last |-> m, applied |-> B]
           /\ \A q : q # "down" => Owes(V, B, B, b, mode, q, T)
<1>1. PICK k : k = b.last
  OBVIOUS
<1>2. PICK m : m = Reach(V, k)
  OBVIOUS
<1>3. PICK B : B = SubSeq(K, 1, m)
  OBVIOUS
<1>4. /\ Len(A) \in Nat /\ Len(K) \in Nat /\ k \in 0 .. Len(A) /\ k \in 0 .. Len(K)
      /\ Kept(V, K, k) /\ b = Prefix(A, k)
      /\ DOMAIN A = 1 .. Len(A) /\ DOMAIN K = 1 .. Len(K)
  BY <1>1 DEF Owes
<1>5. SubSeq(K, 1, k) = SubSeq(A, 1, k)
  <2>1. PICK x, y : x = SubSeq(K, 1, k) /\ y = SubSeq(A, 1, k)
    OBVIOUS
  <2>2. /\ x \in Seq(Command) /\ y \in Seq(Command) /\ Len(x) = k /\ Len(y) = k
        /\ \A i \in 1 .. k : x[i] = K[i] /\ y[i] = A[i] /\ i \in DOMAIN A
    BY <1>4, <2>1
  <2>3. \A i \in 1 .. Len(x) : x[i] = y[i]
    BY <2>2
  <2>4. x = y
    BY <2>2, <2>3, SameElements
  <2> QED
    BY <2>1, <2>4
<1>6. b = Prefix(K, k)
  BY <1>4, <1>5 DEF Prefix
<1>7. Consumed(b, V, k) = Prefix(K, m)
  <2>1. k \in Int /\ k <= k
    BY <1>4
  <2> QED
    BY <1>2, <1>4, <1>6, <2>1, ReplayReaches
<1>8. m \in k .. Len(K) /\ k \in Nat
  BY <1>2, <1>4, ReachTyped DEF Kept
<1>9. B \in Seq(Command) /\ Len(B) = m /\ Kept(V, B, k)
  BY <1>2, <1>3, <1>4, KeptRecovered
<1>10. m \in 0 .. Len(K) /\ m \in Nat /\ k <= m
  BY <1>4, <1>8
<1>11. \A i \in 1 .. m : B[i] = K[i]
  BY <1>3, <1>4, <1>10
<1>12. SubSeq(B, 1, k) = SubSeq(K, 1, k)
  <2>1. PICK x, y : x = SubSeq(B, 1, k) /\ y = SubSeq(K, 1, k)
    OBVIOUS
  <2>2. /\ x \in Seq(Command) /\ y \in Seq(Command) /\ Len(x) = k /\ Len(y) = k
        /\ \A i \in 1 .. k : x[i] = B[i] /\ y[i] = K[i] /\ i \in 1 .. m
    BY <1>4, <1>9, <1>10, <2>1
  <2>3. \A i \in 1 .. Len(x) : x[i] = y[i]
    BY <1>11, <2>2
  <2>4. x = y
    BY <2>2, <2>3, SameElements
  <2> QED
    BY <2>1, <2>4
<1>13. b = Prefix(B, k) /\ k \in 0 .. Len(B)
  BY <1>4, <1>6, <1>9, <1>10, <1>12 DEF Prefix
<1>14. ASSUME mode = "synchronous"
       PROVE  /\ \A i \in DOMAIN V : V[i].sequence = i
              /\ Len(V) = m
              /\ \A c \in T : c.sequence \in DOMAIN B /\ B[c.sequence] = c
  <2>1. /\ \A i \in DOMAIN V : V[i].sequence = i
        /\ Len(V) >= Len(A)
        /\ \A c \in T : c.sequence \in DOMAIN A /\ A[c.sequence] = c
    BY <1>14 DEF Owes
  <2>2. LastOf(V) = Len(V) /\ Len(V) \in Nat
    <3>1. CASE V = <<>>
      BY <3>1 DEF LastOf
    <3>2. CASE V # <<>>
      <4>1. Len(V) \in DOMAIN V /\ Len(V) \in Nat
        BY <3>2
      <4> QED
        BY <2>1, <3>2, <4>1 DEF LastOf
    <3> QED
      BY <3>1, <3>2
  <2>3. Len(V) = m
    BY <1>2, <1>4, <2>1, <2>2 DEF Reach
  <2>4. \A j \in DOMAIN A : j \in DOMAIN B /\ B[j] = A[j]
    BY <1>4, <1>9, <1>11, <2>1, <2>3
  <2> QED
    BY <2>1, <2>3, <2>4
<1>15. ASSUME NEW q, q # "down" PROVE Owes(V, B, B, b, mode, q, T)
  BY <1>1, <1>2, <1>9, <1>10, <1>13, <1>14 DEF Owes
<1>16. Consumed(b, V, b.last) = [last |-> m, applied |-> B]
  BY <1>1, <1>3, <1>7 DEF Prefix
<1> QED
  BY <1>3, <1>9, <1>10, <1>15, <1>16

-----------------------------------------------------------------------------
(* A step inside the process, from what it does to the records, the history
   and the book. *)
LEMMA JournalInside ==
  ASSUME Basic', InProcess,
         NEW W, NEW K, NEW A, W = file' \o stream', A = applied',
         K = (IF pc' = "process" THEN Append(applied', current') ELSE applied'),
         Owes(W, K, A, Base, journal', process, told),
         file' \in Seq(Command), journal' = "synchronous" => stream' = <<>>,
         journal' = "none" => file' = <<>> /\ stream' = <<>>
  PROVE  JournalOK'
<1>1. process = "running" /\ process' = "running" /\ snapshot' = snapshot
  BY DEF InProcess, disk
<1>2. A \in Seq(Command) /\ \A i \in DOMAIN A : A[i].sequence = i
  BY DEF Basic, TypeOK, BooksOK, Numbered
<1>3. told' \subseteq told \cup ToSet(A)
  BY DEF InProcess
<1>4. PICK b, mode, p, T, U : b = Base /\ mode = journal' /\ p = process /\ T = told /\ U = told'
  OBVIOUS
<1>5. Owes(W, K, A, b, mode, p, U)
  BY <1>2, <1>3, <1>4, OwesTold
<1>6. Base' = b
  BY <1>1, <1>4, BaseSame
<1>7. Records' = W /\ Known' = K
  BY <1>1 DEF Records, Known
<1>8. Owes(Records', Known', applied', Base', journal', process', told')
  BY <1>1, <1>4, <1>5, <1>6, <1>7
<1> QED
  BY <1>1, <1>8 DEF JournalOK

(* The state of a process that has not ended. *)
LEMMA JournalUp ==
  ASSUME Basic, JournalOK, process # "down"
  PROVE  /\ file \in Seq(Command) /\ stream \in Seq(Command) /\ applied \in Seq(Command)
         /\ file \o stream \in Seq(Command)
         /\ journal = "synchronous" => stream = <<>>
         /\ journal = "none" => file = <<>> /\ stream = <<>>
         /\ Owes(file \o stream, IF pc = "process" THEN Append(applied, current) ELSE applied,
                 applied, Base, journal, process, told)
<1>1. file \in Seq(Command) /\ stream \in Seq(Command) /\ applied \in Seq(Command)
  BY DEF Basic, TypeOK, JournalOK
<1>2. Records = file \o stream
  BY DEF Records
<1>3. Known = IF pc = "process" THEN Append(applied, current) ELSE applied
  BY DEF Known
<1>4. file \o stream \in Seq(Command)
  BY <1>1
<1> QED
  BY <1>1, <1>2, <1>3, <1>4 DEF JournalOK

(* Steps that leave the journal, the book and the command alone. *)
LEMMA QuietJournal ==
  ASSUME Basic, Basic', JournalOK, InProcess,
         UNCHANGED <<journal, stream, file, applied>>,
         pc = "process" <=> pc' = "process", pc = "process" => current' = current
  PROVE  JournalOK'
<1>1. process # "down"
  BY DEF InProcess
<1>2. PICK W, A : W = file \o stream /\ A = applied
  OBVIOUS
<1>3. PICK K : K = IF pc = "process" THEN Append(applied, current) ELSE applied
  OBVIOUS
<1>4. /\ file \in Seq(Command) /\ (journal = "synchronous" => stream = <<>>)
      /\ journal = "none" => file = <<>> /\ stream = <<>>
      /\ Owes(W, K, A, Base, journal, process, told)
  BY <1>1, <1>2, <1>3, JournalUp
<1>5. W = file' \o stream' /\ A = applied'
  BY <1>2
<1>6. K = IF pc' = "process" THEN Append(applied', current') ELSE applied'
  BY <1>3
<1>7. /\ file' \in Seq(Command) /\ (journal = "synchronous" => stream' = <<>>)
      /\ (journal = "none" => file' = <<>> /\ stream' = <<>>) /\ journal' = journal
  BY <1>4
<1> QED
  BY <1>4, <1>5, <1>6, <1>7, JournalInside

LEMMA TakeCommandJournal ==
  ASSUME Basic, Basic', JournalOK, TakeCommand, InProcess
  PROVE  JournalOK'
<1>1. /\ pc = "poll" /\ pc' = (IF journal = "none" THEN "process" ELSE "append")
      /\ UNCHANGED <<journal, stream, file, applied>>
  BY DEF TakeCommand, journalVars
<1>2. CASE journal # "none"
  BY <1>1, <1>2, QuietJournal
<1>3. CASE journal = "none"
  <2>1. process # "down"
    BY DEF InProcess
  <2>2. PICK W, A, c : W = file \o stream /\ A = applied /\ c = current'
    OBVIOUS
  <2>3. /\ file \in Seq(Command) /\ W \in Seq(Command) /\ A \in Seq(Command)
        /\ file = <<>> /\ stream = <<>>
        /\ Owes(W, A, A, Base, journal, process, told)
    BY <1>1, <1>3, <2>1, <2>2, JournalUp
  <2>4. c \in Command
    BY <1>1, <1>3, <2>2 DEF Basic, LocalOK, Taken
  <2>5. PICK b, p, T : b = Base /\ p = process /\ T = told
    OBVIOUS
  <2>6. PICK K : K = Append(A, c)
    OBVIOUS
  <2>7. Owes(W, K, A, b, "none", p, T)
    BY <1>3, <2>3, <2>4, <2>5, <2>6, OwesTaken
  <2>8. /\ W = file' \o stream' /\ A = applied'
        /\ K = (IF pc' = "process" THEN Append(applied', current') ELSE applied')
    BY <1>1, <1>3, <2>2, <2>6
  <2>9. Owes(W, K, A, Base, journal, process, told)
    BY <1>3, <2>5, <2>7
  <2>10. /\ file' \in Seq(Command) /\ (journal = "synchronous" => stream' = <<>>)
         /\ (journal = "none" => file' = <<>> /\ stream' = <<>>) /\ journal' = journal
    BY <1>1, <1>3, <2>3
  <2> QED
    BY <2>8, <2>9, <2>10, JournalInside
<1> QED
  BY <1>2, <1>3

LEMMA ConcatAppend ==
  ASSUME NEW a \in Seq(Command), NEW b \in Seq(Command), NEW c \in Command
  PROVE  a \o Append(b, c) = Append(a \o b, c)
<1>1. PICK d, e : d = Append(b, c) /\ e = a \o b
  OBVIOUS
<1>2. PICK x, y : x = a \o d /\ y = Append(e, c)
  OBVIOUS
<1>3. /\ d \in Seq(Command) /\ Len(d) = Len(b) + 1 /\ Len(b) \in Nat /\ d[Len(b) + 1] = c
      /\ \A i \in 1 .. Len(b) : d[i] = b[i]
  BY <1>1
<1>4. /\ e \in Seq(Command) /\ Len(e) = Len(a) + Len(b) /\ Len(a) \in Nat
      /\ \A i \in 1 .. Len(a) + Len(b) : e[i] = IF i <= Len(a) THEN a[i] ELSE b[i - Len(a)]
  BY <1>1, ConcatProperties
<1>5. /\ x \in Seq(Command) /\ Len(x) = Len(a) + Len(d)
      /\ \A i \in 1 .. Len(a) + Len(d) : x[i] = IF i <= Len(a) THEN a[i] ELSE d[i - Len(a)]
  <2>1. d \in Seq(Command)
    BY <1>3
  <2> QED
    BY <1>2, <2>1, ConcatProperties
<1>6. /\ y \in Seq(Command) /\ Len(y) = Len(e) + 1 /\ y[Len(e) + 1] = c
      /\ \A i \in 1 .. Len(e) : y[i] = e[i]
  BY <1>2, <1>4
<1>7. ASSUME NEW i \in 1 .. Len(x) PROVE x[i] = y[i]
  <2>1. i \in Nat /\ 1 <= i /\ i <= Len(a) + Len(b) + 1
    BY <1>3, <1>4, <1>5
  <2>2. CASE i <= Len(a)
    BY <1>3, <1>4, <1>5, <1>6, <2>1, <2>2
  <2>3. CASE i > Len(a) /\ i <= Len(a) + Len(b)
    <3>1. i - Len(a) \in 1 .. Len(b) /\ ~(i <= Len(a)) /\ i \in 1 .. Len(e)
      BY <1>3, <1>4, <2>1, <2>3
    <3>2. x[i] = d[i - Len(a)]
      BY <1>3, <1>4, <1>5, <3>1
    <3>3. y[i] = b[i - Len(a)]
      BY <1>4, <1>6, <3>1
    <3>4. d[i - Len(a)] = b[i - Len(a)]
      BY <1>3, <3>1
    <3> QED
      BY <3>2, <3>3, <3>4
  <2>4. CASE i = Len(a) + Len(b) + 1
    <3>1. i - Len(a) = Len(b) + 1 /\ ~(i <= Len(a)) /\ i = Len(e) + 1
      BY <1>3, <1>4, <2>4
    <3> QED
      BY <1>3, <1>4, <1>5, <1>6, <3>1
  <2> QED
    BY <1>3, <1>4, <2>1, <2>2, <2>3, <2>4
<1>8. Len(x) = Len(y)
  BY <1>3, <1>4, <1>5, <1>6
<1>9. x = y
  BY <1>5, <1>6, <1>7, <1>8, SameElements
<1> QED
  BY <1>1, <1>2, <1>9

LEMMA ConcatNothing ==
  ASSUME NEW a \in Seq(Command)
  PROVE  a \o <<>> = a
BY ConcatEmptySeq

(* Whether or not it is flushed, the record is appended to the journal. *)
LEMMA AppendJournalJournal ==
  ASSUME AssignsSequences, Basic, Basic', JournalOK, AppendJournal, InProcess
  PROVE  JournalOK'
<1>1. /\ pc = "append" /\ pc' = "process" /\ journal # "none"
      /\ journal' \in {journal, "failed"}
      /\ UNCHANGED <<current, applied>> /\ process # "down"
  BY DEF AppendJournal, InProcess, Basic, LocalOK, engineVars
<1>2. PICK f, s, c, A, W : f = file /\ s = stream /\ c = current /\ A = applied /\ W = file \o stream
  OBVIOUS
<1>3. /\ f \in Seq(Command) /\ s \in Seq(Command) /\ A \in Seq(Command) /\ W \in Seq(Command)
      /\ W = f \o s
      /\ Owes(W, A, A, Base, journal, process, told)
  BY <1>1, <1>2, JournalUp
<1>4. c \in Command /\ c.sequence = Len(A) + 1
  BY <1>1, <1>2 DEF Basic, LocalOK, Taken, Counted, BooksOK, Numbered
<1>5. PICK V, K : V = Append(W, c) /\ K = Append(A, c)
  OBVIOUS
<1>6. PICK b, mode, p, T : b = Base /\ mode = journal /\ p = process /\ T = told
  OBVIOUS
<1>7. V \in Seq(Command) /\ Owes(V, K, A, b, mode, p, T)
  BY <1>1, <1>3, <1>4, <1>5, <1>6, OwesAppended
<1>8. f \o Append(s, c) = V
  BY <1>3, <1>4, <1>5, ConcatAppend
<1>9. /\ V = file' \o stream' /\ file' \in Seq(Command)
      /\ journal' = "synchronous" => stream' = <<>>
  <2>1. CASE file' = file \o Append(stream, current) /\ stream' = <<>>
    <3>1. file' = V /\ stream' = <<>>
      BY <1>2, <1>8, <2>1
    <3>2. V \o <<>> = V
      BY <1>7, ConcatNothing
    <3> QED
      BY <1>7, <3>1, <3>2
  <2>2. CASE file' = file /\ stream' = Append(stream, current) /\ journal' # "synchronous"
    <3>1. file' = f /\ stream' = Append(s, c)
      BY <1>2, <2>2
    <3> QED
      BY <1>3, <1>8, <2>2, <3>1
  <2> QED
    BY <2>1, <2>2 DEF AppendJournal
<1>10. A = applied' /\ K = (IF pc' = "process" THEN Append(applied', current') ELSE applied')
  BY <1>1, <1>2, <1>5
<1>11. Owes(V, K, A, Base, journal', process, told)
  <2>1. Owes(V, K, A, b, "failed", p, T)
    BY <1>1, <1>6, <1>7, OwesLess
  <2> QED
    BY <1>1, <1>6, <1>7, <2>1
<1> QED
  BY <1>1, <1>9, <1>10, <1>11, JournalInside

LEMMA ProcessCommandJournal ==
  ASSUME AssignsSequences, Basic, Basic', JournalOK, NEW count, ProcessCommand(count), InProcess
  PROVE  JournalOK'
<1>1. /\ pc = "process" /\ pc' = "publish"
      /\ UNCHANGED <<journal, file, stream, current>> /\ process # "down"
  BY DEF ProcessCommand, InProcess, journalVars
<1>2. PICK c, A, W : c = current /\ A = applied /\ W = file \o stream
  OBVIOUS
<1>3. PICK K : K = Append(A, c)
  OBVIOUS
<1>4. /\ file \in Seq(Command) /\ A \in Seq(Command) /\ W \in Seq(Command)
      /\ journal = "synchronous" => stream = <<>>
      /\ journal = "none" => file = <<>> /\ stream = <<>>
      /\ Owes(W, K, A, Base, journal, process, told)
  BY <1>1, <1>2, <1>3, JournalUp
<1>5. c \in Command /\ current.sequence = lastSequence + 1
  BY <1>1, <1>2 DEF Basic, LocalOK, Taken, Counted
<1>6. applied' = K
  BY <1>2, <1>3, <1>5 DEF ProcessCommand
<1>7. PICK b, mode, p, T : b = Base /\ mode = journal /\ p = process /\ T = told
  OBVIOUS
<1>8. Owes(W, K, K, b, mode, p, T)
  BY <1>1, <1>3, <1>4, <1>5, <1>7, OwesApplied
<1>9. Owes(W, K, K, Base, journal, process, told)
  BY <1>7, <1>8
<1>10. W = file' \o stream' /\ K = (IF pc' = "process" THEN Append(applied', current') ELSE applied')
  BY <1>1, <1>2, <1>6
<1>11. /\ file' \in Seq(Command) /\ journal' = journal
       /\ journal = "synchronous" => stream' = <<>>
       /\ journal = "none" => file' = <<>> /\ stream' = <<>>
  BY <1>1, <1>4
<1> QED
  BY <1>6, <1>9, <1>10, <1>11, JournalInside

(* The flush at the end of run() moves records and loses none. *)
LEMMA StopRunningJournal ==
  ASSUME Basic, Basic', JournalOK, StopRunning, InProcess
  PROVE  JournalOK'
<1>1. /\ pc = "poll" /\ pc' = "returned" /\ file' = file \o stream /\ stream' = <<>>
      /\ UNCHANGED <<journal, applied>> /\ process # "down"
  BY DEF StopRunning, InProcess, engineVars
<1>2. PICK A, W : A = applied /\ W = file \o stream
  OBVIOUS
<1>3. /\ W \in Seq(Command)
      /\ journal = "none" => file = <<>> /\ stream = <<>>
      /\ Owes(W, A, A, Base, journal, process, told)
  BY <1>1, <1>2, JournalUp
<1>4. W \o <<>> = W
  BY <1>3, ConcatNothing
<1>5. /\ W = file' \o stream' /\ A = applied' /\ file' \in Seq(Command)
      /\ A = (IF pc' = "process" THEN Append(applied', current') ELSE applied')
  BY <1>1, <1>2, <1>3, <1>4
<1>6. journal = "none" => file' = <<>> /\ stream' = <<>>
  <2> SUFFICES ASSUME journal = "none" PROVE W = <<>>
    BY <1>1, <1>2
  <2>1. W = <<>> \o <<>> /\ <<>> \in Seq(Command)
    BY <1>2, <1>3
  <2> QED
    BY <2>1, ConcatNothing
<1> QED
  BY <1>1, <1>3, <1>5, <1>6, JournalInside

LEMMA NextJournal ==
  ASSUME AssignsSequences, Basic, Basic', JournalOK, Next, InProcess
  PROVE  JournalOK'
<1>1. CASE TakeCommand
  BY <1>1, TakeCommandJournal
<1>2. CASE AppendJournal
  BY <1>2, AppendJournalJournal
<1>3. CASE \E count \in 1 .. MaxEvents : ProcessCommand(count)
  BY <1>3, ProcessCommandJournal
<1>4. CASE StopRunning
  BY <1>4, StopRunningJournal
<1>5. CASE PushEvent \/ AbandonPublish \/ Published \/ JournalThrows
  <2>1. /\ UNCHANGED <<journal, stream, file, applied, current>>
        /\ pc # "process" /\ pc' # "process"
    BY <1>5 DEF PushEvent, AbandonPublish, Published, JournalThrows, engineVars, journalVars
  <2> QED
    BY <2>1, QuietJournal
<1>6. CASE (\E sequence \in Sequences(sent + 1) : SubmitCommand(sequence)) \/ ConsumeEvent \/ SetStop
  <2>1. UNCHANGED <<journal, stream, file, applied, current, pc>>
    BY <1>6 DEF SubmitCommand, ConsumeEvent, SetStop, engineVars, journalVars
  <2> QED
    BY <2>1, QuietJournal
<1> QED
  BY <1>1, <1>2, <1>3, <1>4, <1>5, <1>6 DEF Next, Engine

(* Opening the journal and beginning a snapshot. *)
LEMMA OpenJournalJournal ==
  ASSUME Basic, JournalOK, OpenJournal \/ BeginSnapshot
  PROVE  JournalOK'
<1>1. /\ process # "down" /\ process' # "down"
      /\ UNCHANGED <<pc, current, applied, journal, stream, file, snapshot, told>>
  BY DEF OpenJournal, BeginSnapshot, vars, engineVars, journalVars, disk
<1>2. PICK W, A : W = file \o stream /\ A = applied
  OBVIOUS
<1>3. PICK K : K = IF pc = "process" THEN Append(applied, current) ELSE applied
  OBVIOUS
<1>4. PICK b, mode, p, T, q : b = Base /\ mode = journal /\ p = process /\ T = told /\ q = process'
  OBVIOUS
<1>5. /\ file \in Seq(Command) /\ (journal = "synchronous" => stream = <<>>)
      /\ journal = "none" => file = <<>> /\ stream = <<>>
      /\ A \in Seq(Command) /\ Owes(W, K, A, b, mode, p, T)
  BY <1>1, <1>2, <1>3, <1>4, JournalUp
<1>6. \A i \in DOMAIN A : A[i].sequence = i
  BY <1>2 DEF Basic, BooksOK, Numbered
<1>7. p = "down" <=> q = "down"
  BY <1>1, <1>4
<1>8. T \subseteq T \cup ToSet(A)
  OBVIOUS
<1>9. Owes(W, K, A, b, mode, q, T)
  BY <1>5, <1>6, <1>7, <1>8, OwesTold
<1>10. Base' = b
  BY <1>1, <1>4, BaseSame
<1>11. Records' = W /\ Known' = K
  BY <1>1, <1>2, <1>3 DEF Records, Known
<1>12. Owes(Records', Known', applied', Base', journal', process', told')
  BY <1>1, <1>2, <1>4, <1>9, <1>10, <1>11
<1>13. file' = file /\ stream' = stream /\ journal' = journal
  BY <1>1
<1> QED
  BY <1>5, <1>12, <1>13 DEF JournalOK

(* A snapshot moves the point from which the records must be linked. *)
LEMMA ReplaceSnapshotJournal ==
  ASSUME Basic, JournalOK, ReplaceSnapshot
  PROVE  JournalOK'
<1>1. /\ process # "down" /\ process' # "down" /\ pc = "returned"
      /\ UNCHANGED <<pc, current, applied, journal, stream, file, told>>
  BY DEF ReplaceSnapshot, vars, engineVars, journalVars, Basic, LocalOK
<1>2. PICK W, A : W = file \o stream /\ A = applied
  OBVIOUS
<1>3. PICK b, mode, p, T, q : b = Base /\ mode = journal /\ p = process /\ T = told /\ q = process'
  OBVIOUS
<1>4. /\ file \in Seq(Command) /\ (journal = "synchronous" => stream = <<>>)
      /\ journal = "none" => file = <<>> /\ stream = <<>>
      /\ A \in Seq(Command) /\ W \in Seq(Command) /\ Owes(W, A, A, b, mode, p, T)
  BY <1>1, <1>2, <1>3, JournalUp
<1>5. PICK d : d = [last |-> lastSequence, applied |-> applied]
  OBVIOUS
<1>6. lastSequence = Len(applied) /\ lastSequence \in Nat
  BY DEF Basic, BooksOK, Numbered, TypeOK
<1>7. d = [last |-> Len(A), applied |-> A] /\ d # NoSnapshot
  BY <1>2, <1>5, <1>6 DEF NoSnapshot
<1>8. Owes(W, A, A, d, mode, q, T)
  BY <1>1, <1>3, <1>4, <1>7, OwesSaved
<1>9. Base' = d
  <2>1. snapshot' = d /\ snapshot' # NoSnapshot
    BY <1>5, <1>7 DEF ReplaceSnapshot
  <2>2. Base' = [last |-> snapshot'.last, applied |-> snapshot'.applied]
    BY <2>1 DEF Base, ReadSnapshot, NoSnapshot
  <2> QED
    BY <1>5, <2>1, <2>2
<1>10. Records' = W /\ Known' = A
  BY <1>1, <1>2 DEF Records, Known
<1>11. Owes(Records', Known', applied', Base', journal', process', told')
  BY <1>1, <1>2, <1>3, <1>8, <1>9, <1>10
<1>12. file' = file /\ stream' = stream /\ journal' = journal
  BY <1>1
<1> QED
  BY <1>4, <1>11, <1>12 DEF JournalOK

(* A process ends with any part of what it had not written in the file. *)
LEMMA CrashJournal ==
  ASSUME AssignsSequences, Basic, JournalOK,
         NEW whole \in 0 .. Len(Unwritten), NEW torn \in BOOLEAN, Crash(whole, torn)
  PROVE  JournalOK'
<1>1. /\ process # "down" /\ process' = "down"
      /\ UNCHANGED <<pc, current, applied, journal, stream, snapshot, told>>
  BY DEF Crash, engineVars
<1>2. PICK f, s, u, A, W : f = file /\ s = stream /\ u = Unwritten /\ A = applied /\ W = file \o stream
  OBVIOUS
<1>3. PICK K : K = IF pc = "process" THEN Append(applied, current) ELSE applied
  OBVIOUS
<1>4. PICK b, mode, p, T : b = Base /\ mode = journal /\ p = process /\ T = told
  OBVIOUS
<1>5. /\ f \in Seq(Command) /\ s \in Seq(Command) /\ (mode = "synchronous" => s = <<>>)
      /\ mode = "none" => f = <<>> /\ s = <<>>
      /\ A \in Seq(Command) /\ W \in Seq(Command) /\ Owes(W, K, A, b, mode, p, T)
      /\ W = f \o s
  BY <1>1, <1>2, <1>3, <1>4, JournalUp
<1>6. u \in Seq(Command) /\ Len(u) \in Nat /\ whole \in 0 .. Len(u)
  BY <1>2, UnwrittenTyped
<1>7. PICK F, J : F = f \o u /\ J = IF pc = "append" /\ ~BadStream THEN Append(applied, current) ELSE K
  OBVIOUS
<1>8. F \in Seq(Command) /\ Owes(F, J, A, b, mode, p, T)
  <2>1. CASE pc = "append" /\ ~BadStream
    <3>1. PICK c : c = current
      OBVIOUS
    <3>2. c \in Command /\ c.sequence = Len(A) + 1 /\ mode # "none" /\ p # "down" /\ K = A
      BY <1>1, <1>2, <1>3, <1>4, <2>1, <3>1 DEF Basic, LocalOK, Taken, Counted, BooksOK, Numbered
    <3>3. Append(W, c) \in Seq(Command) /\ Owes(Append(W, c), Append(A, c), A, b, mode, p, T)
      BY <1>5, <3>2, OwesAppended
    <3>4. u = Append(s, c)
      BY <1>2, <2>1, <3>1 DEF Unwritten
    <3>5. F = Append(W, c)
      BY <1>5, <1>7, <3>2, <3>4, ConcatAppend
    <3> QED
      BY <1>2, <1>7, <2>1, <3>1, <3>3, <3>5
  <2>2. CASE ~(pc = "append" /\ ~BadStream)
    <3>1. u = s
      BY <1>2, <2>2 DEF Unwritten
    <3> QED
      BY <1>5, <1>7, <2>2, <3>1
  <2> QED
    BY <2>1, <2>2
<1>9. Len(F) = Len(f) + Len(u) /\ Len(f) \in Nat
  BY <1>5, <1>6, <1>7, ConcatProperties
<1>10. PICK n : n = Len(f) + whole
  OBVIOUS
<1>11. n \in 0 .. Len(F)
  BY <1>6, <1>9, <1>10
<1>12. mode = "synchronous" => n >= Len(A)
  <2> SUFFICES ASSUME mode = "synchronous" PROVE n >= Len(A)
    OBVIOUS
  <2>1. s = <<>> /\ W = f
    BY <1>5, ConcatNothing
  <2>2. Len(W) >= Len(A) /\ Len(A) \in Nat
    BY <1>5 DEF Owes
  <2> QED
    BY <1>6, <1>9, <1>10, <2>1, <2>2
<1>13. PICK V : V = SubSeq(F, 1, n)
  OBVIOUS
<1>14. V \in Seq(Command) /\ Owes(V, J, A, b, mode, "down", T)
  BY <1>5, <1>8, <1>11, <1>12, <1>13, OwesCut
<1>15. file' = (f \o SubSeq(u, 1, whole)) \o (IF torn THEN <<Torn>> ELSE <<>>)
  BY <1>2 DEF Crash
<1>16. Records' = V
  <2>1. Records' = ValidRecords(file')
    BY <1>1 DEF Records, ValidRecords
  <2>2. PICK g : g = file'
    OBVIOUS
  <2>3. ValidRecords(g) = SubSeq(f \o u, 1, Len(f) + whole)
    BY <1>5, <1>6, <1>15, <2>2, CrashValid
  <2>4. ValidRecords(g) = V
    BY <1>7, <1>10, <1>13, <2>3
  <2> QED
    BY <2>1, <2>2, <2>4
<1>17. Known' = J
  BY <1>1, <1>3, <1>7 DEF Known, BadStream
<1>18. Base' = b
  BY <1>1, <1>4, BaseSame
<1>19. Owes(Records', Known', applied', Base', journal', process', told')
  BY <1>1, <1>2, <1>4, <1>14, <1>16, <1>17, <1>18
<1>20. journal' = "none" => file' = <<>> /\ stream' = <<>>
  <2> SUFFICES ASSUME mode = "none" PROVE file' = <<>> /\ stream' = <<>>
    BY <1>1, <1>4
  <2>1. f = <<>> /\ s = <<>> /\ u = <<>>
    <3>1. pc # "append"
      BY <1>4 DEF Basic, LocalOK
    <3> QED
      BY <1>2, <1>5, <3>1 DEF Unwritten
  <2>2. whole = 0 /\ Len(u) = 0
    BY <1>6, <2>1
  <2>3. ~torn
    BY <1>2, <2>2 DEF Crash
  <2>4. SubSeq(u, 1, whole) = <<>>
    BY <1>6, <2>2
  <2>5. file' = (<<>> \o <<>>) \o <<>>
    BY <1>15, <2>1, <2>3, <2>4
  <2>6. <<>> \o <<>> = <<>>
    <3>1. <<>> \in Seq(Command)
      OBVIOUS
    <3> QED
      BY <3>1, ConcatNothing
  <2> QED
    BY <1>1, <1>2, <2>1, <2>5, <2>6
<1> QED
  BY <1>1, <1>19, <1>20 DEF JournalOK

(* What the application recovers: the history up to some command, in a journal
   that owes it nothing more. *)
LEMMA RecoveredIs ==
  ASSUME Basic, JournalOK, process = "down"
  PROVE  \E m \in 0 .. Len(Known) :
           LET B == SubSeq(Known, 1, m) IN
           /\ B \in Seq(Command) /\ Len(B) = m
           /\ Recovered = [last |-> m, applied |-> B]
           /\ \A q : q # "down" => Owes(ValidRecords(file), B, B, Base, journal, q, told)
<1>1. PICK V, K, A, b, mode, p, T :
         /\ V = ValidRecords(file) /\ K = Known /\ A = applied
         /\ b = Base /\ mode = journal /\ p = process /\ T = told
  OBVIOUS
<1>2. V \in Seq(Command) /\ A \in Seq(Command)
  <2>1. PICK f : f = file
    OBVIOUS
  <2>2. f \in Seq(Command \cup {Torn}) /\ A \in Seq(Command)
    BY <1>1, <2>1 DEF Basic, TypeOK
  <2>3. ValidRecords(f) \in Seq(Command)
    BY <2>2, ValidPrefix
  <2> QED
    BY <1>1, <2>1, <2>2, <2>3
<1>3. Owes(V, K, A, b, mode, p, T)
  BY <1>1 DEF JournalOK, Records
<1>4. K \in Seq(Command) /\ Len(A) <= Len(K) /\ \A i \in DOMAIN A : K[i] = A[i]
  <2>1. CASE K = A
    BY <1>2, <2>1
  <2>2. CASE K # A
    <3>1. PICK c : c = current
      OBVIOUS
    <3>2. K = Append(A, c) /\ c \in Command
      BY <1>1, <2>2, <3>1 DEF Known, Basic, LocalOK, Taken
    <3> QED
      BY <1>2, <3>2
  <2> QED
    BY <2>1, <2>2
<1>5. PICK m \in 0 .. Len(K) :
        LET B == SubSeq(K, 1, m) IN
        /\ B \in Seq(Command) /\ Len(B) = m
        /\ Consumed(b, V, b.last) = [last |-> m, applied |-> B]
        /\ \A q : q # "down" => Owes(V, B, B, b, mode, q, T)
  BY <1>2, <1>3, <1>4, OwesRecovered
<1>6. Recovered = Consumed(b, V, b.last)
  BY <1>1 DEF Recovered
<1> QED
  BY <1>1, <1>5, <1>6

(* The journal is cut to its valid bytes; the new process goes on from there. *)
LEMMA RestartJournal ==
  ASSUME Basic, JournalOK, Restart
  PROVE  JournalOK'
<1>1. /\ process = "down" /\ process' = "open" /\ pc' = "poll" /\ stream' = <<>>
      /\ UNCHANGED <<journal, snapshot, told>>
  BY DEF Restart, disk
<1>2. PICK V, K, b, mode, T, f : /\ V = ValidRecords(file) /\ K = Known
                                 /\ b = Base /\ mode = journal /\ T = told /\ f = file
  OBVIOUS
<1>3. PICK m \in 0 .. Len(K) :
        LET B == SubSeq(K, 1, m) IN
        /\ B \in Seq(Command) /\ Len(B) = m
        /\ Recovered = [last |-> m, applied |-> B]
        /\ \A q : q # "down" => Owes(V, B, B, b, mode, q, T)
  BY <1>1, <1>2, RecoveredIs
<1>4. PICK B : B = SubSeq(K, 1, m)
  OBVIOUS
<1>5. B \in Seq(Command) /\ Owes(V, B, B, b, mode, "open", T)
  <2>1. "open" # "down"
    OBVIOUS
  <2> QED
    BY <1>3, <1>4, <2>1
<1>6. applied' = B
  BY <1>3, <1>4 DEF Restart
<1>7. f \in Seq(Command \cup {Torn})
  BY <1>2 DEF Basic, TypeOK
<1>8. V \in Seq(Command) /\ V = SubSeq(f, 1, Len(V)) /\ Len(V) \in 0 .. Len(f)
  BY <1>2, <1>7, ValidPrefix
<1>9. file' = V
  BY <1>2, <1>8 DEF Restart, ValidBytes
<1>10. V \o <<>> = V
  BY <1>8, ConcatNothing
<1>11. Records' = V /\ Known' = B
  BY <1>1, <1>6, <1>9, <1>10 DEF Records, Known
<1>12. Base' = b
  BY <1>1, <1>2, BaseSame
<1>13. Owes(Records', Known', applied', Base', journal', process', told')
  BY <1>1, <1>2, <1>5, <1>6, <1>11, <1>12
<1>14. journal' = "none" => file' = <<>> /\ stream' = <<>>
  <2> SUFFICES ASSUME journal = "none" PROVE V = <<>>
    BY <1>1, <1>9
  <2>1. f = <<>>
    BY <1>2 DEF JournalOK
  <2>2. Len(V) = 0
    BY <1>8, <2>1
  <2> QED
    BY <1>8, <2>2
<1> QED
  BY <1>1, <1>8, <1>9, <1>13, <1>14 DEF JournalOK

LEMMA JournalInit ==
  ASSUME RecoveryInit
  PROVE  JournalOK
<1>1. /\ pc = "poll" /\ applied = <<>> /\ stream = <<>> /\ file = <<>>
      /\ process = "open" /\ snapshot = NoSnapshot /\ told = {}
  BY DEF RecoveryInit, Init
<1>2. <<>> \in Seq(Command) /\ Len(<<>>) = 0 /\ DOMAIN <<>> = {} /\ SubSeq(<<>>, 1, 0) = <<>>
  OBVIOUS
<1>3. <<>> \o <<>> = <<>>
  BY <1>2, ConcatNothing
<1>4. Records = <<>> /\ Known = <<>>
  BY <1>1, <1>3 DEF Records, Known
<1>5. PICK b, e, mode, p : b = Base /\ e = <<>> /\ mode = journal /\ p = process
  OBVIOUS
<1>6. b.last = 0 /\ b = Prefix(e, 0)
  BY <1>1, <1>2, <1>5 DEF Base, EmptyBook, Prefix
<1>7. e \in Seq(Command) /\ Len(e) = 0 /\ DOMAIN e = {}
  BY <1>2, <1>5
<1>8. Kept(e, e, 0)
  BY <1>7 DEF Kept, Faithful, Ascending, Linked
<1>9. Reach(e, 0) = 0
  BY <1>5 DEF Reach, LastOf
<1>10. Owes(e, e, e, b, mode, p, {})
  BY <1>6, <1>7, <1>8, <1>9 DEF Owes
<1> QED
  BY <1>1, <1>2, <1>4, <1>5, <1>10 DEF JournalOK

LEMMA JournalSame ==
  ASSUME JournalOK, UNCHANGED allVars
  PROVE  JournalOK'
<1>1. UNCHANGED <<pc, current, applied, journal, stream, file, process, snapshot, told>>
  BY DEF allVars, vars, engineVars, journalVars, recoveryVars, disk
<1>2. Base' = Base
  BY <1>1, BaseSame
<1>3. Known' = Known
  BY <1>1 DEF Known, BadStream
<1>4. Records' = Records
  BY <1>1 DEF Records, ValidRecords, Torn
<1>5. PICK W, K, A, b, mode, p, T :
         /\ W = Records /\ K = Known /\ A = applied
         /\ b = Base /\ mode = journal /\ p = process /\ T = told
  OBVIOUS
<1>6. Owes(W, K, A, b, mode, p, T)
  BY <1>5 DEF JournalOK
<1>7. Owes(Records', Known', applied', Base', journal', process', told')
  BY <1>1, <1>2, <1>3, <1>4, <1>5, <1>6
<1>8. process # "down" => file \in Seq(Command) /\ (journal = "synchronous" => stream = <<>>)
  BY DEF JournalOK
<1>9. journal = "none" => file = <<>> /\ stream = <<>>
  BY DEF JournalOK
<1>10. process' = process /\ file' = file /\ stream' = stream /\ journal' = journal
  BY <1>1
<1> QED
  BY <1>7, <1>8, <1>9, <1>10 DEF JournalOK

LEMMA JournalStep ==
  ASSUME AssignsSequences, Basic, JournalOK, [RecoveryNext]_allVars
  PROVE  JournalOK'
<1>1. Basic'
  BY BasicStep
<1>2. CASE Next /\ InProcess
  BY <1>1, <1>2, NextJournal
<1>3. CASE OpenJournal \/ BeginSnapshot
  BY <1>3, OpenJournalJournal
<1>4. CASE ReplaceSnapshot
  BY <1>4, ReplaceSnapshotJournal
<1>5. CASE \E whole \in 0 .. Len(Unwritten), torn \in BOOLEAN : Crash(whole, torn)
  BY <1>5, CrashJournal
<1>6. CASE Restart
  BY <1>6, RestartJournal
<1>7. CASE UNCHANGED allVars
  BY <1>7, JournalSame
<1> QED
  BY <1>2, <1>3, <1>4, <1>5, <1>6, <1>7 DEF RecoveryNext

(* The journal of GatewayEngineRunner, with the snapshot, holds the history of
   its book in every state: in ascending order, and without a gap from the
   snapshot on. *)
THEOREM JournalAlwaysOwes ==
  ASSUME AssignsSequences
  PROVE  RecoverySpec => [](Basic /\ JournalOK)
<1>1. RecoveryInit => Basic /\ JournalOK
  BY BasicInit, JournalInit
<1>2. (Basic /\ JournalOK) /\ [RecoveryNext]_allVars => (Basic /\ JournalOK)'
  BY BasicStep, JournalStep
<1> QED
  BY <1>1, <1>2, PTL DEF RecoverySpec

(* With a synchronous journal, nothing that a client has learnt of is undone by
   any number of crashes: the book holds it, at its sequence. *)
THEOREM ToldAlwaysDurable ==
  ASSUME AssignsSequences
  PROVE  RecoverySpec => []ToldIsDurable
<1>1. Basic /\ JournalOK => ToldIsDurable
  <2> SUFFICES ASSUME Basic, JournalOK, journal = "synchronous", NEW c \in told
               PROVE  c.sequence <= Len(applied) /\ applied[c.sequence] = c
    BY DEF ToldIsDurable
  <2>1. c.sequence \in DOMAIN applied /\ applied[c.sequence] = c
    BY DEF JournalOK, Owes
  <2>2. applied \in Seq(Command)
    BY DEF Basic, TypeOK
  <2> QED
    BY <2>1, <2>2
<1> QED
  BY <1>1, JournalAlwaysOwes, PTL

(* Records numbered from 1 that reach the snapshot replay to the same book from
   the snapshot and from nothing. *)
LEMMA SameBook ==
  ASSUME NEW V \in Seq(Command), NEW K \in Seq(Command), NEW k \in 0 .. Len(K), Kept(V, K, k),
         \A i \in DOMAIN V : V[i].sequence = i, Len(V) >= k
  PROVE  Consumed(Prefix(K, k), V, k) = Consumed(EmptyBook, V, -1)
<1>1. Len(V) \in Nat /\ DOMAIN V = 1 .. Len(V) /\ Len(K) \in Nat /\ k \in Nat
  OBVIOUS
<1>2. LastOf(V) = Len(V)
  <2>1. CASE V = <<>>
    BY <2>1 DEF LastOf
  <2>2. CASE V # <<>>
    <3>1. Len(V) \in DOMAIN V
      BY <2>2
    <3> QED
      BY <2>2, <3>1 DEF LastOf
  <2> QED
    BY <2>1, <2>2
<1>3. Reach(V, k) = Len(V) /\ Reach(V, 0) = Len(V)
  <2>1. PICK l, n : l = LastOf(V) /\ n = Len(V)
    OBVIOUS
  <2>2. l = n /\ n \in Nat /\ k \in Nat /\ n >= k
    BY <1>1, <1>2, <2>1
  <2>3. (IF l > k THEN l ELSE k) = n /\ (IF l > 0 THEN l ELSE 0) = n
    BY <2>2
  <2> QED
    BY <2>1, <2>3 DEF Reach
<1>4. Kept(V, K, 0)
  <2>1. Linked(V, 0)
    <3>1. ASSUME NEW i \in DOMAIN V, V[i].sequence > 0 + 1
          PROVE  i > 1 /\ V[i].sequence = V[i - 1].sequence + 1
      <4>1. V[i].sequence = i /\ i \in Nat /\ i > 1
        BY <1>1, <3>1
      <4>2. i - 1 \in DOMAIN V
        BY <1>1, <4>1
      <4>3. V[i - 1].sequence = i - 1
        BY <4>2
      <4> QED
        BY <4>1, <4>3
    <3> QED
      BY <3>1 DEF Linked
  <2> QED
    BY <2>1 DEF Kept
<1>5. EmptyBook = Prefix(K, 0)
  <2>1. SubSeq(K, 1, 0) = <<>>
    OBVIOUS
  <2> QED
    BY <2>1 DEF EmptyBook, Prefix
<1>6. Consumed(Prefix(K, 0), V, -1) = Prefix(K, Len(V))
  <2>1. -1 \in Int /\ -1 <= 0 /\ 0 \in 0 .. Len(K)
    BY <1>1
  <2> QED
    BY <1>3, <1>4, <2>1, ReplayReaches
<1>7. Consumed(Prefix(K, k), V, k) = Prefix(K, Len(V))
  <2>1. k \in Int /\ k <= k
    BY <1>1
  <2> QED
    BY <1>3, <2>1, ReplayReaches
<1> QED
  BY <1>5, <1>6, <1>7

(* With a synchronous journal the latest snapshot with the records after it and
   the replay of the whole journal are one book, in every state; and no bound
   on a variable is ever exceeded. *)
THEOREM RoutesAlwaysAgree ==
  ASSUME AssignsSequences
  PROVE  RecoverySpec => []RoutesAgree
<1>1. Basic => RecoveryTypeOK /\ snapshot # TornSnapshot
  <2> SUFFICES ASSUME Basic PROVE RecoveryTypeOK /\ snapshot # TornSnapshot
    OBVIOUS
  <2>1. TypeOK /\ OutsideOK /\ Counted
    BY DEF Basic
  <2>2. CASE snapshot = NoSnapshot
    BY <2>1, <2>2 DEF RecoveryTypeOK, OutsideOK, NoSnapshot, TornSnapshot
  <2>3. CASE snapshot # NoSnapshot
    <3>1. PICK d : d = snapshot
      OBVIOUS
    <3>2. d \in Book
      BY <2>1, <2>3, <3>1 DEF OutsideOK
    <3>3. d.last <= sent
      BY <2>1, <2>3, <3>1 DEF Counted, Base, ReadSnapshot
    <3>4. d.last \in 0 .. MaxCommands
      <4>1. sent \in 0 .. MaxCommands /\ MaxCommands \in Nat /\ d.last \in Nat
        BY <2>1, <3>2, RunnerAssumption DEF TypeOK, Book
      <4> QED
        BY <3>3, <4>1
    <3>5. d \in [last: 0 .. MaxCommands, applied: Seq(Command)]
      BY <3>2, <3>4 DEF Book
    <3>6. d # TornSnapshot
      <4>1. d.last \in Nat
        BY <3>2 DEF Book
      <4> QED
        BY <4>1 DEF TornSnapshot
    <3> QED
      BY <2>1, <3>1, <3>5, <3>6 DEF RecoveryTypeOK, OutsideOK
  <2> QED
    BY <2>2, <2>3
<1>2. Basic /\ JournalOK => (journal = "synchronous" => Recovered = FullReplay(file))
  <2> SUFFICES ASSUME Basic, JournalOK, journal = "synchronous"
               PROVE  Recovered = FullReplay(file)
    OBVIOUS
  <2>1. PICK V, K, A, b, mode, p, T, f :
           /\ V = ValidRecords(file) /\ K = Known /\ A = applied /\ f = file
           /\ b = Base /\ mode = journal /\ p = process /\ T = told
    OBVIOUS
  <2>2. f \in Seq(Command \cup {Torn}) /\ A \in Seq(Command)
    BY <2>1 DEF Basic, TypeOK
  <2>3. V \in Seq(Command) /\ (f \in Seq(Command) => V = f)
    BY <2>1, <2>2, ValidPrefix
  <2>4. Owes(V, K, A, b, mode, p, T)
    <3>1. CASE process = "down"
      BY <2>1, <3>1 DEF JournalOK, Records
    <3>2. CASE process # "down"
      <4>1. f \in Seq(Command) /\ stream = <<>> /\ Records = file \o stream
        BY <2>1, <3>2 DEF JournalOK, Records
      <4>2. Records = f
        BY <2>1, <4>1, ConcatNothing
      <4> QED
        BY <2>1, <2>3, <4>1, <4>2 DEF JournalOK
    <3> QED
      BY <3>1, <3>2
  <2>5. K \in Seq(Command) /\ Len(A) <= Len(K) /\ Len(A) \in Nat
        /\ \A i \in DOMAIN A : K[i] = A[i]
    <3>1. CASE K = A
      BY <2>2, <3>1
    <3>2. CASE K # A
      <4>1. PICK c : c = current
        OBVIOUS
      <4>2. K = Append(A, c) /\ c \in Command
        BY <2>1, <3>2, <4>1 DEF Known, Basic, LocalOK, Taken
      <4> QED
        BY <2>2, <4>2
    <3> QED
      BY <3>1, <3>2
  <2>6. PICK k : k = b.last
    OBVIOUS
  <2>7. /\ k \in 0 .. Len(A) /\ b = Prefix(A, k) /\ Kept(V, K, k)
        /\ (\A i \in DOMAIN V : V[i].sequence = i) /\ Len(V) >= Len(A) /\ Len(V) \in Nat
    BY <2>1, <2>3, <2>4, <2>6 DEF Owes
  <2>8. k \in 0 .. Len(K) /\ Len(V) >= k /\ Len(K) \in Nat
    BY <2>5, <2>7
  <2>9. SubSeq(A, 1, k) = SubSeq(K, 1, k)
    <3>1. PICK x, y : x = SubSeq(A, 1, k) /\ y = SubSeq(K, 1, k)
      OBVIOUS
    <3>2. /\ x \in Seq(Command) /\ y \in Seq(Command) /\ Len(x) = k /\ Len(y) = k
          /\ \A i \in 1 .. k : x[i] = A[i] /\ y[i] = K[i] /\ i \in DOMAIN A
      BY <2>2, <2>5, <2>7, <2>8, <3>1
    <3>3. \A i \in 1 .. Len(x) : x[i] = y[i]
      BY <2>5, <3>2
    <3>4. x = y
      BY <3>2, <3>3, SameElements
    <3> QED
      BY <3>1, <3>4
  <2>10. b = Prefix(K, k)
    BY <2>7, <2>9 DEF Prefix
  <2>11. Consumed(b, V, k) = Consumed(EmptyBook, V, -1)
    BY <2>3, <2>5, <2>7, <2>8, <2>10, SameBook
  <2> QED
    BY <2>1, <2>6, <2>11 DEF Recovered, FullReplay
<1>3. Basic /\ JournalOK => RoutesAgree
  BY <1>1, <1>2 DEF RoutesAgree
<1> QED
  BY <1>3, JournalAlwaysOwes, PTL

(* However the journal is written and wherever the process ended, the recovered
   book is the one it had, less a tail, or with the one command more that had
   been journalled and not processed. *)
THEOREM RecoveredAlwaysReal ==
  ASSUME AssignsSequences
  PROVE  RecoverySpec => RecoveredIsReal
<1>1. Basic /\ JournalOK /\ [RecoveryNext]_allVars
        => [process = "down" /\ process' # "down" =>
              \/ IsPrefix(applied', applied)
              \/ applied' = Append(applied, current)]_allVars
  <2> SUFFICES ASSUME Basic, JournalOK, RecoveryNext, process = "down", process' # "down"
               PROVE  IsPrefix(applied', applied) \/ applied' = Append(applied, current)
    OBVIOUS
  <2>1. Restart
    BY DEF RecoveryNext, InProcess, OpenJournal, BeginSnapshot, ReplaceSnapshot, Crash
  <2>2. PICK K, A, c : K = Known /\ A = applied /\ c = current
    OBVIOUS
  <2>3. PICK m \in 0 .. Len(K) : Recovered = [last |-> m, applied |-> SubSeq(K, 1, m)]
    BY <2>2, RecoveredIs
  <2>4. PICK B : B = SubSeq(K, 1, m)
    OBVIOUS
  <2>5. applied' = B
    BY <2>1, <2>3, <2>4 DEF Restart
  <2>6. A \in Seq(Command) /\ Len(A) \in Nat
    BY <2>2 DEF Basic, TypeOK
  <2>7. CASE K = A
    <3>1. m \in 0 .. Len(A) /\ Len(B) = m /\ B \in Seq(Command) /\ SubSeq(B, 1, m) = SubSeq(A, 1, m)
      BY <2>4, <2>6, <2>7
    <3>2. IsPrefix(B, A)
      BY <2>6, <3>1 DEF IsPrefix
    <3> QED
      BY <2>2, <2>5, <3>2
  <2>8. CASE K # A
    <3>1. K = Append(A, c) /\ c \in Command
      BY <2>2, <2>8 DEF Known, Basic, LocalOK, Taken
    <3>2. K \in Seq(Command) /\ Len(K) = Len(A) + 1 /\ \A i \in 1 .. Len(A) : K[i] = A[i]
      BY <2>6, <3>1
    <3>3. CASE m = Len(K)
      <4>1. B = K
        BY <2>4, <3>2, <3>3
      <4> QED
        BY <2>2, <2>5, <3>1, <4>1
    <3>4. CASE m # Len(K)
      <4>1. m \in 0 .. Len(A) /\ Len(B) = m /\ B \in Seq(Command)
        BY <2>4, <2>6, <3>2, <3>4
      <4>2. \A i \in 1 .. m : B[i] = A[i]
        BY <2>4, <2>6, <3>2, <4>1
      <4>3. SubSeq(B, 1, m) = SubSeq(A, 1, m)
        BY <2>6, <4>1, <4>2
      <4>4. IsPrefix(B, A)
        BY <2>6, <4>1, <4>3 DEF IsPrefix
      <4> QED
        BY <2>2, <2>5, <4>4
    <3> QED
      BY <3>3, <3>4
  <2> QED
    BY <2>7, <2>8
<1> QED
  BY <1>1, JournalAlwaysOwes, PTL DEF RecoverySpec, RecoveredIsReal
=============================================================================
