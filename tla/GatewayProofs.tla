---------------------------- MODULE GatewayProofs ----------------------------
(***************************************************************************)
(* The gateway's routing, ordering and risk checks, for every number of    *)
(* descriptors, sessions, connections and frames and every capacity of its *)
(* queues and buffers.                                                     *)
(***************************************************************************)
EXTENDS Gateway, SequenceTheorems, FiniteSetTheorems, TLAPS

EpollEvent == [fd: Fds, who: Clients, hup: BOOLEAN, in: BOOLEAN, out: BOOLEAN]

(* A batch has at most one event of a descriptor, and none once it is handled. *)
BatchOK ==
  /\ batch \subseteq EpollEvent \cup {Listening}
  /\ \A e, f \in batch \ {Listening} : e.fd = f.fd => e = f
  /\ pc = "drain" => batch = {}

(* The event being handled is for a live connection that the rest of the batch
   is not about. *)
CurrentOK ==
  pc = "decode" =>
    /\ current \in EpollEvent
    /\ current.fd \in Live
    /\ connections[current.fd].who = current.who
    /\ \A e \in batch \ {Listening} : e.fd # current.fd

(* No two connections have the same number, and a new one gets a fresh one. *)
WhoOK ==
  /\ \A fd \in Live : connections[fd].who <= opened
  /\ \A fd, other \in Live : connections[fd].who = connections[other].who => fd = other

(* Connection who, if it lives, has bound this session. *)
BoundBy(who, session) ==
  /\ who <= opened
  /\ \A fd \in Live : connections[fd].who = who => connections[fd].validator.session = session

(* What is in the engine carries the session of the connection it belongs to,
   and what is in a transmit buffer belongs there or to a connection that is gone. *)
InFlightOK ==
  /\ \A q \in Elements(requests) : BoundBy(q.who, q.request.session)
  /\ \A r \in Elements(responses) \cup Elements(emitting) : BoundBy(r.who, r.session)
  /\ \A fd \in Live : \A r \in Elements(connections[fd].transmit) : r.who <= opened

IndInv ==
  /\ SessionsBound /\ BatchOK /\ BatchFresh /\ CurrentOK /\ WhoOK /\ InFlightOK
  /\ NeverToAnotherLiveClient /\ AdmittedWithinRisk

-----------------------------------------------------------------------------
(* What a sequence holds after the operations of a queue. *)
LEMMA AppendElements ==
  ASSUME NEW S, NEW s \in Seq(S), NEW x \in S
  PROVE  Append(s, x) \in Seq(S) /\ Elements(Append(s, x)) = Elements(s) \cup {x}
<1>1. /\ Append(s, x) \in Seq(S) /\ Len(Append(s, x)) = Len(s) + 1 /\ Len(s) \in Nat
      /\ DOMAIN s = 1 .. Len(s) /\ DOMAIN Append(s, x) = 1 .. Len(s) + 1
      /\ \A i \in 1 .. Len(s) : Append(s, x)[i] = s[i]
      /\ Append(s, x)[Len(s) + 1] = x
  OBVIOUS
<1> QED
  BY <1>1 DEF Elements

LEMMA TailElements ==
  ASSUME NEW S, NEW s \in Seq(S), s # <<>>
  PROVE  /\ Head(s) \in S /\ Tail(s) \in Seq(S)
         /\ Elements(s) = {Head(s)} \cup Elements(Tail(s))
<1>1. /\ Tail(s) \in Seq(S) /\ Len(Tail(s)) = Len(s) - 1 /\ Len(s) \in Nat \ {0}
      /\ DOMAIN s = 1 .. Len(s) /\ DOMAIN Tail(s) = 1 .. Len(s) - 1
      /\ \A i \in 1 .. Len(s) - 1 : Tail(s)[i] = s[i + 1]
      /\ Head(s) = s[1] /\ s[1] \in S
  OBVIOUS
<1>2. ASSUME NEW i \in DOMAIN s PROVE s[i] \in {Head(s)} \cup Elements(Tail(s))
  <2>1. CASE i = 1
    BY <1>1, <2>1
  <2>2. CASE i # 1
    <3>1. i - 1 \in 1 .. Len(s) - 1 /\ Tail(s)[i - 1] = s[i]
      BY <1>1, <1>2, <2>2
    <3> QED
      BY <1>1, <3>1 DEF Elements
  <2> QED
    BY <2>1, <2>2
<1>3. ASSUME NEW i \in DOMAIN Tail(s) PROVE Tail(s)[i] \in Elements(s)
  <2>1. i + 1 \in DOMAIN s /\ Tail(s)[i] = s[i + 1]
    BY <1>1, <1>3
  <2> QED
    BY <2>1 DEF Elements
<1>4. Head(s) \in Elements(s)
  BY <1>1 DEF Elements
<1> QED
  BY <1>1, <1>2, <1>3, <1>4 DEF Elements

LEMMA SubSeqParts ==
  ASSUME NEW S, NEW s \in Seq(S), NEW n \in 1 .. Len(s)
  PROVE  /\ DOMAIN SubSeq(s, 1, n) = 1 .. n
         /\ \A i \in 1 .. n : SubSeq(s, 1, n)[i] = s[i] /\ i \in DOMAIN s
         /\ DOMAIN SubSeq(s, n + 1, Len(s)) = 1 .. Len(s) - n
         /\ \A i \in 1 .. Len(s) - n :
              SubSeq(s, n + 1, Len(s))[i] = s[n + i] /\ n + i \in DOMAIN s
<1>1. PICK l \in Nat : l = Len(s) /\ n \in 1 .. l /\ n \in Nat /\ DOMAIN s = 1 .. l
  OBVIOUS
<1> DEFINE first == SubSeq(s, 1, n)
           rest == SubSeq(s, n + 1, l)
<1>2. first \in Seq(S) /\ Len(first) = n /\ \A i \in 1 .. n : first[i] = s[i]
  BY <1>1, SubSeqProperties
<1>3. \A i \in n + 1 .. l : s[i] \in S
  BY <1>1
<1>4. /\ rest \in Seq(S)
      /\ Len(rest) = IF n + 1 <= l THEN l - (n + 1) + 1 ELSE 0
      /\ \A i \in 1 .. l - (n + 1) + 1 : rest[i] = s[n + 1 + i - 1]
  BY <1>1, <1>3, SubSeqProperties
<1> HIDE DEF first, rest
<1>5. l - (n + 1) + 1 = l - n /\ (~(n + 1 <= l) => l - n = 0) /\ l - n \in Nat
  <2>1. n <= l
    BY <1>1
  <2>2. l - (n + 1) + 1 = l - n
    BY <1>1
  <2>3. ~(n + 1 <= l) => l = n
    BY <1>1, <2>1
  <2> QED
    BY <1>1, <2>1, <2>2, <2>3
<1>6. Len(rest) = l - n
  BY <1>4, <1>5
<1>7. DOMAIN rest = 1 .. l - n /\ DOMAIN first = 1 .. n
  BY <1>2, <1>4, <1>6, LenProperties
<1>8. \A i \in 1 .. l - n : rest[i] = s[n + i] /\ n + i \in 1 .. l
  <2> SUFFICES ASSUME NEW i \in 1 .. l - n PROVE rest[i] = s[n + i] /\ n + i \in 1 .. l
    OBVIOUS
  <2>1. n + 1 + i - 1 = n + i /\ n + i \in 1 .. l
    BY <1>1
  <2> QED
    BY <1>4, <1>5, <2>1
<1>9. \A i \in 1 .. n : i \in 1 .. l
  BY <1>1
<1> QED
  BY <1>1, <1>2, <1>7, <1>8, <1>9 DEF first, rest

LEMMA SubSeqElements ==
  ASSUME NEW S, NEW s \in Seq(S), NEW n \in 1 .. Len(s)
  PROVE  /\ SubSeq(s, 1, n) \in Seq(S) /\ SubSeq(s, n + 1, Len(s)) \in Seq(S)
         /\ Len(SubSeq(s, n + 1, Len(s))) <= Len(s)
         /\ Elements(s) = Elements(SubSeq(s, 1, n)) \cup Elements(SubSeq(s, n + 1, Len(s)))
<1>1. PICK l, first, rest : l = Len(s) /\ first = SubSeq(s, 1, n) /\ rest = SubSeq(s, n + 1, Len(s))
  OBVIOUS
<1>2. l \in Nat /\ n \in Nat /\ n <= l /\ DOMAIN s = 1 .. l
  BY <1>1
<1>3. /\ DOMAIN first = 1 .. n /\ \A i \in 1 .. n : first[i] = s[i] /\ i \in DOMAIN s
      /\ DOMAIN rest = 1 .. l - n /\ \A i \in 1 .. l - n : rest[i] = s[n + i] /\ n + i \in DOMAIN s
  BY <1>1, SubSeqParts
<1>4. first \in Seq(S) /\ rest \in Seq(S)
  <2>1. (\A i \in 1 .. n : s[i] \in S) /\ (\A i \in n + 1 .. l : s[i] \in S)
    BY <1>2
  <2> QED
    BY <1>1, <1>2, <2>1, SubSeqProperties
<1>5. Len(rest) <= l
  <2>1. Len(rest) = l - n
    <3>1. Len(rest) \in Nat /\ DOMAIN rest = 1 .. Len(rest)
      BY <1>4, LenProperties
    <3>2. l - n \in Nat
      BY <1>2
    <3> QED
      BY <1>3, <3>1, <3>2
  <2> QED
    BY <1>2, <2>1
<1>6. ASSUME NEW i \in DOMAIN s PROVE s[i] \in Elements(first) \cup Elements(rest)
  <2>1. CASE i <= n
    BY <1>2, <1>3, <2>1 DEF Elements
  <2>2. CASE i > n
    <3>1. i - n \in 1 .. l - n /\ n + (i - n) = i
      BY <1>2, <2>2
    <3> QED
      BY <1>3, <3>1 DEF Elements
  <2> QED
    BY <1>2, <2>1, <2>2
<1>7. Elements(s) = Elements(first) \cup Elements(rest)
  BY <1>3, <1>6 DEF Elements
<1> QED
  BY <1>1, <1>4, <1>5, <1>7

LEMMA ElementsTyped ==
  ASSUME NEW S, NEW s \in Seq(S)
  PROVE  Elements(s) \subseteq S
BY DEF Elements

-----------------------------------------------------------------------------
(* The parts of a connection. *)
LEMMA ConnectionParts ==
  ASSUME TypeOK, NEW fd \in Live
  PROVE  /\ fd \in Fds /\ connections[fd] \in Connection /\ connections[fd] # None
         /\ connections[fd].who \in Clients /\ connections[fd].who \in Nat
         /\ connections[fd].validator \in [session: Sessions \cup {None}, next: 1 .. MaxFrames + 1]
         /\ connections[fd].validator.session \in Sessions \cup {None}
         /\ connections[fd].transmit \in Seq(Response)
         /\ Len(connections[fd].transmit) <= TransmitCapacity
         /\ connections[fd].wantsOut \in BOOLEAN
<1>1. fd \in Fds /\ connections[fd] \in Connection /\ connections[fd] # None
      /\ Len(connections[fd].transmit) <= TransmitCapacity
  BY DEF TypeOK, Live
<1>2. /\ connections[fd].who \in Clients
      /\ connections[fd].validator \in [session: Sessions \cup {None}, next: 1 .. MaxFrames + 1]
      /\ connections[fd].transmit \in Seq(Response)
      /\ connections[fd].wantsOut \in BOOLEAN
  BY <1>1 DEF Connection
<1>3. connections[fd].who \in Nat
  BY <1>2, GatewayAssumption DEF Clients
<1> QED
  BY <1>1, <1>2, <1>3

(* A step after which no connection, and nothing in flight, is new. *)
LEMMA NothingNew ==
  ASSUME IndInv, opened' = opened,
         \A fd \in Live' : /\ fd \in Live
                           /\ connections'[fd].who = connections[fd].who
                           /\ connections'[fd].validator.session = connections[fd].validator.session
                           /\ Elements(connections'[fd].transmit) \subseteq Elements(connections[fd].transmit),
         Elements(requests') \subseteq Elements(requests),
         Elements(responses') \cup Elements(emitting') \subseteq Elements(responses) \cup Elements(emitting)
  PROVE  WhoOK' /\ InFlightOK' /\ NeverToAnotherLiveClient' /\ AdmittedWithinRisk'
<1>1. ASSUME NEW who, NEW session, BoundBy(who, session) PROVE BoundBy(who, session)'
  BY <1>1 DEF BoundBy
<1>2. WhoOK'
  BY DEF IndInv, WhoOK
<1>3. InFlightOK'
  BY <1>1 DEF IndInv, InFlightOK, Elements
<1>4. NeverToAnotherLiveClient'
  <2> SUFFICES ASSUME NEW fd \in Live', NEW other \in Live',
                      NEW r \in Elements(connections'[fd].transmit),
                      r.who = connections'[other].who
               PROVE  fd = other
    BY DEF NeverToAnotherLiveClient, Elements
  <2>1. fd \in Live /\ other \in Live /\ r \in Elements(connections[fd].transmit)
    OBVIOUS
  <2>2. r.who = connections[other].who
    OBVIOUS
  <2> QED
    BY <2>1, <2>2 DEF IndInv, NeverToAnotherLiveClient
<1>5. AdmittedWithinRisk'
  BY DEF IndInv, AdmittedWithinRisk, Elements
<1> QED
  BY <1>2, <1>3, <1>4, <1>5

(* close_connection takes one connection out, and its session out of the map. *)
LEMMA CloseTakesOut ==
  ASSUME IndInv, NEW fd \in Live, CloseConnection(fd)
  PROVE  /\ connections' \in [Fds -> Connection \cup {None}]
         /\ Live' = Live \ {fd}
         /\ \A other \in Live' : connections'[other] = connections[other]
         /\ sessionToFd' \in [Sessions -> Fds \cup {None}]
         /\ inbound' \in [Fds -> Seq(Frame \cup {Malformed})]
         /\ hungUp' \in [Fds -> BOOLEAN]
         /\ \A s \in Sessions, other \in Fds :
              sessionToFd'[s] = other <=> other \in Live' /\ connections'[other].validator.session = s
<1>1. /\ TypeOK /\ fd \in Fds
      /\ \A s \in Sessions, other \in Fds :
           sessionToFd[s] = other <=> other \in Live /\ connections[other].validator.session = s
  BY DEF IndInv, SessionsBound, Live
<1>2. /\ connections \in [Fds -> Connection \cup {None}]
      /\ connections' = [connections EXCEPT ![fd] = None]
      /\ connections' \in [Fds -> Connection \cup {None}]
  BY <1>1 DEF TypeOK, CloseConnection
<1>3. Live' = Live \ {fd} /\ \A other \in Live' : connections'[other] = connections[other]
  BY <1>1, <1>2 DEF Live
<1>4. /\ sessionToFd \in [Sessions -> Fds \cup {None}]
      /\ sessionToFd' = [s \in Sessions |->
                           IF s = connections[fd].validator.session THEN None ELSE sessionToFd[s]]
      /\ sessionToFd' \in [Sessions -> Fds \cup {None}]
  BY <1>1 DEF TypeOK, CloseConnection
<1>5. ASSUME NEW s \in Sessions, NEW other \in Fds
      PROVE  sessionToFd'[s] = other <=> other \in Live' /\ connections'[other].validator.session = s
  <2>1. sessionToFd'[s] = IF s = connections[fd].validator.session THEN None ELSE sessionToFd[s]
    BY <1>4
  <2>2. s = connections[fd].validator.session => sessionToFd[s] = fd
    BY <1>1
  <2>3. None # other
    BY GatewayAssumption
  <2> QED
    BY <1>1, <1>3, <2>1, <2>2, <2>3
<1>6. inbound' \in [Fds -> Seq(Frame \cup {Malformed})]
  BY <1>1 DEF TypeOK, CloseConnection
<1>7. hungUp' \in [Fds -> BOOLEAN]
  BY <1>1 DEF TypeOK, CloseConnection
<1> QED
  BY <1>2, <1>3, <1>4, <1>5, <1>6, <1>7

-----------------------------------------------------------------------------
(* Closing a connection keeps everything but the epoll events, which depend on
   where run() is. *)
LEMMA CloseKeeps ==
  ASSUME IndInv, NEW fd \in Live, CloseConnection(fd),
         pc' \in {"drain", "dispatch", "decode"},
         frames' \in Seq(Frame \cup {Malformed}),
         responses' \in Seq(Response), Elements(responses') \subseteq Elements(responses),
         UNCHANGED <<requests, emitting, opened, sent, received>>
  PROVE  SessionsBound' /\ WhoOK' /\ InFlightOK' /\ NeverToAnotherLiveClient' /\ AdmittedWithinRisk'
<1>1. TypeOK
  BY DEF IndInv, SessionsBound
<1>2. /\ connections' \in [Fds -> Connection \cup {None}]
      /\ Live' = Live \ {fd}
      /\ \A other \in Live' : connections'[other] = connections[other]
      /\ sessionToFd' \in [Sessions -> Fds \cup {None}]
      /\ inbound' \in [Fds -> Seq(Frame \cup {Malformed})]
      /\ hungUp' \in [Fds -> BOOLEAN]
      /\ \A s \in Sessions, other \in Fds :
           sessionToFd'[s] = other <=> other \in Live' /\ connections'[other].validator.session = s
  BY CloseTakesOut
<1>3. \A other \in Live' : Len(connections'[other].transmit) <= TransmitCapacity
  BY <1>1, <1>2 DEF TypeOK
<1>4. TypeOK'
  BY <1>1, <1>2, <1>3 DEF TypeOK
<1>5. SessionsBound'
  BY <1>2, <1>4 DEF SessionsBound
<1>6. Elements(responses') \cup Elements(emitting') \subseteq Elements(responses) \cup Elements(emitting)
  OBVIOUS
<1>7. WhoOK' /\ InFlightOK' /\ NeverToAnotherLiveClient' /\ AdmittedWithinRisk'
  BY <1>2, <1>6, NothingNew
<1> QED
  BY <1>5, <1>7

(* An event is done with: those left are still about live connections. *)
LEMMA GoOnKeeps ==
  ASSUME IndInv, NEW rest, rest \subseteq batch, GoOn(rest),
         \A e \in rest \ {Listening} :
           e.fd \in Live' /\ connections'[e.fd].who = connections[e.fd].who
  PROVE  BatchOK' /\ BatchFresh' /\ CurrentOK' /\ pc' \in {"drain", "dispatch", "decode"}
<1>1. /\ batch' = rest /\ pc' = IF rest = {} THEN "drain" ELSE "dispatch"
      /\ batch \subseteq EpollEvent \cup {Listening}
      /\ \A e, f \in batch \ {Listening} : e.fd = f.fd => e = f
      /\ \A e \in batch \ {Listening} : connections[e.fd].who = e.who
  BY DEF GoOn, IndInv, BatchOK, BatchFresh
<1>2. BatchOK'
  BY <1>1 DEF BatchOK
<1>3. BatchFresh'
  BY <1>1 DEF BatchFresh
<1>4. CurrentOK' /\ pc' \in {"drain", "dispatch", "decode"}
  BY <1>1 DEF CurrentOK
<1> QED
  BY <1>2, <1>3, <1>4

(* The connection of an event is closed: HangUp and FlushFails. *)
LEMMA CloseEvent ==
  ASSUME IndInv, NEW e \in batch \ {Listening}, CloseConnection(e.fd), GoOn(batch \ {e}),
         UNCHANGED <<frames, engineVars, opened, sent, received>>
  PROVE  IndInv'
<1>1. e.fd \in Live /\ TypeOK
  BY DEF IndInv, BatchFresh, SessionsBound
<1>2. Live' = Live \ {e.fd} /\ \A other \in Live' : connections'[other] = connections[other]
  BY <1>1, CloseTakesOut
<1>3. ASSUME NEW f \in (batch \ {e}) \ {Listening}
      PROVE  f.fd \in Live' /\ connections'[f.fd].who = connections[f.fd].who
  BY <1>2 DEF IndInv, BatchFresh, BatchOK
<1>4. BatchOK' /\ BatchFresh' /\ CurrentOK' /\ pc' \in {"drain", "dispatch", "decode"}
  BY <1>3, GoOnKeeps
<1>5. /\ frames' \in Seq(Frame \cup {Malformed}) /\ responses' \in Seq(Response)
      /\ Elements(responses') \subseteq Elements(responses)
      /\ UNCHANGED <<requests, emitting, opened, sent, received>>
  BY <1>1 DEF TypeOK, engineVars
<1>6. SessionsBound' /\ WhoOK' /\ InFlightOK' /\ NeverToAnotherLiveClient' /\ AdmittedWithinRisk'
  BY <1>1, <1>4, <1>5, CloseKeeps
<1> QED
  BY <1>4, <1>6 DEF IndInv

(* The connection being read is closed: every way read_requests fails. *)
LEMMA AbortKeeps ==
  ASSUME IndInv, pc = "decode", Abort
  PROVE  IndInv'
<1>1. /\ current.fd \in Live /\ TypeOK /\ \A e \in batch \ {Listening} : e.fd # current.fd
      /\ CloseConnection(current.fd) /\ GoOn(batch)
  BY DEF IndInv, CurrentOK, SessionsBound, Abort
<1>2. /\ Live' = Live \ {current.fd}
      /\ \A other \in Live' : connections'[other] = connections[other]
  BY <1>1, CloseTakesOut
<1>3. ASSUME NEW f \in batch \ {Listening}
      PROVE  f.fd \in Live' /\ connections'[f.fd].who = connections[f.fd].who
  BY <1>1, <1>2 DEF IndInv, BatchFresh
<1>4. BatchOK' /\ BatchFresh' /\ CurrentOK' /\ pc' \in {"drain", "dispatch", "decode"}
  BY <1>1, <1>3, GoOnKeeps
<1>5. <<>> \in Seq(Frame \cup {Malformed})
  OBVIOUS
<1>6. /\ frames' \in Seq(Frame \cup {Malformed}) /\ responses' \in Seq(Response)
      /\ Elements(responses') \subseteq Elements(responses)
      /\ UNCHANGED <<requests, emitting, opened, sent, received>>
  BY <1>1, <1>5 DEF TypeOK, engineVars, Abort
<1>7. SessionsBound' /\ WhoOK' /\ InFlightOK' /\ NeverToAnotherLiveClient' /\ AdmittedWithinRisk'
  BY <1>1, <1>4, <1>6, CloseKeeps
<1> QED
  BY <1>4, <1>7 DEF IndInv

-----------------------------------------------------------------------------
(* queue_response appends, and leaves the rest of the connection alone. *)
LEMMA QueuedParts ==
  ASSUME NEW c \in Connection, NEW r \in Response, HasRoom(c),
         Len(c.transmit) <= TransmitCapacity
  PROVE  /\ Queued(c, r) \in Connection
         /\ Queued(c, r).who = c.who /\ Queued(c, r).validator = c.validator
         /\ Queued(c, r).transmit = Append(c.transmit, r)
         /\ Len(Queued(c, r).transmit) <= TransmitCapacity
         /\ Elements(Queued(c, r).transmit) = Elements(c.transmit) \cup {r}
<1>1. /\ c.who \in Clients /\ c.transmit \in Seq(Response)
      /\ c.validator \in [session: Sessions \cup {None}, next: 1 .. MaxFrames + 1]
      /\ c = [who |-> c.who, validator |-> c.validator, transmit |-> c.transmit, wantsOut |-> c.wantsOut]
  BY DEF Connection
<1>2. /\ Append(c.transmit, r) \in Seq(Response)
      /\ Elements(Append(c.transmit, r)) = Elements(c.transmit) \cup {r}
  BY <1>1, AppendElements
<1>3. Queued(c, r) = [who |-> c.who, validator |-> c.validator, transmit |-> Append(c.transmit, r),
                      wantsOut |-> Append(c.transmit, r) # <<>>]
  <2> DEFINE mid == [c EXCEPT !.transmit = Append(@, r)]
  <2>1. mid = [who |-> c.who, validator |-> c.validator, transmit |-> Append(c.transmit, r),
               wantsOut |-> c.wantsOut]
    <3>1. PICK w, v, t, o : c = [who |-> w, validator |-> v, transmit |-> t, wantsOut |-> o]
      BY <1>1
    <3> QED
      BY <3>1, SMTT(30)
  <2> HIDE DEF mid
  <2>2. mid.transmit = Append(c.transmit, r)
    BY <2>1
  <2>3. UpdateInterest(mid) = [mid EXCEPT !.wantsOut = Append(c.transmit, r) # <<>>]
    BY <2>2 DEF UpdateInterest
  <2>4. Queued(c, r) = UpdateInterest(mid)
    BY DEF Queued, mid
  <2> QED
    BY <2>1, <2>3, <2>4
<1>4. Len(Append(c.transmit, r)) <= TransmitCapacity
  <2>1. Len(Append(c.transmit, r)) = Len(c.transmit) + 1 /\ Len(c.transmit) \in Nat
    BY <1>1
  <2> QED
    BY <2>1, GatewayAssumption DEF HasRoom
<1>5. Queued(c, r) \in Connection
  BY <1>1, <1>2, <1>3 DEF Connection
<1> QED
  BY <1>2, <1>3, <1>4, <1>5

LEMMA RouteResponseKeeps ==
  ASSUME IndInv, RouteResponse
  PROVE  IndInv'
<1> DEFINE r == Head(responses)
           fd == sessionToFd[r.session]
           lost == IF fd = None THEN TRUE ELSE connections[fd] = None
<1>1. /\ TypeOK /\ pc = "drain" /\ batch = {} /\ pc' = pc /\ batch' = batch
      /\ responses # <<>> /\ responses' = Tail(responses)
      /\ UNCHANGED <<requests, emitting, opened, sent, received, frames>>
  BY DEF IndInv, SessionsBound, BatchOK, RouteResponse
<1>2. /\ r \in Response /\ responses' \in Seq(Response)
      /\ Elements(responses) = {r} \cup Elements(responses')
  BY <1>1, TailElements DEF TypeOK
<1>3. BatchOK' /\ BatchFresh' /\ CurrentOK' /\ pc' \in {"drain", "dispatch", "decode"}
      /\ frames' \in Seq(Frame \cup {Malformed})
  BY <1>1 DEF BatchOK, BatchFresh, CurrentOK, TypeOK
<1>4. r.session \in Sessions /\ fd \in Fds \cup {None}
  BY <1>1, <1>2 DEF Response, TypeOK
<1>5. CASE lost /\ UNCHANGED <<connections, sessionToFd, inbound, hungUp>>
  <2>1. Live' = Live
    BY <1>5 DEF Live
  <2>2. TypeOK'
    BY <1>1, <1>2, <1>5, <2>1 DEF TypeOK
  <2>3. SessionsBound'
    BY <1>5, <2>1, <2>2 DEF IndInv, SessionsBound
  <2>4. WhoOK' /\ InFlightOK' /\ NeverToAnotherLiveClient' /\ AdmittedWithinRisk'
    BY <1>1, <1>2, <1>5, <2>1, NothingNew
  <2> QED
    BY <1>3, <2>3, <2>4 DEF IndInv
<1>6. CASE ~lost /\ ~HasRoom(connections[fd]) /\ CloseConnection(fd)
  <2>1. fd \in Live
    BY <1>4, <1>6 DEF Live
  <2>2. Elements(responses') \subseteq Elements(responses)
    BY <1>2
  <2>3. SessionsBound' /\ WhoOK' /\ InFlightOK' /\ NeverToAnotherLiveClient' /\ AdmittedWithinRisk'
    BY <1>1, <1>2, <1>3, <1>6, <2>1, <2>2, CloseKeeps
  <2> QED
    BY <1>3, <2>3 DEF IndInv
<1>7. CASE /\ ~lost /\ HasRoom(connections[fd])
           /\ connections' = [connections EXCEPT ![fd] = Queued(@, r)]
           /\ UNCHANGED <<sessionToFd, inbound, hungUp>>
  <2>1. fd \in Live
    BY <1>4, <1>7 DEF Live
  <2>2. fd \in Fds /\ connections[fd] \in Connection /\ Len(connections[fd].transmit) <= TransmitCapacity
    BY <1>1, <2>1, ConnectionParts
  <2> DEFINE new == Queued(connections[fd], r)
  <2>3. /\ new \in Connection /\ new.who = connections[fd].who /\ new.validator = connections[fd].validator
        /\ Len(new.transmit) <= TransmitCapacity
        /\ Elements(new.transmit) = Elements(connections[fd].transmit) \cup {r}
    BY <1>2, <1>7, <2>2, QueuedParts
  <2>4. /\ connections \in [Fds -> Connection \cup {None}]
        /\ connections' = [connections EXCEPT ![fd] = new]
    BY <1>1, <1>7 DEF TypeOK
  <2> HIDE DEF new
  <2>5. new # None
    BY <2>3, NoneAssumption
  <2>6. /\ connections' \in [Fds -> Connection \cup {None}] /\ connections'[fd] = new
        /\ \A other \in Fds : other # fd => connections'[other] = connections[other]
    BY <2>2, <2>3, <2>4
  <2>7. Live' = Live
    BY <2>1, <2>2, <2>5, <2>6 DEF Live
  <2>8. \A other \in Live : /\ connections'[other].who = connections[other].who
                            /\ connections'[other].validator = connections[other].validator
    BY <2>3, <2>6 DEF Live
  <2>9. \A other \in Live : Len(connections'[other].transmit) <= TransmitCapacity
    BY <1>1, <2>3, <2>6 DEF TypeOK, Live
  <2>10. TypeOK'
    BY <1>1, <1>2, <1>7, <2>6, <2>7, <2>9 DEF TypeOK
  <2>11. SessionsBound'
    BY <1>7, <2>7, <2>8, <2>10 DEF IndInv, SessionsBound
  <2>12. WhoOK'
    BY <1>1, <2>7, <2>8 DEF IndInv, WhoOK
  <2>13. BoundBy(r.who, r.session)
    BY <1>2 DEF IndInv, InFlightOK
  <2>14. ASSUME NEW who, NEW session, BoundBy(who, session) PROVE BoundBy(who, session)'
    BY <1>1, <2>7, <2>8, <2>14 DEF BoundBy
  <2>15. InFlightOK'
    <3>1. \A q \in Elements(requests') : BoundBy(q.who, q.request.session)'
      BY <1>1, <2>14 DEF IndInv, InFlightOK
    <3>2. \A x \in Elements(responses') \cup Elements(emitting') : BoundBy(x.who, x.session)'
      BY <1>1, <1>2, <2>14 DEF IndInv, InFlightOK
    <3>3. \A other \in Live' : \A x \in Elements(connections'[other].transmit) : x.who <= opened'
      BY <1>1, <2>3, <2>6, <2>7, <2>13 DEF IndInv, InFlightOK, BoundBy, Live
    <3> QED
      BY <3>1, <3>2, <3>3 DEF InFlightOK, Elements
  <2>16. NeverToAnotherLiveClient'
    <3> SUFFICES ASSUME NEW one \in Live', NEW other \in Live',
                        NEW x \in Elements(connections'[one].transmit),
                        x.who = connections'[other].who
                 PROVE  one = other
      BY DEF NeverToAnotherLiveClient, Elements
    <3>1. one \in Live /\ other \in Live /\ other \in Fds /\ x.who = connections[other].who
      BY <2>7, <2>8 DEF Live
    <3>2. CASE one = fd /\ x = r
      <4>1. connections[other].validator.session = r.session
        BY <2>13, <3>1, <3>2 DEF BoundBy
      <4>2. sessionToFd[r.session] = other
        BY <1>4, <3>1, <4>1 DEF IndInv, SessionsBound
      <4> QED
        BY <3>2, <4>2
    <3>3. CASE x \in Elements(connections[one].transmit)
      BY <3>1, <3>3 DEF IndInv, NeverToAnotherLiveClient, Elements
    <3> QED
      BY <2>3, <2>6, <3>1, <3>2, <3>3 DEF Live
  <2>17. AdmittedWithinRisk'
    BY <1>1 DEF IndInv, AdmittedWithinRisk, Elements
  <2> QED
    BY <1>3, <2>11, <2>12, <2>15, <2>16, <2>17 DEF IndInv
<1> QED
  BY <1>5, <1>6, <1>7 DEF RouteResponse

(* Nothing changes about connections and sessions: the step is judged by the
   epoll events and by what it takes out of the queues. *)
LEMMA SameConnections ==
  ASSUME IndInv, TypeOK', UNCHANGED <<connections, sessionToFd, opened>>,
         Elements(requests') \subseteq Elements(requests),
         Elements(responses') \cup Elements(emitting') \subseteq Elements(responses) \cup Elements(emitting)
  PROVE  /\ Live' = Live
         /\ SessionsBound' /\ WhoOK' /\ InFlightOK' /\ NeverToAnotherLiveClient' /\ AdmittedWithinRisk'
<1>1. Live' = Live
  BY DEF Live
<1>2. SessionsBound'
  BY <1>1 DEF IndInv, SessionsBound
<1>3. WhoOK' /\ InFlightOK' /\ NeverToAnotherLiveClient' /\ AdmittedWithinRisk'
  BY <1>1, NothingNew
<1> QED
  BY <1>1, <1>2, <1>3

LEMMA EpollWaitKeeps ==
  ASSUME IndInv, NEW writable \in SUBSET Fds, NEW connecting \in BOOLEAN, EpollWait(writable, connecting)
  PROVE  IndInv'
<1> DEFINE Ready(fd) == [fd |-> fd, who |-> connections[fd].who, hup |-> hungUp[fd],
                         in |-> inbound[fd] # <<>>, out |-> connections[fd].wantsOut /\ fd \in writable]
<1>1. /\ TypeOK
      /\ pc' = IF batch' = {} THEN "drain" ELSE "dispatch"
      /\ UNCHANGED <<current, frames, connections, sessionToFd, requests, responses, emitting,
                     inbound, hungUp, opened, sent, received>>
  BY DEF IndInv, SessionsBound, EpollWait, engineVars, socketVars
<1>2. Live' = Live
  BY <1>1 DEF Live
<1>3. \A e \in batch' \ {Listening} : \E fd \in Live : e = Ready(fd)
  BY DEF EpollWait, Live
<1>4. ASSUME NEW fd \in Live PROVE Ready(fd) \in EpollEvent
  <2>1. fd \in Fds /\ connections[fd].who \in Clients /\ hungUp[fd] \in BOOLEAN
    BY <1>1, ConnectionParts DEF TypeOK
  <2>2. (inbound[fd] # <<>>) \in BOOLEAN /\ (connections[fd].wantsOut /\ fd \in writable) \in BOOLEAN
    OBVIOUS
  <2> QED
    BY <2>1, <2>2, Zenon DEF EpollEvent
<1>5. ASSUME NEW fd \in Live PROVE Ready(fd).fd = fd /\ Ready(fd).who = connections[fd].who
  OBVIOUS
<1> HIDE DEF Ready
<1>6. TypeOK'
  BY <1>1, <1>2 DEF TypeOK
<1>7. SessionsBound' /\ WhoOK' /\ InFlightOK' /\ NeverToAnotherLiveClient' /\ AdmittedWithinRisk'
  BY <1>1, <1>6, SameConnections
<1>8. BatchOK'
  BY <1>1, <1>3, <1>4, <1>5 DEF BatchOK
<1>9. BatchFresh'
  BY <1>1, <1>2, <1>3, <1>5 DEF BatchFresh
<1>10. CurrentOK'
  BY <1>1 DEF CurrentOK
<1> QED
  BY <1>7, <1>8, <1>9, <1>10 DEF IndInv

LEMMA AcceptConnectionKeeps ==
  ASSUME IndInv, NEW fd \in Fds, AcceptConnection(fd)
  PROVE  IndInv'
<1> DEFINE new == FreshConnection(opened + 1)
<1>1. /\ TypeOK /\ pc = "dispatch" /\ fd \notin Live
      /\ opened < MaxConnections /\ opened' = opened + 1
      /\ connections' = [connections EXCEPT ![fd] = new]
      /\ UNCHANGED <<pc, batch, current, frames, sessionToFd, requests, responses, emitting,
                     inbound, hungUp, sent, received>>
  BY DEF IndInv, SessionsBound, AcceptConnection, engineVars, Live
<1>2. opened \in Nat /\ opened + 1 \in Clients /\ opened' \in 0 .. MaxConnections /\ MaxFrames \in Nat
  BY <1>1, GatewayAssumption DEF TypeOK, Clients
<1>3. /\ new \in Connection /\ new.who = opened + 1 /\ new.validator.session = None
      /\ new.transmit = <<>>
  <2>1. [session |-> None, next |-> 1] \in [session: Sessions \cup {None}, next: 1 .. MaxFrames + 1]
    BY <1>2
  <2>2. <<>> \in Seq(Response)
    OBVIOUS
  <2> QED
    BY <1>2, <2>1, <2>2 DEF FreshConnection, Connection
<1>4. Len(new.transmit) <= TransmitCapacity /\ Elements(new.transmit) = {}
  BY <1>3, GatewayAssumption DEF Elements
<1> HIDE DEF new
<1>5. /\ connections' \in [Fds -> Connection \cup {None}] /\ connections'[fd] = new /\ new # None
      /\ \A other \in Fds : other # fd => connections'[other] = connections[other]
  BY <1>1, <1>3, NoneAssumption DEF TypeOK
<1>6. Live' = Live \cup {fd} /\ \A other \in Live : connections'[other] = connections[other]
  BY <1>1, <1>5 DEF Live
<1>7. TypeOK'
  <2>1. \A other \in Live' : Len(connections'[other].transmit) <= TransmitCapacity
    BY <1>1, <1>4, <1>5, <1>6 DEF TypeOK
  <2> QED
    BY <1>1, <1>2, <1>5, <2>1 DEF TypeOK
<1>8. SessionsBound'
  <2> SUFFICES ASSUME NEW s \in Sessions, NEW other \in Fds
               PROVE  sessionToFd'[s] = other <=> other \in Live' /\ connections'[other].validator.session = s
    BY <1>7 DEF SessionsBound
  <2>1. sessionToFd[s] = other <=> other \in Live /\ connections[other].validator.session = s
    BY DEF IndInv, SessionsBound
  <2>2. s # None
    BY GatewayAssumption
  <2> QED
    BY <1>1, <1>3, <1>5, <1>6, <2>1, <2>2
<1>9. \A other \in Live : connections[other].who \in Nat /\ connections[other].who <= opened
  BY <1>1, ConnectionParts DEF IndInv, WhoOK
<1>10. WhoOK'
  <2>1. \A other \in Live' : connections'[other].who <= opened'
    BY <1>1, <1>2, <1>3, <1>5, <1>6, <1>9
  <2>2. \A one, other \in Live' : connections'[one].who = connections'[other].who => one = other
    BY <1>2, <1>3, <1>5, <1>6, <1>9 DEF IndInv, WhoOK
  <2> QED
    BY <2>1, <2>2 DEF WhoOK
<1>11. ASSUME NEW who \in Clients, NEW session, BoundBy(who, session) PROVE BoundBy(who, session)'
  <2>1. who \in Nat /\ who <= opened
    BY <1>11, GatewayAssumption DEF BoundBy, Clients
  <2> QED
    BY <1>1, <1>2, <1>3, <1>5, <1>6, <1>11, <2>1 DEF BoundBy
<1>12. /\ \A q \in Elements(requests) : q.who \in Clients
       /\ \A r \in Elements(responses) \cup Elements(emitting) : r.who \in Clients
       /\ \A other \in Live : \A r \in Elements(connections[other].transmit) : r.who \in Clients /\ r.who \in Nat
  <2>1. /\ Elements(requests) \subseteq [request: Frame, who: Clients]
        /\ Elements(responses) \subseteq Response /\ Elements(emitting) \subseteq Response
        /\ \A other \in Live : Elements(connections[other].transmit) \subseteq Response
    BY <1>1, ElementsTyped, ConnectionParts DEF TypeOK
  <2>2. \A r \in Response : r.who \in Clients /\ r.who \in Nat
    BY GatewayAssumption DEF Response, Clients
  <2> QED
    BY <2>1, <2>2
<1>13. InFlightOK'
  <2>1. \A q \in Elements(requests') : BoundBy(q.who, q.request.session)'
    BY <1>1, <1>11, <1>12 DEF IndInv, InFlightOK
  <2>2. \A x \in Elements(responses') \cup Elements(emitting') : BoundBy(x.who, x.session)'
    BY <1>1, <1>11, <1>12 DEF IndInv, InFlightOK
  <2>3. \A other \in Live' : \A x \in Elements(connections'[other].transmit) : x.who <= opened'
    BY <1>1, <1>2, <1>4, <1>5, <1>6, <1>12 DEF IndInv, InFlightOK
  <2> QED
    BY <2>1, <2>2, <2>3 DEF InFlightOK, Elements
<1>14. NeverToAnotherLiveClient'
  <2> SUFFICES ASSUME NEW one \in Live', NEW other \in Live',
                      NEW x \in Elements(connections'[one].transmit),
                      x.who = connections'[other].who
               PROVE  one = other
    BY DEF NeverToAnotherLiveClient, Elements
  <2>1. one \in Live /\ x \in Elements(connections[one].transmit)
    BY <1>4, <1>5, <1>6
  <2>2. x.who \in Nat /\ x.who <= opened
    BY <1>12, <2>1 DEF IndInv, InFlightOK
  <2>3. other \in Live
    BY <1>2, <1>3, <1>5, <1>6, <2>2
  <2> QED
    BY <1>6, <2>1, <2>3 DEF IndInv, NeverToAnotherLiveClient
<1>15. AdmittedWithinRisk'
  BY <1>1 DEF IndInv, AdmittedWithinRisk, Elements
<1>16. BatchOK' /\ BatchFresh' /\ CurrentOK'
  <2>1. BatchOK'
    BY <1>1 DEF IndInv, BatchOK
  <2>2. BatchFresh'
    BY <1>1, <1>6 DEF IndInv, BatchFresh
  <2>3. CurrentOK'
    BY <1>1 DEF CurrentOK
  <2> QED
    BY <2>1, <2>2, <2>3
<1> QED
  BY <1>8, <1>10, <1>13, <1>14, <1>15, <1>16 DEF IndInv

LEMMA AcceptEndsKeeps ==
  ASSUME IndInv, AcceptEnds
  PROVE  IndInv'
<1>1. /\ TypeOK /\ GoOn(batch \ {Listening})
      /\ UNCHANGED <<frames, connections, sessionToFd, requests, responses, emitting,
                     inbound, hungUp, opened, sent, received>>
  BY DEF IndInv, SessionsBound, AcceptEnds, engineVars, socketVars
<1>2. Live' = Live
  BY <1>1 DEF Live
<1>3. BatchOK' /\ BatchFresh' /\ CurrentOK' /\ pc' \in {"drain", "dispatch", "decode"}
  <2>1. \A e \in (batch \ {Listening}) \ {Listening} :
          e.fd \in Live' /\ connections'[e.fd].who = connections[e.fd].who
    BY <1>1, <1>2 DEF IndInv, BatchFresh
  <2> QED
    BY <1>1, <2>1, GoOnKeeps
<1>4. TypeOK'
  BY <1>1, <1>2, <1>3 DEF TypeOK
<1>5. SessionsBound' /\ WhoOK' /\ InFlightOK' /\ NeverToAnotherLiveClient' /\ AdmittedWithinRisk'
  BY <1>1, <1>4, SameConnections
<1> QED
  BY <1>3, <1>5 DEF IndInv

LEMMA ReceiveKeeps ==
  ASSUME IndInv, NEW e \in batch \ {Listening}, Receive(e)
  PROVE  IndInv'
<1>1. /\ TypeOK /\ e.fd \in Live /\ e \in EpollEvent /\ connections[e.fd].who = e.who
      /\ pc' = "decode" /\ batch' = batch \ {e} /\ current' = e
      /\ frames' = inbound[e.fd] /\ inbound' = [inbound EXCEPT ![e.fd] = <<>>]
      /\ UNCHANGED <<connections, sessionToFd, requests, responses, emitting,
                     hungUp, opened, sent, received>>
  BY DEF IndInv, SessionsBound, BatchOK, BatchFresh, Receive, engineVars
<1>2. Live' = Live
  BY <1>1 DEF Live
<1>3. /\ inbound' \in [Fds -> Seq(Frame \cup {Malformed})]
      /\ frames' \in Seq(Frame \cup {Malformed})
  BY <1>1 DEF TypeOK, Live
<1>4. TypeOK'
  BY <1>1, <1>2, <1>3 DEF TypeOK
<1>5. SessionsBound' /\ WhoOK' /\ InFlightOK' /\ NeverToAnotherLiveClient' /\ AdmittedWithinRisk'
  BY <1>1, <1>4, SameConnections
<1>6. BatchOK'
  BY <1>1 DEF IndInv, BatchOK
<1>7. BatchFresh'
  BY <1>1, <1>2 DEF IndInv, BatchFresh
<1>8. CurrentOK'
  <2>1. \A f \in batch' \ {Listening} : f.fd # e.fd
    BY <1>1 DEF IndInv, BatchOK
  <2> QED
    BY <1>1, <1>2, <2>1 DEF CurrentOK
<1> QED
  BY <1>5, <1>6, <1>7, <1>8 DEF IndInv

-----------------------------------------------------------------------------
(* flush_output takes the first responses out of the transmit buffer. *)
LEMMA FlushedParts ==
  ASSUME NEW c \in Connection, NEW n \in 1 .. Len(c.transmit), Len(c.transmit) <= TransmitCapacity
  PROVE  /\ Flushed(c, n) \in Connection
         /\ Flushed(c, n).who = c.who /\ Flushed(c, n).validator = c.validator
         /\ Flushed(c, n).transmit = SubSeq(c.transmit, n + 1, Len(c.transmit))
         /\ Len(Flushed(c, n).transmit) <= TransmitCapacity
         /\ Elements(c.transmit) = Elements(SubSeq(c.transmit, 1, n)) \cup Elements(Flushed(c, n).transmit)
         /\ SubSeq(c.transmit, 1, n) \in Seq(Response)
<1> DEFINE rest == SubSeq(c.transmit, n + 1, Len(c.transmit))
           mid == [c EXCEPT !.transmit = SubSeq(@, n + 1, Len(@))]
           new == UpdateInterest(mid)
<1>1. /\ c.who \in Clients /\ c.transmit \in Seq(Response)
      /\ c.validator \in [session: Sessions \cup {None}, next: 1 .. MaxFrames + 1]
      /\ c = [who |-> c.who, validator |-> c.validator, transmit |-> c.transmit, wantsOut |-> c.wantsOut]
  BY DEF Connection
<1>2. /\ SubSeq(c.transmit, 1, n) \in Seq(Response) /\ rest \in Seq(Response)
      /\ Len(rest) <= Len(c.transmit)
      /\ Elements(c.transmit) = Elements(SubSeq(c.transmit, 1, n)) \cup Elements(rest)
  BY <1>1, SubSeqElements
<1>3. mid = [who |-> c.who, validator |-> c.validator, transmit |-> rest, wantsOut |-> c.wantsOut]
  <2>1. PICK w, v, t, o : c = [who |-> w, validator |-> v, transmit |-> t, wantsOut |-> o]
    BY <1>1
  <2>2. c.transmit = t /\ c.who = w /\ c.validator = v /\ c.wantsOut = o
    BY <2>1
  <2>3. PICK u : u = SubSeq(t, n + 1, Len(t))
    OBVIOUS
  <2>4. mid = [c EXCEPT !.transmit = u]
    BY <2>2, <2>3, Zenon
  <2>5. [c EXCEPT !.transmit = u] = [who |-> w, validator |-> v, transmit |-> u, wantsOut |-> o]
    BY <2>1
  <2>6. rest = u
    BY <2>2, <2>3
  <2> QED
    BY <2>2, <2>4, <2>5, <2>6
<1> HIDE DEF rest, mid
<1>4. new = [who |-> c.who, validator |-> c.validator, transmit |-> rest, wantsOut |-> rest # <<>>]
  <2>1. mid.transmit = rest
    BY <1>3
  <2>2. new = [mid EXCEPT !.wantsOut = rest # <<>>]
    BY <2>1 DEF UpdateInterest
  <2> QED
    BY <1>3, <2>2
<1>5. Len(rest) <= TransmitCapacity
  <2>1. Len(rest) \in Nat /\ Len(c.transmit) \in Nat
    BY <1>1, <1>2
  <2> QED
    BY <1>2, <2>1, GatewayAssumption
<1> HIDE DEF new
<1>6. new \in Connection
  BY <1>1, <1>2, <1>4 DEF Connection
<1>7. /\ new \in Connection
      /\ new.who = c.who /\ new.validator = c.validator /\ new.transmit = rest
      /\ Len(new.transmit) <= TransmitCapacity
      /\ Elements(c.transmit) = Elements(SubSeq(c.transmit, 1, n)) \cup Elements(new.transmit)
      /\ SubSeq(c.transmit, 1, n) \in Seq(Response)
  BY <1>2, <1>4, <1>5, <1>6
<1> QED
  BY <1>7 DEF Flushed, new, mid, rest

(* flush_output loses nothing and adds nothing. *)
LEMMA FlushOutputKeeps ==
  ASSUME IndInv, NEW fd \in Live, NEW n \in 1 .. Len(connections[fd].transmit), FlushOutput(fd, n),
         pc' \in {"drain", "dispatch", "decode"},
         UNCHANGED <<frames, sessionToFd, engineVars, inbound, hungUp, opened, sent>>
  PROVE  /\ Live' = Live /\ \A other \in Live : connections'[other].who = connections[other].who
         /\ SessionsBound' /\ WhoOK' /\ InFlightOK' /\ NeverToAnotherLiveClient' /\ AdmittedWithinRisk'
<1>1. TypeOK
  BY DEF IndInv, SessionsBound
<1>2. PICK c : c = connections[fd]
  OBVIOUS
<1>3. /\ fd \in Fds /\ c \in Connection /\ c.who \in Clients
      /\ Len(c.transmit) <= TransmitCapacity /\ n \in 1 .. Len(c.transmit)
  BY <1>1, <1>2, ConnectionParts
<1> DEFINE new == Flushed(c, n)
<1>4. /\ new \in Connection
      /\ new.who = c.who /\ new.validator = c.validator
      /\ Len(new.transmit) <= TransmitCapacity
      /\ Elements(new.transmit) \subseteq Elements(c.transmit)
      /\ SubSeq(c.transmit, 1, n) \in Seq(Response)
  <2>1. /\ new \in Connection
        /\ new.who = c.who /\ new.validator = c.validator
        /\ Len(new.transmit) <= TransmitCapacity
        /\ Elements(c.transmit) = Elements(SubSeq(c.transmit, 1, n)) \cup Elements(new.transmit)
        /\ SubSeq(c.transmit, 1, n) \in Seq(Response)
    BY <1>3, FlushedParts, Zenon
  <2> QED
    BY <2>1
<1>5. /\ connections' = [connections EXCEPT ![fd] = new]
      /\ received' = [received EXCEPT ![c.who] = @ \o SubSeq(c.transmit, 1, n)]
  BY <1>2 DEF FlushOutput
<1> HIDE DEF new
<1>6. received' \in [Clients -> Seq(Response)]
  <2>1. received[c.who] \o SubSeq(c.transmit, 1, n) \in Seq(Response)
    BY <1>1, <1>3, <1>4, ConcatProperties DEF TypeOK
  <2> QED
    BY <1>1, <1>3, <1>5, <2>1 DEF TypeOK
<1>7. /\ connections' \in [Fds -> Connection \cup {None}] /\ connections'[fd] = new /\ new # None
      /\ \A other \in Fds : other # fd => connections'[other] = connections[other]
  BY <1>1, <1>3, <1>4, <1>5, NoneAssumption DEF TypeOK
<1>8. Live' = Live
  BY <1>7 DEF Live
<1>9. \A other \in Live : /\ connections'[other].who = connections[other].who
                          /\ connections'[other].validator = connections[other].validator
                          /\ Elements(connections'[other].transmit) \subseteq Elements(connections[other].transmit)
                          /\ Len(connections'[other].transmit) <= TransmitCapacity
  BY <1>1, <1>2, <1>4, <1>7 DEF Live, TypeOK
<1>10. TypeOK'
  BY <1>1, <1>6, <1>7, <1>8, <1>9 DEF TypeOK, engineVars
<1>11. SessionsBound'
  BY <1>8, <1>9, <1>10 DEF IndInv, SessionsBound
<1>12. WhoOK' /\ InFlightOK' /\ NeverToAnotherLiveClient' /\ AdmittedWithinRisk'
  BY <1>8, <1>9, NothingNew DEF engineVars
<1> QED
  BY <1>8, <1>9, <1>11, <1>12

LEMMA FlushKeeps ==
  ASSUME IndInv, NEW e \in batch \ {Listening}, Flush(e)
  PROVE  IndInv'
<1>1. PICK n \in 1 .. Len(connections[e.fd].transmit) : FlushOutput(e.fd, n)
  BY DEF Flush
<1>2. /\ e.fd \in Live /\ GoOn(batch \ {e})
      /\ UNCHANGED <<frames, sessionToFd, engineVars, inbound, hungUp, opened, sent>>
  BY DEF IndInv, BatchFresh, Flush
<1>3. pc' \in {"drain", "dispatch", "decode"}
  BY <1>2 DEF GoOn
<1>4. /\ Live' = Live /\ \A other \in Live : connections'[other].who = connections[other].who
      /\ SessionsBound' /\ WhoOK' /\ InFlightOK' /\ NeverToAnotherLiveClient' /\ AdmittedWithinRisk'
  BY <1>1, <1>2, <1>3, FlushOutputKeeps
<1>5. \A f \in (batch \ {e}) \ {Listening} :
        f.fd \in Live' /\ connections'[f.fd].who = connections[f.fd].who
  BY <1>4 DEF IndInv, BatchFresh
<1>6. BatchOK' /\ BatchFresh' /\ CurrentOK'
  BY <1>2, <1>5, GoOnKeeps
<1> QED
  BY <1>4, <1>6 DEF IndInv

LEMMA DecodeEndsKeeps ==
  ASSUME IndInv, DecodeEnds
  PROVE  IndInv'
<1>1. /\ TypeOK /\ current.fd \in Live /\ GoOn(batch)
      /\ UNCHANGED <<frames, sessionToFd, engineVars, inbound, hungUp, opened, sent>>
  BY DEF IndInv, SessionsBound, CurrentOK, DecodeEnds
<1>2. pc' \in {"drain", "dispatch", "decode"}
  BY <1>1 DEF GoOn
<1>3. /\ Live' = Live /\ \A other \in Live : connections'[other].who = connections[other].who
      /\ SessionsBound' /\ WhoOK' /\ InFlightOK' /\ NeverToAnotherLiveClient' /\ AdmittedWithinRisk'
  <2>1. CASE current.out
    <3>1. PICK n \in 1 .. Len(connections[current.fd].transmit) : FlushOutput(current.fd, n)
      BY <2>1 DEF DecodeEnds
    <3> QED
      BY <1>1, <1>2, <3>1, FlushOutputKeeps
  <2>2. CASE ~current.out
    <3>1. UNCHANGED <<connections, received>>
      BY <2>2 DEF DecodeEnds
    <3>2. Live' = Live
      BY <3>1 DEF Live
    <3>3. TypeOK'
      BY <1>1, <1>2, <3>1, <3>2 DEF TypeOK, engineVars
    <3> QED
      BY <1>1, <3>1, <3>3, SameConnections DEF engineVars
  <2> QED
    BY <2>1, <2>2
<1>4. \A f \in batch \ {Listening} :
        f.fd \in Live' /\ connections'[f.fd].who = connections[f.fd].who
  BY <1>3 DEF IndInv, BatchFresh
<1>5. BatchOK' /\ BatchFresh' /\ CurrentOK'
  BY <1>1, <1>4, GoOnKeeps
<1> QED
  BY <1>3, <1>5 DEF IndInv

-----------------------------------------------------------------------------
(* Steps that leave run() where it is. *)
LEMMA SameEvents ==
  ASSUME IndInv, UNCHANGED <<pc, batch, current, connections>>
  PROVE  BatchOK' /\ BatchFresh' /\ CurrentOK'
<1>1. Live' = Live
  BY DEF Live
<1>2. BatchOK'
  BY DEF IndInv, BatchOK
<1>3. BatchFresh'
  BY <1>1 DEF IndInv, BatchFresh
<1>4. CurrentOK'
  BY <1>1 DEF IndInv, CurrentOK
<1> QED
  BY <1>2, <1>3, <1>4

LEMMA EngineTakeKeeps ==
  ASSUME IndInv, NEW count \in 1 .. MaxEvents, EngineTake(count)
  PROVE  IndInv'
<1>0. PICK taken : taken = Head(requests)
  OBVIOUS
<1> DEFINE Event(k) == [session |-> taken.request.session, sequence |-> taken.request.sequence,
                        who |-> taken.who, k |-> k, of |-> count, reason |-> "None"]
<1>1. /\ TypeOK /\ requests # <<>> /\ requests' = Tail(requests)
      /\ emitting' = [k \in 1 .. count |-> Event(k)]
      /\ UNCHANGED <<pc, batch, current, frames, connections, sessionToFd, responses,
                     inbound, hungUp, opened, sent, received>>
  BY <1>0 DEF IndInv, SessionsBound, EngineTake, gatewayVars, socketVars
<1>2. /\ taken \in [request: Frame, who: Clients] /\ requests' \in Seq([request: Frame, who: Clients])
      /\ Elements(requests) = {taken} \cup Elements(requests')
  BY <1>0, <1>1, TailElements DEF TypeOK
<1>3. taken.request \in Frame /\ taken.who \in Clients
  BY <1>2
<1>4. taken.request.session \in Sessions /\ taken.request.sequence \in 1 .. MaxFrames
  BY <1>3 DEF Frame
<1>5. \A k \in 1 .. count : Event(k) \in Response
  <2>1. \A k \in 1 .. count : k \in 0 .. MaxEvents /\ count \in 0 .. MaxEvents
    BY GatewayAssumption
  <2> QED
    BY <1>3, <1>4, <2>1 DEF Response
<1>6. emitting' \in Seq(Response) /\ \A x \in Elements(emitting') : \E k \in 1 .. count : x = Event(k)
  <2>1. count \in Nat
    BY GatewayAssumption
  <2> HIDE DEF Event
  <2>2. emitting' \in [1 .. count -> Response]
    BY <1>1, <1>5
  <2>3. emitting' \in Seq(Response)
    BY <2>1, <2>2
  <2> QED
    BY <1>1, <2>3 DEF Elements
<1>7. \A k \in 1 .. count : Event(k).who = taken.who /\ Event(k).session = taken.request.session
  OBVIOUS
<1> HIDE DEF Event
<1>8. Live' = Live
  BY <1>1 DEF Live
<1>9. TypeOK'
  BY <1>1, <1>2, <1>6, <1>8 DEF TypeOK
<1>10. SessionsBound'
  BY <1>1, <1>8, <1>9 DEF IndInv, SessionsBound
<1>11. ASSUME NEW who, NEW session, BoundBy(who, session) PROVE BoundBy(who, session)'
  BY <1>1, <1>8, <1>11 DEF BoundBy
<1>12. InFlightOK'
  <2>1. \A q \in Elements(requests') : BoundBy(q.who, q.request.session)'
    BY <1>2, <1>11 DEF IndInv, InFlightOK
  <2>2. BoundBy(taken.who, taken.request.session)'
    BY <1>2, <1>11 DEF IndInv, InFlightOK
  <2>3. \A x \in Elements(responses') : BoundBy(x.who, x.session)'
    BY <1>1, <1>11 DEF IndInv, InFlightOK
  <2>4. \A x \in Elements(emitting') : BoundBy(x.who, x.session)'
    BY <1>6, <1>7, <2>2
  <2>5. \A other \in Live' : \A x \in Elements(connections'[other].transmit) : x.who <= opened'
    BY <1>1, <1>8 DEF IndInv, InFlightOK
  <2> QED
    BY <2>1, <2>3, <2>4, <2>5 DEF InFlightOK, Elements
<1>13. WhoOK'
  BY <1>1, <1>8 DEF IndInv, WhoOK
<1>14. NeverToAnotherLiveClient'
  BY <1>1, <1>8 DEF IndInv, NeverToAnotherLiveClient, Elements
<1>15. AdmittedWithinRisk'
  BY <1>2 DEF IndInv, AdmittedWithinRisk, Elements
<1>16. BatchOK' /\ BatchFresh' /\ CurrentOK'
  BY <1>1, SameEvents
<1> QED
  BY <1>10, <1>12, <1>13, <1>14, <1>15, <1>16 DEF IndInv

LEMMA EnginePushKeeps ==
  ASSUME IndInv, EnginePush
  PROVE  IndInv'
<1>1. /\ TypeOK /\ emitting # <<>>
      /\ responses' = Append(responses, Head(emitting)) /\ emitting' = Tail(emitting)
      /\ UNCHANGED <<pc, batch, current, frames, connections, sessionToFd, requests,
                     inbound, hungUp, opened, sent, received>>
  BY DEF IndInv, SessionsBound, EnginePush, gatewayVars, socketVars
<1>2. /\ Head(emitting) \in Response /\ emitting' \in Seq(Response)
      /\ Elements(emitting) = {Head(emitting)} \cup Elements(emitting')
  BY <1>1, TailElements DEF TypeOK
<1>3. responses' \in Seq(Response) /\ Elements(responses') = Elements(responses) \cup {Head(emitting)}
  BY <1>1, <1>2, AppendElements DEF TypeOK
<1>4. Live' = Live
  BY <1>1 DEF Live
<1>5. TypeOK'
  BY <1>1, <1>2, <1>3, <1>4 DEF TypeOK
<1>6. SessionsBound' /\ WhoOK' /\ InFlightOK' /\ NeverToAnotherLiveClient' /\ AdmittedWithinRisk'
  BY <1>1, <1>2, <1>3, <1>5, SameConnections
<1>7. BatchOK' /\ BatchFresh' /\ CurrentOK'
  BY <1>1, SameEvents
<1> QED
  BY <1>6, <1>7 DEF IndInv

LEMMA ClientSendKeeps ==
  ASSUME IndInv, NEW fd \in Fds, NEW frame \in Frame \cup {Malformed}, ClientSend(fd, frame)
  PROVE  IndInv'
<1>1. /\ TypeOK /\ fd \in Live /\ sent[connections[fd].who] < MaxFrames
      /\ sent' = [sent EXCEPT ![connections[fd].who] = @ + 1]
      /\ inbound' = [inbound EXCEPT ![fd] = Append(@, frame)]
      /\ UNCHANGED <<pc, batch, current, frames, connections, sessionToFd, requests, responses, emitting,
                     hungUp, opened, received>>
  BY DEF IndInv, SessionsBound, ClientSend, gatewayVars, engineVars, Live
<1>2. connections[fd].who \in Clients
  BY <1>1, ConnectionParts
<1>3. inbound' \in [Fds -> Seq(Frame \cup {Malformed})]
  <2>1. Append(inbound[fd], frame) \in Seq(Frame \cup {Malformed})
    BY <1>1, AppendElements DEF TypeOK
  <2> QED
    BY <1>1, <2>1 DEF TypeOK
<1>4. sent' \in [Clients -> 0 .. MaxFrames]
  <2>1. sent[connections[fd].who] + 1 \in 0 .. MaxFrames
    BY <1>1, <1>2, GatewayAssumption DEF TypeOK
  <2> QED
    BY <1>1, <1>2, <2>1 DEF TypeOK
<1>5. Live' = Live
  BY <1>1 DEF Live
<1>6. TypeOK'
  BY <1>1, <1>3, <1>4, <1>5 DEF TypeOK
<1>7. SessionsBound' /\ WhoOK' /\ InFlightOK' /\ NeverToAnotherLiveClient' /\ AdmittedWithinRisk'
  BY <1>1, <1>6, SameConnections
<1>8. BatchOK' /\ BatchFresh' /\ CurrentOK'
  BY <1>1, SameEvents
<1> QED
  BY <1>7, <1>8 DEF IndInv

LEMMA ClientHangUpKeeps ==
  ASSUME IndInv, NEW fd \in Fds, ClientHangUp(fd)
  PROVE  IndInv'
<1>1. /\ TypeOK /\ hungUp' = [hungUp EXCEPT ![fd] = TRUE]
      /\ UNCHANGED <<pc, batch, current, frames, connections, sessionToFd, requests, responses, emitting,
                     inbound, opened, sent, received>>
  BY DEF IndInv, SessionsBound, ClientHangUp, gatewayVars, engineVars
<1>2. hungUp' \in [Fds -> BOOLEAN]
  BY <1>1 DEF TypeOK
<1>3. Live' = Live
  BY <1>1 DEF Live
<1>4. TypeOK'
  BY <1>1, <1>2, <1>3 DEF TypeOK
<1>5. SessionsBound' /\ WhoOK' /\ InFlightOK' /\ NeverToAnotherLiveClient' /\ AdmittedWithinRisk'
  BY <1>1, <1>4, SameConnections
<1>6. BatchOK' /\ BatchFresh' /\ CurrentOK'
  BY <1>1, SameEvents
<1> QED
  BY <1>5, <1>6 DEF IndInv

-----------------------------------------------------------------------------
(* Quantity at most notional over price bounds the product itself, which the
   comparison after the multiplication cannot once the product wraps. *)
LEMMA NotionalBound ==
  ASSUME NEW n \in Nat, NEW price \in Nat \ {0}, NEW quantity \in Nat, quantity <= n \div price
  PROVE  price * quantity <= n
<1>1. PICK d \in Nat : d = n \div price
  OBVIOUS
<1>2. price * d <= n
  BY <1>1
<1>3. PICK m \in Nat : d = quantity + m
  <2>1. d - quantity \in Nat /\ d = quantity + (d - quantity)
    BY <1>1
  <2> QED
    BY <2>1
<1>4. price * d = price * quantity + price * m
  BY <1>3
<1>5. price * m \in Nat /\ price * quantity \in Nat
  OBVIOUS
<1> QED
  BY <1>2, <1>4, <1>5

(* What passes violates_risk respects the limits. *)
LEMMA PassesRisk ==
  ASSUME NEW c \in Commands, c.type # "Cancel", ~ViolatesRisk(c)
  PROVE  /\ c.quantity \in 1 .. MaximumQuantity
         /\ ~Unpriced(c) => c.price \in 1 .. MaximumPrice /\ c.price * c.quantity <= MaximumNotional
<1>1. /\ c.price \in Int /\ c.quantity \in Nat
      /\ MaximumQuantity \in Nat /\ MaximumPrice \in Nat /\ MaximumNotional \in Nat
  BY GatewayAssumption, LimitsAssumption
<1>2. c.quantity # 0 /\ ~(c.quantity > MaximumQuantity)
  BY DEF ViolatesRisk
<1>3. ASSUME ~Unpriced(c) PROVE c.price \in 1 .. MaximumPrice /\ c.price * c.quantity <= MaximumNotional
  <2>1. ~(c.price <= 0) /\ ~(c.price > MaximumPrice) /\ ~(c.quantity > MaximumNotional \div c.price)
    BY <1>3 DEF ViolatesRisk
  <2>2. c.price \in Nat \ {0} /\ c.price \in 1 .. MaximumPrice
    BY <1>1, <2>1
  <2>3. MaximumNotional \div c.price \in Int
    BY <1>1, <2>2
  <2>4. c.quantity <= MaximumNotional \div c.price
    BY <1>1, <2>1, <2>3
  <2> QED
    BY <1>1, <2>2, <2>4, NotionalBound
<1> QED
  BY <1>1, <1>2, <1>3

(* The validator of a connection with a session. *)
BoundValidator == [session: Sessions, next: 1 .. MaxFrames + 1]

(* validate_and_advance counts at most the frames there are. *)
LEMMA AdvancedParts ==
  ASSUME NEW v \in BoundValidator, NEW request \in Frame
  PROVE  Advanced(v, request) \in BoundValidator /\ Advanced(v, request).session = v.session
<1>1. /\ v.session \in Sessions /\ v.next \in 1 .. MaxFrames + 1
      /\ v = [session |-> v.session, next |-> v.next]
      /\ request.sequence \in 1 .. MaxFrames /\ MaxFrames \in Nat
  BY GatewayAssumption DEF BoundValidator, Frame
<1>2. CASE InSession(v, request)
  <2>1. v.next + 1 \in 1 .. MaxFrames + 1
    BY <1>1, <1>2 DEF InSession
  <2>2. PICK w, x : v = [session |-> w, next |-> x]
    BY <1>1
  <2>3. Advanced(v, request) = [session |-> v.session, next |-> v.next + 1]
    BY <1>2, <2>2 DEF Advanced
  <2> QED
    BY <1>1, <2>1, <2>3 DEF BoundValidator
<1>3. CASE ~InSession(v, request)
  BY <1>3 DEF Advanced
<1> QED
  BY <1>2, <1>3

(* What DecodeRequest makes of the connection it reads. *)
LEMMA DecodedParts ==
  ASSUME IndInv, DecodeRequest, NEW fd, fd = current.fd, NEW request, request = Head(frames)
  PROVE  LET c == connections[fd]
             new == connections'[fd] IN
         /\ fd \in Live /\ request \in Frame
         /\ connections' = [connections EXCEPT ![fd] = new]
         /\ new \in Connection /\ new.who = c.who
         /\ new.validator = Advanced(Bound, request) /\ new.validator \in BoundValidator
         /\ new.validator.session = Bound.session /\ Bound \in BoundValidator
         /\ c.validator.session = None =>
              Bound = [session |-> request.session, next |-> 1] /\ sessionToFd[request.session] = None
         /\ c.validator.session # None => Bound = c.validator
         /\ Len(new.transmit) <= TransmitCapacity
         /\ \/ Verdict = "None" /\ new.transmit = c.transmit
            \/ /\ Verdict \in {"InvalidSessionSequence", "RiskLimit", "GatewayBackpressure"}
               /\ new.transmit = Append(c.transmit, Rejection(c.who, request, Verdict))
               /\ Rejection(c.who, request, Verdict) \in Response
<1>1. /\ TypeOK /\ pc = "decode" /\ frames # <<>> /\ fd \in Live /\ fd \in Fds
      /\ request # Malformed /\ CanBind(fd, request.session)
      /\ Verdict = "None" \/ HasRoom(connections[fd])
      /\ connections' = [connections EXCEPT ![fd] = Answered(Validated)]
  BY DEF IndInv, SessionsBound, CurrentOK, DecodeRequest, Live
<1>2. PICK c : c = connections[fd]
  OBVIOUS
<1>3. /\ c \in Connection /\ Len(c.transmit) <= TransmitCapacity /\ c.who \in Clients
      /\ c.validator \in [session: Sessions \cup {None}, next: 1 .. MaxFrames + 1]
      /\ c.transmit \in Seq(Response)
      /\ c = [who |-> c.who, validator |-> c.validator, transmit |-> c.transmit, wantsOut |-> c.wantsOut]
      /\ c.wantsOut \in BOOLEAN
  <2>1. c \in Connection /\ Len(c.transmit) <= TransmitCapacity
    BY <1>1, <1>2, ConnectionParts
  <2> QED
    BY <2>1 DEF Connection
<1>4. request \in Frame
  BY <1>1, TailElements DEF TypeOK
<1>5. request.session \in Sessions /\ request.sequence \in 1 .. MaxFrames
  BY <1>4 DEF Frame
<1>6. /\ c.validator.session = None =>
           Bound = [session |-> request.session, next |-> 1] /\ sessionToFd[request.session] = None
      /\ c.validator.session # None => Bound = c.validator
  BY <1>1, <1>2 DEF Bound, CanBind
<1>7. Bound \in BoundValidator
  <2>1. CASE c.validator.session = None
    BY <1>5, <1>6, <2>1, GatewayAssumption DEF BoundValidator
  <2>2. CASE c.validator.session # None
    BY <1>3, <1>6, <2>2 DEF BoundValidator
  <2> QED
    BY <2>1, <2>2
<1>8. PICK v : v = Advanced(Bound, request)
  OBVIOUS
<1>9. v \in BoundValidator /\ v.session = Bound.session
  BY <1>4, <1>7, <1>8, AdvancedParts
<1>10. PICK valid : valid = Validated
  OBVIOUS
<1>11. valid = [who |-> c.who, validator |-> v, transmit |-> c.transmit, wantsOut |-> c.wantsOut]
  <2>1. valid = [c EXCEPT !.validator = v]
    BY <1>2, <1>8, <1>10 DEF Validated
  <2>2. PICK w, x, t, o : c = [who |-> w, validator |-> x, transmit |-> t, wantsOut |-> o]
    BY <1>3
  <2> QED
    BY <2>1, <2>2
<1>12. /\ valid \in Connection /\ valid.who = c.who /\ valid.validator = v /\ valid.transmit = c.transmit
       /\ v \in [session: Sessions \cup {None}, next: 1 .. MaxFrames + 1]
  <2>1. v \in [session: Sessions \cup {None}, next: 1 .. MaxFrames + 1]
    BY <1>9 DEF BoundValidator
  <2>2. valid \in Connection
    BY <1>3, <1>11, <2>1 DEF Connection
  <2> QED
    BY <1>11, <2>1, <2>2
<1>13. Verdict \in {"None", "InvalidSessionSequence", "RiskLimit", "GatewayBackpressure"}
  BY DEF Verdict, Reason
<1>14. PICK new : new = Answered(Validated)
  OBVIOUS
<1>15. /\ new \in Connection /\ new.who = c.who /\ new.validator = v
       /\ Len(new.transmit) <= TransmitCapacity
       /\ \/ Verdict = "None" /\ new.transmit = c.transmit
          \/ /\ Verdict \in {"InvalidSessionSequence", "RiskLimit", "GatewayBackpressure"}
             /\ new.transmit = Append(c.transmit, Rejection(c.who, request, Verdict))
             /\ Rejection(c.who, request, Verdict) \in Response
  <2>1. CASE Verdict = "None"
    <3>1. new = valid
      BY <1>10, <1>14, <2>1 DEF Answered
    <3> QED
      BY <1>3, <1>12, <2>1, <3>1
  <2>2. CASE Verdict # "None"
    <3>1. PICK r : r = Rejection(c.who, request, Verdict)
      OBVIOUS
    <3>2. r \in Response
      <4>1. 0 \in 0 .. MaxEvents
        BY GatewayAssumption
      <4> QED
        BY <1>3, <1>5, <1>13, <3>1, <4>1 DEF Rejection, Response
    <3>3. new = Queued(valid, r)
      BY <1>10, <1>12, <1>14, <2>2, <3>1 DEF Answered
    <3>4. HasRoom(valid) /\ Len(valid.transmit) <= TransmitCapacity
      BY <1>1, <1>2, <1>3, <1>12, <2>2 DEF HasRoom
    <3>5. /\ new \in Connection /\ new.who = valid.who /\ new.validator = valid.validator
          /\ new.transmit = Append(valid.transmit, r) /\ Len(new.transmit) <= TransmitCapacity
      BY <1>12, <3>2, <3>3, <3>4, QueuedParts
    <3> QED
      BY <1>12, <1>13, <2>2, <3>1, <3>2, <3>5
  <2> QED
    BY <2>1, <2>2
<1>16. connections' = [connections EXCEPT ![fd] = new] /\ connections'[fd] = new
  BY <1>1, <1>14 DEF TypeOK
<1> QED
  BY <1>1, <1>2, <1>4, <1>6, <1>7, <1>8, <1>9, <1>15, <1>16

LEMMA DecodeRequestKeeps ==
  ASSUME IndInv, DecodeRequest
  PROVE  IndInv'
<1>1. PICK fd, request, bound, c, new :
        /\ fd = current.fd /\ request = Head(frames) /\ bound = Bound
        /\ c = connections[fd] /\ new = connections'[fd]
  OBVIOUS
<1>2. /\ fd \in Live /\ request \in Frame
      /\ connections' = [connections EXCEPT ![fd] = new]
      /\ new \in Connection /\ new.who = c.who
      /\ new.validator.session = bound.session /\ bound \in BoundValidator
      /\ c.validator.session = None =>
           bound = [session |-> request.session, next |-> 1] /\ sessionToFd[request.session] = None
      /\ c.validator.session # None => bound = c.validator
      /\ Len(new.transmit) <= TransmitCapacity
  BY <1>1, DecodedParts
<1>3. \/ Verdict = "None" /\ new.transmit = c.transmit
      \/ \E x \in Response : x.who = c.who /\ new.transmit = Append(c.transmit, x)
  <2>1. \/ Verdict = "None" /\ new.transmit = c.transmit
        \/ /\ new.transmit = Append(c.transmit, Rejection(c.who, request, Verdict))
           /\ Rejection(c.who, request, Verdict) \in Response
    BY <1>1, DecodedParts
  <2>2. Rejection(c.who, request, Verdict).who = c.who
    BY DEF Rejection
  <2> QED
    BY <2>1, <2>2
<1>4. /\ TypeOK /\ pc = "decode" /\ frames # <<>> /\ frames' = Tail(frames)
      /\ requests' = IF Verdict = "None"
                     THEN Append(requests, [request |-> request, who |-> c.who]) ELSE requests
      /\ sessionToFd' = IF sessionToFd[bound.session] = None
                        THEN [sessionToFd EXCEPT ![bound.session] = fd] ELSE sessionToFd
      /\ UNCHANGED <<pc, batch, current, responses, emitting, inbound, hungUp, opened, sent, received>>
  BY <1>1 DEF IndInv, SessionsBound, DecodeRequest, socketVars
<1>5. /\ fd \in Fds /\ c \in Connection /\ c.who \in Clients /\ c.who \in Nat
      /\ c.validator.session \in Sessions \cup {None} /\ c.transmit \in Seq(Response)
  BY <1>1, <1>2, <1>4, ConnectionParts
<1>6. frames' \in Seq(Frame \cup {Malformed})
  BY <1>4, TailElements DEF TypeOK
<1>7. [request |-> request, who |-> c.who] \in [request: Frame, who: Clients]
  BY <1>2, <1>5
<1>8. requests' \in Seq([request: Frame, who: Clients])
  <2>1. requests \in Seq([request: Frame, who: Clients])
    BY <1>4 DEF TypeOK
  <2>2. Append(requests, [request |-> request, who |-> c.who]) \in Seq([request: Frame, who: Clients])
    BY <1>7, <2>1, AppendElements
  <2> QED
    BY <1>4, <2>1, <2>2
<1>9. \A q \in Elements(requests') :
        q \in Elements(requests) \/ (Verdict = "None" /\ q = [request |-> request, who |-> c.who])
  <2>1. Elements(Append(requests, [request |-> request, who |-> c.who]))
          = Elements(requests) \cup {[request |-> request, who |-> c.who]}
    <3>1. PICK S : S = [request: Frame, who: Clients]
      OBVIOUS
    <3>2. PICK q \in S : q = [request |-> request, who |-> c.who]
      BY <1>7, <3>1
    <3>3. requests \in Seq(S)
      BY <1>4, <3>1 DEF TypeOK
    <3>4. Elements(Append(requests, q)) = Elements(requests) \cup {q}
      BY <3>3, AppendElements
    <3> QED
      BY <3>2, <3>4
  <2> QED
    BY <1>4, <2>1
<1>10. /\ connections' \in [Fds -> Connection \cup {None}] /\ new # None
       /\ \A other \in Fds : other # fd => connections'[other] = connections[other]
  BY <1>2, <1>4, <1>5, NoneAssumption DEF TypeOK
<1>11. Live' = Live
  BY <1>1, <1>2, <1>5, <1>10 DEF Live
<1>12. bound.session \in Sessions
  BY <1>2 DEF BoundValidator
<1>13. /\ \A s \in Sessions, other \in Fds :
            sessionToFd[s] = other <=> other \in Live /\ connections[other].validator.session = s
       /\ sessionToFd \in [Sessions -> Fds \cup {None}]
  BY <1>4 DEF IndInv, SessionsBound, TypeOK
<1>14. /\ sessionToFd' \in [Sessions -> Fds \cup {None}]
       /\ sessionToFd'[bound.session] = fd
       /\ \A s \in Sessions : s # bound.session => sessionToFd'[s] = sessionToFd[s]
  <2>1. CASE c.validator.session = None
    <3>1. sessionToFd' = [sessionToFd EXCEPT ![bound.session] = fd]
      BY <1>2, <1>4, <2>1
    <3> QED
      BY <1>5, <1>12, <1>13, <3>1
  <2>2. CASE c.validator.session # None
    <3>1. sessionToFd[bound.session] = fd /\ fd # None
      BY <1>1, <1>2, <1>5, <1>12, <1>13, <2>2, GatewayAssumption
    <3>2. sessionToFd' = sessionToFd
      BY <1>4, <3>1
    <3> QED
      BY <1>13, <3>1, <3>2
  <2> QED
    BY <2>1, <2>2
<1>15. TypeOK'
  <2>1. \A other \in Live' : Len(connections'[other].transmit) <= TransmitCapacity
    BY <1>1, <1>2, <1>4, <1>10, <1>11 DEF TypeOK, Live
  <2> QED
    BY <1>4, <1>6, <1>8, <1>10, <1>14, <2>1 DEF TypeOK
<1>16. SessionsBound'
  <2> SUFFICES ASSUME NEW s \in Sessions, NEW other \in Fds
               PROVE  sessionToFd'[s] = other <=> other \in Live' /\ connections'[other].validator.session = s
    BY <1>15 DEF SessionsBound
  <2>1. CASE other = fd /\ s = bound.session
    BY <1>1, <1>2, <1>11, <1>14, <2>1
  <2>2. CASE other = fd /\ s # bound.session
    <3>1. c.validator.session # s
      BY <1>2, <2>2, GatewayAssumption
    <3>2. sessionToFd[s] # fd
      BY <1>1, <1>5, <1>13, <3>1
    <3> QED
      BY <1>1, <1>2, <1>14, <2>2, <3>2
  <2>3. CASE other # fd /\ s = bound.session
    <3>1. sessionToFd[s] # other
      BY <1>1, <1>2, <1>5, <1>13, <2>3, GatewayAssumption
    <3>2. ~(other \in Live /\ connections[other].validator.session = s)
      BY <1>13, <3>1
    <3> QED
      BY <1>10, <1>11, <1>14, <2>3, <3>2
  <2>4. CASE other # fd /\ s # bound.session
    BY <1>10, <1>11, <1>13, <1>14, <2>4
  <2> QED
    BY <2>1, <2>2, <2>3, <2>4
<1>17. \A other \in Live : connections'[other].who = connections[other].who
  BY <1>1, <1>2, <1>10 DEF Live
<1>18. WhoOK'
  BY <1>4, <1>11, <1>17 DEF IndInv, WhoOK
<1>19. ASSUME NEW who, NEW session \in Sessions, BoundBy(who, session) PROVE BoundBy(who, session)'
  <2> SUFFICES ASSUME NEW other \in Live, connections[other].who = who
               PROVE  connections'[other].validator.session = session
    BY <1>4, <1>11, <1>17, <1>19 DEF BoundBy
  <2>1. connections[other].validator.session = session
    BY <1>19 DEF BoundBy
  <2>2. CASE other = fd
    BY <1>1, <1>2, <2>1, <2>2, GatewayAssumption
  <2>3. CASE other # fd
    BY <1>10, <2>1, <2>3 DEF Live
  <2> QED
    BY <2>2, <2>3
<1>20. /\ \A q \in Elements(requests) : q.request.session \in Sessions /\ q.request.command \in Commands
       /\ \A x \in Elements(responses) \cup Elements(emitting) : x.session \in Sessions
  <2>1. /\ Elements(requests) \subseteq [request: Frame, who: Clients]
        /\ Elements(responses) \subseteq Response /\ Elements(emitting) \subseteq Response
    BY <1>4, ElementsTyped DEF TypeOK
  <2>2. \A x \in Response : x.session \in Sessions
    BY DEF Response
  <2>3. \A q \in [request: Frame, who: Clients] : q.request \in Frame
    OBVIOUS
  <2>4. \A x \in Frame : x.session \in Sessions /\ x.command \in Commands
    BY DEF Frame
  <2> QED
    BY <2>1, <2>2, <2>3, <2>4
<1>21. Verdict = "None" => request.session = bound.session /\ ~ViolatesRisk(request.command)
  BY <1>1 DEF Verdict, Reason, InSession
<1>22. InFlightOK'
  <2>1. ASSUME NEW q \in Elements(requests') PROVE BoundBy(q.who, q.request.session)'
    <3>1. CASE q \in Elements(requests)
      BY <1>19, <1>20, <3>1 DEF IndInv, InFlightOK
    <3>2. CASE Verdict = "None" /\ q = [request |-> request, who |-> c.who]
      <4>1. q.who = c.who /\ q.request.session = bound.session
        BY <1>21, <3>2
      <4>2. c.who <= opened' /\ \A other \in Live' :
              connections'[other].who = c.who => connections'[other].validator.session = bound.session
        BY <1>1, <1>2, <1>4, <1>11, <1>17 DEF IndInv, WhoOK
      <4> QED
        BY <4>1, <4>2 DEF BoundBy
    <3> QED
      BY <1>9, <3>1, <3>2
  <2>2. \A x \in Elements(responses') \cup Elements(emitting') : BoundBy(x.who, x.session)'
    BY <1>4, <1>19, <1>20 DEF IndInv, InFlightOK
  <2>3. ASSUME NEW other \in Live', NEW x \in Elements(connections'[other].transmit) PROVE x.who <= opened'
    <3>1. CASE x \in Elements(connections[other].transmit)
      BY <1>4, <1>11, <3>1 DEF IndInv, InFlightOK
    <3>2. CASE x \notin Elements(connections[other].transmit)
      <4>1. x.who = c.who
        <5>1. other = fd
          BY <1>10, <1>11, <3>2 DEF Live
        <5>2. PICK y \in Response : y.who = c.who /\ new.transmit = Append(c.transmit, y)
          BY <1>1, <1>3, <3>2, <5>1
        <5>3. Elements(new.transmit) = Elements(c.transmit) \cup {y}
          BY <1>5, <5>2, AppendElements
        <5> QED
          BY <1>1, <3>2, <5>1, <5>2, <5>3
      <4> QED
        BY <1>1, <1>2, <1>4, <4>1 DEF IndInv, WhoOK
    <3> QED
      BY <3>1, <3>2
  <2> QED
    BY <2>1, <2>2, <2>3 DEF InFlightOK, Elements
<1>23. NeverToAnotherLiveClient'
  <2> SUFFICES ASSUME NEW one \in Live', NEW other \in Live',
                      NEW x \in Elements(connections'[one].transmit),
                      x.who = connections'[other].who
               PROVE  one = other
    BY DEF NeverToAnotherLiveClient, Elements
  <2>1. one \in Live /\ other \in Live /\ x.who = connections[other].who
    BY <1>11, <1>17
  <2>2. CASE x \in Elements(connections[one].transmit)
    BY <2>1, <2>2 DEF IndInv, NeverToAnotherLiveClient
  <2>3. CASE x \notin Elements(connections[one].transmit)
    <3>1. one = fd
      BY <1>10, <2>1, <2>3 DEF Live
    <3>2. PICK y \in Response : y.who = c.who /\ new.transmit = Append(c.transmit, y)
      BY <1>1, <1>3, <2>3, <3>1
    <3>3. Elements(new.transmit) = Elements(c.transmit) \cup {y}
      BY <1>5, <3>2, AppendElements
    <3>4. x.who = c.who
      BY <1>1, <2>3, <3>1, <3>2, <3>3
    <3> QED
      BY <1>1, <1>2, <2>1, <3>1, <3>4 DEF IndInv, WhoOK
  <2> QED
    BY <2>2, <2>3
<1>24. AdmittedWithinRisk'
  <2> SUFFICES ASSUME NEW q \in Elements(requests'), q.request.command.type # "Cancel"
               PROVE  /\ q.request.command.quantity \in 1 .. MaximumQuantity
                      /\ ~Unpriced(q.request.command) =>
                           /\ q.request.command.price \in 1 .. MaximumPrice
                           /\ q.request.command.price * q.request.command.quantity <= MaximumNotional
    BY DEF AdmittedWithinRisk, Elements
  <2>1. CASE q \in Elements(requests)
    BY <2>1 DEF IndInv, AdmittedWithinRisk
  <2>2. CASE Verdict = "None" /\ q = [request |-> request, who |-> c.who]
    <3>1. q.request = request /\ request.command \in Commands /\ ~ViolatesRisk(request.command)
      BY <1>2, <1>21, <2>2 DEF Frame
    <3> QED
      BY <3>1, PassesRisk
  <2> QED
    BY <1>9, <2>1, <2>2
<1>25. BatchOK'
  BY <1>4 DEF IndInv, BatchOK
<1>26. BatchFresh'
  BY <1>4, <1>11, <1>17 DEF IndInv, BatchFresh
<1>27. CurrentOK'
  BY <1>1, <1>4, <1>11, <1>17 DEF IndInv, CurrentOK
<1> QED
  BY <1>16, <1>18, <1>22, <1>23, <1>24, <1>25, <1>26, <1>27 DEF IndInv

-----------------------------------------------------------------------------
LEMMA InitIndInv == Init => IndInv
<1> SUFFICES ASSUME Init PROVE IndInv
  OBVIOUS
<1>1. Live = {}
  BY DEF Init, Live
<1>2. <<>> \in Seq(Frame \cup {Malformed}) /\ <<>> \in Seq(Response) /\ <<>> \in Seq([request: Frame, who: Clients])
  OBVIOUS
<1>3. TypeOK
  BY <1>1, <1>2, GatewayAssumption DEF Init, TypeOK
<1>4. \A s \in Sessions, fd \in Fds : sessionToFd[s] # fd
  BY GatewayAssumption DEF Init
<1>5. SessionsBound
  BY <1>1, <1>3, <1>4 DEF SessionsBound
<1>6. Elements(requests) = {} /\ Elements(responses) = {} /\ Elements(emitting) = {}
  BY DEF Init, Elements
<1>7. BatchOK /\ BatchFresh /\ CurrentOK
  BY DEF Init, BatchOK, BatchFresh, CurrentOK
<1>8. WhoOK /\ InFlightOK /\ NeverToAnotherLiveClient /\ AdmittedWithinRisk
  BY <1>1, <1>6 DEF WhoOK, InFlightOK, NeverToAnotherLiveClient, AdmittedWithinRisk
<1> QED
  BY <1>5, <1>7, <1>8 DEF IndInv

LEMMA NextIndInv ==
  ASSUME IndInv, [Next]_vars
  PROVE  IndInv'
<1>1. CASE Run
  <2>1. CASE RouteResponse
    BY <2>1, RouteResponseKeeps
  <2>2. ASSUME NEW writable \in SUBSET Fds, NEW connecting \in BOOLEAN, EpollWait(writable, connecting)
        PROVE  IndInv'
    BY <2>2, EpollWaitKeeps
  <2>3. ASSUME NEW fd \in Fds, AcceptConnection(fd) PROVE IndInv'
    BY <2>3, AcceptConnectionKeeps
  <2>4. CASE AcceptEnds
    BY <2>4, AcceptEndsKeeps
  <2>5. ASSUME NEW e \in batch \ {Listening}, HangUp(e) PROVE IndInv'
    BY <2>5, CloseEvent DEF HangUp
  <2>6. ASSUME NEW e \in batch \ {Listening}, Receive(e) PROVE IndInv'
    BY <2>6, ReceiveKeeps
  <2>7. ASSUME NEW e \in batch \ {Listening}, Flush(e) PROVE IndInv'
    BY <2>7, FlushKeeps
  <2>8. ASSUME NEW e \in batch \ {Listening}, FlushFails(e) PROVE IndInv'
    BY <2>8, CloseEvent DEF FlushFails
  <2>9. CASE DecodeMalformed \/ DecodeTakenSession \/ DecodeNoRoom \/ DecodeFlushFails
    BY <2>9, AbortKeeps DEF DecodeMalformed, DecodeTakenSession, DecodeNoRoom, DecodeFlushFails
  <2>10. CASE DecodeRequest
    BY <2>10, DecodeRequestKeeps
  <2>11. CASE DecodeEnds
    BY <2>11, DecodeEndsKeeps
  <2> QED
    BY <1>1, <2>1, <2>2, <2>3, <2>4, <2>5, <2>6, <2>7, <2>8, <2>9, <2>10, <2>11 DEF Run
<1>2. CASE Engine
  BY <1>2, EngineTakeKeeps, EnginePushKeeps DEF Engine
<1>3. CASE \E fd \in Fds : (\E frame \in Frame \cup {Malformed} : ClientSend(fd, frame)) \/ ClientHangUp(fd)
  BY <1>3, ClientSendKeeps, ClientHangUpKeeps
<1>4. CASE UNCHANGED vars
  <2>1. UNCHANGED <<pc, batch, current, frames, connections, sessionToFd, requests, responses, emitting,
                    inbound, hungUp, opened, sent, received>>
    BY <1>4 DEF vars, gatewayVars, engineVars, socketVars
  <2>2. Live' = Live
    BY <2>1 DEF Live
  <2>3. TypeOK'
    BY <2>1, <2>2 DEF IndInv, SessionsBound, TypeOK
  <2>4. SessionsBound' /\ WhoOK' /\ InFlightOK' /\ NeverToAnotherLiveClient' /\ AdmittedWithinRisk'
    BY <2>1, <2>3, SameConnections
  <2>5. BatchOK' /\ BatchFresh' /\ CurrentOK'
    BY <2>1, SameEvents
  <2> QED
    BY <2>4, <2>5 DEF IndInv
<1> QED
  BY <1>1, <1>2, <1>3, <1>4 DEF Next

(* The inductive invariant holds in every state of the gateway: accepting,
   binding, closing and routing keep connections, batch and engine in step. *)
THEOREM Safety == Spec => []IndInv
BY InitIndInv, NextIndInv, PTL DEF Spec

(* session_to_fd_ and connections_ agree in every state, whatever is closed,
   accepted or bound in between, and every variable keeps its type. *)
THEOREM SessionsAlwaysBound == Spec => []SessionsBound
<1>1. IndInv => SessionsBound
  BY DEF IndInv
<1> QED
  BY <1>1, Safety, PTL

(* dispatch never handles an epoll event for a connection other than the one it
   was raised for. *)
THEOREM BatchAlwaysFresh == Spec => []BatchFresh
<1>1. IndInv => BatchFresh
  BY DEF IndInv
<1> QED
  BY <1>1, Safety, PTL

(* drain_engine_responses never puts the events of one live client into the
   transmit buffer of another. *)
THEOREM NeverMisrouted == Spec => []NeverToAnotherLiveClient
<1>1. IndInv => NeverToAnotherLiveClient
  BY DEF IndInv
<1> QED
  BY <1>1, Safety, PTL

(* The engine is never handed a command beyond the risk limits, whether or not
   price times quantity fits a word. *)
THEOREM AlwaysWithinRisk == Spec => []AdmittedWithinRisk
<1>1. IndInv => AdmittedWithinRisk
  BY DEF IndInv
<1> QED
  BY <1>1, Safety, PTL

-----------------------------------------------------------------------------
(* One connection's history: what its client has received, its transmit buffer,
   the two halves of the engine's output and the requests waiting, in the order
   in which events pass through them. *)
Request == [request: Frame, who: Clients]

Of(x, who) == x.who = who /\ x.reason = "None"

Precedes(x, y) == x.sequence < y.sequence \/ (x.sequence = y.sequence /\ x.k < y.k)

Sorted(s, who) ==
  \A i, j \in DOMAIN s : i < j /\ Of(s[i], who) /\ Of(s[j], who) => Precedes(s[i], s[j])

Before(X, Y, who) == \A x \in X, y \in Y : Of(x, who) /\ Of(y, who) => Precedes(x, y)

Ordered(who, R, T, P, E) ==
  /\ Sorted(R, who) /\ Sorted(T, who) /\ Sorted(P, who) /\ Sorted(E, who)
  /\ Before(Elements(R), Elements(T), who) /\ Before(Elements(R), Elements(P), who)
  /\ Before(Elements(R), Elements(E), who) /\ Before(Elements(T), Elements(P), who)
  /\ Before(Elements(T), Elements(E), who) /\ Before(Elements(P), Elements(E), who)

All(R, T, P, E) == Elements(R) \cup Elements(T) \cup Elements(P) \cup Elements(E)

(* The requests waiting are in sequence and come after every event. *)
Pending(who, X, Q, next) ==
  /\ \A i, j \in DOMAIN Q :
       i < j /\ Q[i].who = who /\ Q[j].who = who => Q[i].request.sequence < Q[j].request.sequence
  /\ \A i \in DOMAIN Q : Q[i].who = who => Q[i].request.sequence < next
  /\ \A x \in X : Of(x, who) =>
       /\ x.sequence < next
       /\ \A i \in DOMAIN Q : Q[i].who = who => x.sequence < Q[i].request.sequence

Waits(who, Q, n) == {i \in DOMAIN Q : Q[i].who = who /\ Q[i].request.sequence = n}
Refusals(who, X, n) ==
  {x \in X : x.who = who /\ x.sequence = n /\ x.reason \in {"RiskLimit", "GatewayBackpressure"}}
Events(who, X, n) == {x \in X : Of(x, who) /\ x.sequence = n}
Emission(session, who, n, count) ==
  {[session |-> session, sequence |-> n, who |-> who, k |-> k, of |-> count, reason |-> "None"] :
     k \in 1 .. count}

(* Sequence n is answered once: it waits, or was refused, or all its events are
   somewhere; and not at all before it is consumed. *)
OnceAt(who, X, Q, next, n) ==
  \/ n >= next /\ Waits(who, Q, n) = {} /\ Refusals(who, X, n) = {} /\ Events(who, X, n) = {}
  \/ n < next /\ Waits(who, Q, n) # {} /\ Refusals(who, X, n) = {} /\ Events(who, X, n) = {}
  \/ /\ n < next /\ Waits(who, Q, n) = {} /\ Events(who, X, n) = {}
     /\ \E x \in X : Refusals(who, X, n) = {x}
  \/ /\ n < next /\ Waits(who, Q, n) = {} /\ Refusals(who, X, n) = {}
     /\ \E session \in Sessions, count \in 1 .. MaxEvents : Events(who, X, n) = Emission(session, who, n, count)

Once(who, X, Q, next) == \A n \in 1 .. MaxFrames : OnceAt(who, X, Q, next, n)

History(who, R, T, P, E, Q, next) ==
  /\ Ordered(who, R, T, P, E)
  /\ Pending(who, All(R, T, P, E), Q, next)
  /\ Once(who, All(R, T, P, E), Q, next)

(* Only what belongs to the connection counts. *)
LEMMA OnlyOwn ==
  ASSUME NEW who, NEW X, NEW Y, NEW Q, NEW next,
         {x \in X : x.who = who} = {x \in Y : x.who = who}
  PROVE  /\ Pending(who, X, Q, next) => Pending(who, Y, Q, next)
         /\ Once(who, X, Q, next) => Once(who, Y, Q, next)
<1>1. \A x : x.who = who => (x \in X <=> x \in Y)
  OBVIOUS
<1>2. ASSUME NEW n PROVE Refusals(who, X, n) = Refusals(who, Y, n) /\ Events(who, X, n) = Events(who, Y, n)
  BY <1>1 DEF Refusals, Events, Of
<1>3. Pending(who, X, Q, next) => Pending(who, Y, Q, next)
  BY <1>1 DEF Pending, Of
<1>4. ASSUME NEW n, OnceAt(who, X, Q, next, n) PROVE OnceAt(who, Y, Q, next, n)
  <2>1. ASSUME NEW x \in X, Refusals(who, X, n) = {x} PROVE x \in Y
    <3>1. x \in Refusals(who, X, n)
      BY <2>1
    <3> QED
      BY <1>1, <3>1 DEF Refusals
  <2> QED
    BY <1>2, <1>4, <2>1 DEF OnceAt
<1> QED
  BY <1>3, <1>4 DEF Once

LEMMA SortedAppend ==
  ASSUME NEW who, NEW s \in Seq(Response), NEW e \in Response, Sorted(s, who), Before(Elements(s), {e}, who)
  PROVE  Sorted(Append(s, e), who)
<1>1. /\ Len(s) \in Nat /\ DOMAIN s = 1 .. Len(s) /\ DOMAIN Append(s, e) = 1 .. Len(s) + 1
      /\ \A i \in 1 .. Len(s) : Append(s, e)[i] = s[i]
      /\ Append(s, e)[Len(s) + 1] = e
  OBVIOUS
<1> SUFFICES ASSUME NEW i \in 1 .. Len(s) + 1, NEW j \in 1 .. Len(s) + 1, i < j,
                    Of(Append(s, e)[i], who), Of(Append(s, e)[j], who)
             PROVE  Precedes(Append(s, e)[i], Append(s, e)[j])
  BY <1>1 DEF Sorted
<1>2. i \in 1 .. Len(s) /\ Append(s, e)[i] = s[i] /\ s[i] \in Elements(s)
  BY <1>1 DEF Elements
<1>3. CASE j \in 1 .. Len(s)
  BY <1>1, <1>2, <1>3 DEF Sorted
<1>4. CASE j = Len(s) + 1
  BY <1>1, <1>2, <1>4 DEF Before
<1> QED
  BY <1>1, <1>3, <1>4

LEMMA SortedTail ==
  ASSUME NEW who, NEW s \in Seq(Response), s # <<>>, Sorted(s, who)
  PROVE  Sorted(Tail(s), who) /\ Before({Head(s)}, Elements(Tail(s)), who)
<1>1. /\ Len(s) \in Nat \ {0} /\ DOMAIN s = 1 .. Len(s) /\ DOMAIN Tail(s) = 1 .. Len(s) - 1
      /\ \A i \in 1 .. Len(s) - 1 : Tail(s)[i] = s[i + 1]
      /\ Head(s) = s[1]
  OBVIOUS
<1>2. ASSUME NEW i \in 1 .. Len(s) - 1 PROVE i + 1 \in DOMAIN s /\ 1 < i + 1 /\ 1 \in DOMAIN s
  BY <1>1
<1>3. Sorted(Tail(s), who)
  <2> SUFFICES ASSUME NEW i \in 1 .. Len(s) - 1, NEW j \in 1 .. Len(s) - 1, i < j,
                      Of(Tail(s)[i], who), Of(Tail(s)[j], who)
               PROVE  Precedes(Tail(s)[i], Tail(s)[j])
    BY <1>1 DEF Sorted
  <2>1. i + 1 \in DOMAIN s /\ j + 1 \in DOMAIN s /\ i + 1 < j + 1
    BY <1>1, <1>2
  <2> QED
    BY <1>1, <2>1 DEF Sorted
<1>4. Before({Head(s)}, Elements(Tail(s)), who)
  <2> SUFFICES ASSUME NEW i \in 1 .. Len(s) - 1, Of(Head(s), who), Of(Tail(s)[i], who)
               PROVE  Precedes(Head(s), Tail(s)[i])
    BY <1>1 DEF Before, Elements
  <2> QED
    BY <1>1, <1>2 DEF Sorted
<1> QED
  BY <1>3, <1>4

LEMMA SortedSplit ==
  ASSUME NEW who, NEW s \in Seq(Response), NEW n \in 1 .. Len(s), Sorted(s, who)
  PROVE  /\ Sorted(SubSeq(s, 1, n), who) /\ Sorted(SubSeq(s, n + 1, Len(s)), who)
         /\ Before(Elements(SubSeq(s, 1, n)), Elements(SubSeq(s, n + 1, Len(s))), who)
<1>1. PICK l, first, rest : l = Len(s) /\ first = SubSeq(s, 1, n) /\ rest = SubSeq(s, n + 1, Len(s))
  OBVIOUS
<1>2. /\ DOMAIN first = 1 .. n /\ \A i \in 1 .. n : first[i] = s[i] /\ i \in DOMAIN s
      /\ DOMAIN rest = 1 .. l - n /\ \A i \in 1 .. l - n : rest[i] = s[n + i] /\ n + i \in DOMAIN s
  BY <1>1, SubSeqParts
<1>3. l \in Nat /\ n \in Nat
  BY <1>1
<1>4. Sorted(first, who)
  BY <1>2 DEF Sorted
<1>5. Sorted(rest, who)
  <2> SUFFICES ASSUME NEW i \in 1 .. l - n, NEW j \in 1 .. l - n, i < j, Of(rest[i], who), Of(rest[j], who)
               PROVE  Precedes(rest[i], rest[j])
    BY <1>2 DEF Sorted
  <2>1. n + i < n + j
    BY <1>3
  <2> QED
    BY <1>2, <2>1 DEF Sorted
<1>6. Before(Elements(first), Elements(rest), who)
  <2> SUFFICES ASSUME NEW i \in 1 .. n, NEW j \in 1 .. l - n, Of(first[i], who), Of(rest[j], who)
               PROVE  Precedes(first[i], rest[j])
    BY <1>2 DEF Before, Elements
  <2>1. i < n + j
    BY <1>3
  <2> QED
    BY <1>2, <2>1 DEF Sorted
<1> QED
  BY <1>1, <1>4, <1>5, <1>6

LEMMA SortedConcat ==
  ASSUME NEW who, NEW s \in Seq(Response), NEW t \in Seq(Response),
         Sorted(s, who), Sorted(t, who), Before(Elements(s), Elements(t), who)
  PROVE  /\ s \o t \in Seq(Response)
         /\ Sorted(s \o t, who) /\ Elements(s \o t) = Elements(s) \cup Elements(t)
<1>1. PICK u, m, n : u = s \o t /\ m = Len(s) /\ n = Len(t)
  OBVIOUS
<1>2. /\ u \in Seq(Response) /\ m \in Nat /\ n \in Nat /\ DOMAIN s = 1 .. m /\ DOMAIN t = 1 .. n
      /\ Len(u) = m + n
      /\ \A i \in 1 .. m + n : u[i] = IF i <= m THEN s[i] ELSE t[i - m]
  BY <1>1, ConcatProperties
<1>3. DOMAIN u = 1 .. m + n
  BY <1>2, LenProperties
<1>4. ASSUME NEW i \in 1 .. m + n, ~(i <= m) PROVE i - m \in 1 .. n /\ u[i] = t[i - m]
  BY <1>2, <1>4
<1>5. ASSUME NEW i \in 1 .. m + n, i <= m PROVE i \in 1 .. m /\ u[i] = s[i]
  BY <1>2, <1>5
<1>6. Elements(u) = Elements(s) \cup Elements(t)
  <2>1. ASSUME NEW i \in 1 .. m + n PROVE u[i] \in Elements(s) \cup Elements(t)
    BY <1>2, <1>4, <1>5 DEF Elements
  <2>2. ASSUME NEW i \in 1 .. m PROVE s[i] \in Elements(u)
    <3>1. i \in 1 .. m + n /\ i <= m
      BY <1>2
    <3> QED
      BY <1>3, <1>5, <3>1 DEF Elements
  <2>3. ASSUME NEW i \in 1 .. n PROVE t[i] \in Elements(u)
    <3>1. PICK j \in 1 .. m + n : j = m + i
      BY <1>2
    <3>2. ~(j <= m) /\ j - m = i
      BY <1>2, <3>1
    <3>3. u[j] = t[i]
      BY <1>4, <3>2
    <3> QED
      BY <1>3, <3>3 DEF Elements
  <2> QED
    BY <1>2, <1>3, <2>1, <2>2, <2>3 DEF Elements
<1>7. Sorted(u, who)
  <2> SUFFICES ASSUME NEW i \in 1 .. m + n, NEW j \in 1 .. m + n, i < j, Of(u[i], who), Of(u[j], who)
               PROVE  Precedes(u[i], u[j])
    BY <1>3 DEF Sorted
  <2>1. CASE j <= m
    <3>1. i <= m
      BY <1>2, <2>1
    <3> QED
      BY <1>2, <1>5, <2>1, <3>1 DEF Sorted
  <2>2. CASE i <= m /\ ~(j <= m)
    BY <1>2, <1>4, <1>5, <2>2 DEF Before, Elements
  <2>3. CASE ~(i <= m) /\ ~(j <= m)
    <3>1. i - m < j - m
      BY <1>2
    <3> QED
      BY <1>2, <1>4, <2>3, <3>1 DEF Sorted
  <2> QED
    BY <2>1, <2>2, <2>3
<1> QED
  BY <1>1, <1>2, <1>6, <1>7

(* flush_output moves the first responses from the buffer to the client. *)
LEMMA HistoryFlushed ==
  ASSUME NEW who, NEW R \in Seq(Response), NEW T \in Seq(Response), NEW P \in Seq(Response),
         NEW E \in Seq(Response), NEW Q, NEW next, NEW n \in 1 .. Len(T),
         History(who, R, T, P, E, Q, next)
  PROVE  History(who, R \o SubSeq(T, 1, n), SubSeq(T, n + 1, Len(T)), P, E, Q, next)
<1>1. PICK first, rest : first = SubSeq(T, 1, n) /\ rest = SubSeq(T, n + 1, Len(T))
  OBVIOUS
<1>2. first \in Seq(Response) /\ rest \in Seq(Response) /\ Elements(T) = Elements(first) \cup Elements(rest)
  BY <1>1, SubSeqElements
<1>3. Ordered(who, R, T, P, E)
  BY DEF History
<1>4. Sorted(first, who) /\ Sorted(rest, who) /\ Before(Elements(first), Elements(rest), who)
  BY <1>1, <1>3, SortedSplit DEF Ordered
<1>5. Sorted(R, who) /\ Before(Elements(R), Elements(first), who)
  BY <1>2, <1>3 DEF Ordered, Before
<1>6. Sorted(R \o first, who) /\ Elements(R \o first) = Elements(R) \cup Elements(first)
  BY <1>2, <1>4, <1>5, SortedConcat
<1>7. Ordered(who, R \o first, rest, P, E)
  BY <1>2, <1>3, <1>4, <1>6 DEF Ordered, Before
<1>8. All(R \o first, rest, P, E) = All(R, T, P, E)
  BY <1>2, <1>6 DEF All
<1> QED
  BY <1>1, <1>7, <1>8 DEF History

(* The response at the head of the engine's queue goes into the buffer. *)
LEMMA HistoryRouted ==
  ASSUME NEW who, NEW R \in Seq(Response), NEW T \in Seq(Response), NEW P \in Seq(Response),
         NEW E \in Seq(Response), NEW Q, NEW next, P # <<>>,
         History(who, R, T, P, E, Q, next)
  PROVE  History(who, R, Append(T, Head(P)), Tail(P), E, Q, next)
<1>1. PICK x, rest, new : x = Head(P) /\ rest = Tail(P) /\ new = Append(T, x)
  OBVIOUS
<1>2. /\ x \in Response /\ rest \in Seq(Response) /\ Elements(P) = {x} \cup Elements(rest)
  BY <1>1, TailElements
<1>3. Ordered(who, R, T, P, E)
  BY DEF History
<1>4. Sorted(rest, who) /\ Before({x}, Elements(rest), who)
  BY <1>1, <1>3, SortedTail DEF Ordered
<1>5. Sorted(new, who)
  <2>1. Sorted(T, who) /\ Before(Elements(T), {x}, who)
    BY <1>2, <1>3 DEF Ordered, Before
  <2> QED
    BY <1>1, <1>2, <2>1, SortedAppend
<1>6. Elements(new) = Elements(T) \cup {x}
  BY <1>1, <1>2, AppendElements
<1>7. Ordered(who, R, new, rest, E)
  BY <1>2, <1>3, <1>4, <1>5, <1>6 DEF Ordered, Before
<1>8. All(R, new, rest, E) = All(R, T, P, E)
  BY <1>2, <1>6 DEF All
<1> QED
  BY <1>1, <1>7, <1>8 DEF History

(* It goes elsewhere, or nowhere, and was not for this connection. *)
LEMMA HistoryPassed ==
  ASSUME NEW who, NEW R \in Seq(Response), NEW T \in Seq(Response), NEW P \in Seq(Response),
         NEW E \in Seq(Response), NEW Q, NEW next, P # <<>>, Head(P).who # who,
         History(who, R, T, P, E, Q, next)
  PROVE  History(who, R, T, Tail(P), E, Q, next)
<1>1. PICK x, rest : x = Head(P) /\ rest = Tail(P)
  OBVIOUS
<1>2. x \in Response /\ rest \in Seq(Response) /\ Elements(P) = {x} \cup Elements(rest) /\ x.who # who
  BY <1>1, TailElements
<1>3. Ordered(who, R, T, P, E)
  BY DEF History
<1>4. Sorted(rest, who)
  BY <1>1, <1>3, SortedTail DEF Ordered
<1>5. Ordered(who, R, T, rest, E)
  BY <1>2, <1>3, <1>4 DEF Ordered, Before
<1>6. {y \in All(R, T, P, E) : y.who = who} = {y \in All(R, T, rest, E) : y.who = who}
  BY <1>2 DEF All
<1> QED
  BY <1>1, <1>5, <1>6, OnlyOwn DEF History

(* A rejection that consumes no sequence is queued. *)
LEMMA HistoryAside ==
  ASSUME NEW who, NEW R \in Seq(Response), NEW T \in Seq(Response), NEW P \in Seq(Response),
         NEW E \in Seq(Response), NEW Q, NEW next, NEW x \in Response,
         x.reason = "InvalidSessionSequence",
         History(who, R, T, P, E, Q, next)
  PROVE  History(who, R, Append(T, x), P, E, Q, next)
<1>1. PICK new : new = Append(T, x)
  OBVIOUS
<1>2. Elements(new) = Elements(T) \cup {x}
  BY <1>1, AppendElements
<1>3. ~Of(x, who) /\ x.reason \notin {"RiskLimit", "GatewayBackpressure"}
  BY DEF Of
<1>4. Ordered(who, R, T, P, E)
  BY DEF History
<1>5. Sorted(new, who)
  <2>1. Sorted(T, who) /\ Before(Elements(T), {x}, who)
    BY <1>3, <1>4 DEF Ordered, Before
  <2> QED
    BY <1>1, <2>1, SortedAppend
<1>6. Ordered(who, R, new, P, E)
  BY <1>2, <1>3, <1>4, <1>5 DEF Ordered, Before
<1>7. All(R, new, P, E) = All(R, T, P, E) \cup {x}
  BY <1>2 DEF All
<1>8. PICK X, Y : X = All(R, T, P, E) /\ Y = X \cup {x} /\ Y = All(R, new, P, E)
  BY <1>7
<1>9. Pending(who, Y, Q, next)
  BY <1>3, <1>8 DEF History, Pending
<1>10. ASSUME NEW n PROVE Refusals(who, Y, n) = Refusals(who, X, n) /\ Events(who, Y, n) = Events(who, X, n)
  BY <1>3, <1>8 DEF Refusals, Events
<1>11. Once(who, Y, Q, next)
  BY <1>8, <1>10 DEF History, Once, OnceAt
<1> QED
  BY <1>1, <1>6, <1>8, <1>9, <1>11 DEF History

(* The engine's thread pushes an event. *)
LEMMA HistoryPushed ==
  ASSUME NEW who, NEW R \in Seq(Response), NEW T \in Seq(Response), NEW P \in Seq(Response),
         NEW E \in Seq(Response), NEW Q, NEW next, E # <<>>,
         History(who, R, T, P, E, Q, next)
  PROVE  History(who, R, T, Append(P, Head(E)), Tail(E), Q, next)
<1>1. PICK x, rest, new : x = Head(E) /\ rest = Tail(E) /\ new = Append(P, x)
  OBVIOUS
<1>2. x \in Response /\ rest \in Seq(Response) /\ Elements(E) = {x} \cup Elements(rest)
  BY <1>1, TailElements
<1>3. Ordered(who, R, T, P, E)
  BY DEF History
<1>4. Sorted(rest, who) /\ Before({x}, Elements(rest), who)
  BY <1>1, <1>3, SortedTail DEF Ordered
<1>5. Sorted(new, who)
  <2>1. Sorted(P, who) /\ Before(Elements(P), {x}, who)
    BY <1>2, <1>3 DEF Ordered, Before
  <2> QED
    BY <1>1, <1>2, <2>1, SortedAppend
<1>6. Elements(new) = Elements(P) \cup {x}
  BY <1>1, <1>2, AppendElements
<1>7. Ordered(who, R, T, new, rest)
  BY <1>2, <1>3, <1>4, <1>5, <1>6 DEF Ordered, Before
<1>8. All(R, T, new, rest) = All(R, T, P, E)
  BY <1>2, <1>6 DEF All
<1> QED
  BY <1>1, <1>7, <1>8 DEF History

LEMMA RequestParts ==
  ASSUME NEW Q \in Seq(Request), NEW i \in DOMAIN Q
  PROVE  /\ Q[i] \in Request /\ Q[i].request \in Frame /\ Q[i].who \in Clients
         /\ Q[i].request.session \in Sessions /\ Q[i].request.sequence \in 1 .. MaxFrames
         /\ Q[i].request.sequence \in Nat
<1>1. Q[i] \in Request
  OBVIOUS
<1>2. Q[i].request \in Frame /\ Q[i].who \in Clients
  BY <1>1 DEF Request
<1>3. Q[i].request.session \in Sessions /\ Q[i].request.sequence \in 1 .. MaxFrames
  BY <1>2 DEF Frame
<1> QED
  BY <1>1, <1>2, <1>3, GatewayAssumption

(* The engine's thread takes the first request and emits its events. *)
LEMMA HistoryTaken ==
  ASSUME NEW who, NEW R \in Seq(Response), NEW T \in Seq(Response), NEW P \in Seq(Response),
         NEW Q \in Seq(Request), NEW next \in Nat, Q # <<>>, NEW count \in 1 .. MaxEvents,
         NEW q, q = Head(Q),
         NEW E \in Seq(Response),
         E = [k \in 1 .. count |-> [session |-> q.request.session, sequence |-> q.request.sequence,
                                    who |-> q.who, k |-> k, of |-> count, reason |-> "None"]],
         History(who, R, T, P, <<>>, Q, next)
  PROVE  History(who, R, T, P, E, Tail(Q), next)
<1>1. PICK rest, l : rest = Tail(Q) /\ l = Len(Q)
  OBVIOUS
<1>2. /\ l \in Nat \ {0} /\ DOMAIN Q = 1 .. l /\ DOMAIN rest = 1 .. l - 1
      /\ \A i \in 1 .. l - 1 : rest[i] = Q[i + 1] /\ i + 1 \in DOMAIN Q /\ 1 < i + 1
      /\ q = Q[1] /\ 1 \in DOMAIN Q
  BY <1>1
<1>3. q.request.session \in Sessions /\ q.request.sequence \in Nat
  BY <1>2, RequestParts
<1>4. PICK m, session : m = q.request.sequence /\ session = q.request.session
  OBVIOUS
<1>5. /\ DOMAIN E = 1 .. count
      /\ \A k \in 1 .. count :
           E[k] = [session |-> session, sequence |-> m, who |-> q.who, k |-> k, of |-> count, reason |-> "None"]
  BY <1>4
<1>6. Elements(E) = Emission(session, q.who, m, count)
  BY <1>5, ZenonT(60) DEF Elements, Emission
<1>7. \A k \in 1 .. count : /\ E[k].sequence = m /\ E[k].k = k /\ E[k].who = q.who
                            /\ E[k].reason = "None"
  BY <1>5
<1>8. \A x \in Elements(E) : x.sequence = m /\ x.who = q.who /\ x.reason = "None"
  BY <1>5, <1>7 DEF Elements
<1>9. PICK X : X = All(R, T, P, <<>>)
  OBVIOUS
<1>10. X = Elements(R) \cup Elements(T) \cup Elements(P)
  <2>1. Elements(<<>>) = {}
    BY DEF Elements
  <2> QED
    BY <1>9, <2>1 DEF All
<1>11. All(R, T, P, E) = X \cup Elements(E)
  BY <1>10 DEF All
<1>12. Ordered(who, R, T, P, <<>>) /\ Pending(who, X, Q, next) /\ Once(who, X, Q, next)
  BY <1>9 DEF History
<1>13. \A x \in X : Of(x, who) /\ q.who = who => x.sequence < m
  BY <1>2, <1>4, <1>12 DEF Pending
<1>14. Before(X, Elements(E), who)
  <2> SUFFICES ASSUME NEW x \in X, NEW y \in Elements(E), Of(x, who), Of(y, who) PROVE Precedes(x, y)
    BY DEF Before
  <2>1. y.sequence = m /\ q.who = who
    BY <1>8 DEF Of
  <2> QED
    BY <1>13, <2>1 DEF Precedes
<1>15. Sorted(E, who)
  <2> SUFFICES ASSUME NEW i \in 1 .. count, NEW j \in 1 .. count, i < j PROVE Precedes(E[i], E[j])
    BY <1>5 DEF Sorted
  <2> QED
    BY <1>7 DEF Precedes
<1>16. Ordered(who, R, T, P, E)
  BY <1>10, <1>12, <1>14, <1>15 DEF Ordered, Before
<1>17. Pending(who, X \cup Elements(E), rest, next)
  <2>1. ASSUME NEW i \in DOMAIN rest, NEW j \in DOMAIN rest, i < j, rest[i].who = who, rest[j].who = who
        PROVE  rest[i].request.sequence < rest[j].request.sequence
    <3>1. i + 1 < j + 1
      BY <1>2, <2>1
    <3> QED
      BY <1>2, <1>12, <2>1, <3>1 DEF Pending
  <2>2. \A i \in DOMAIN rest : rest[i].who = who => rest[i].request.sequence < next
    BY <1>2, <1>12 DEF Pending
  <2>3. ASSUME NEW x \in X, Of(x, who)
        PROVE  x.sequence < next /\ \A i \in DOMAIN rest : rest[i].who = who => x.sequence < rest[i].request.sequence
    BY <1>2, <1>12, <2>3 DEF Pending
  <2>4. ASSUME NEW x \in Elements(E), Of(x, who)
        PROVE  x.sequence < next /\ \A i \in DOMAIN rest : rest[i].who = who => x.sequence < rest[i].request.sequence
    <3>1. x.sequence = m /\ q.who = who
      BY <1>8, <2>4 DEF Of
    <3> QED
      BY <1>2, <1>4, <1>12, <3>1 DEF Pending
  <2> QED
    BY <2>1, <2>2, <2>3, <2>4 DEF Pending
<1>18. ASSUME NEW n \in 1 .. MaxFrames, ~(q.who = who /\ m = n)
       PROVE  OnceAt(who, X \cup Elements(E), rest, next, n)
  <2>1. Waits(who, rest, n) = {} <=> Waits(who, Q, n) = {}
    <3>1. ASSUME NEW i \in Waits(who, Q, n) PROVE \E j \in DOMAIN rest : j \in Waits(who, rest, n)
      <4>1. i \in 1 .. l /\ Q[i].who = who /\ Q[i].request.sequence = n
        BY <1>2, <3>1 DEF Waits
      <4>2. i # 1
        BY <1>2, <1>4, <1>18, <4>1
      <4>3. PICK j \in 1 .. l - 1 : i = j + 1
        <5>1. i - 1 \in 1 .. l - 1 /\ i = (i - 1) + 1
          BY <1>2, <4>1, <4>2
        <5> QED
          BY <5>1
      <4> QED
        BY <1>2, <4>1, <4>3 DEF Waits
    <3>2. ASSUME NEW j \in Waits(who, rest, n) PROVE j + 1 \in Waits(who, Q, n)
      BY <1>2, <3>2 DEF Waits
    <3> QED
      BY <3>1, <3>2
  <2>2. Refusals(who, X \cup Elements(E), n) = Refusals(who, X, n)
    BY <1>8 DEF Refusals
  <2>3. Events(who, X \cup Elements(E), n) = Events(who, X, n)
    BY <1>8, <1>18 DEF Events, Of
  <2>4. OnceAt(who, X, Q, next, n)
    BY <1>12 DEF Once
  <2> QED
    BY <2>1, <2>2, <2>3, <2>4 DEF OnceAt
<1>19. ASSUME NEW n \in 1 .. MaxFrames, q.who = who, m = n
       PROVE  OnceAt(who, X \cup Elements(E), rest, next, n)
  <2>1. 1 \in Waits(who, Q, n)
    BY <1>2, <1>4, <1>19 DEF Waits
  <2>2. n < next /\ Refusals(who, X, n) = {} /\ Events(who, X, n) = {}
    <3>1. OnceAt(who, X, Q, next, n)
      BY <1>12 DEF Once
    <3> QED
      BY <2>1, <3>1 DEF OnceAt
  <2>3. Waits(who, rest, n) = {}
    <3> SUFFICES ASSUME NEW j \in Waits(who, rest, n) PROVE FALSE
      OBVIOUS
    <3>1. j \in 1 .. l - 1 /\ rest[j].who = who /\ rest[j].request.sequence = n
      BY <1>2 DEF Waits
    <3>2. m < n
      BY <1>2, <1>4, <1>12, <1>19, <3>1 DEF Pending
    <3> QED
      BY <1>19, <3>2
  <2>4. Refusals(who, X \cup Elements(E), n) = {}
    BY <1>8, <2>2 DEF Refusals
  <2>5. Events(who, X \cup Elements(E), n) = Elements(E)
    BY <1>8, <1>19, <2>2 DEF Events, Of
  <2> QED
    BY <1>3, <1>4, <1>6, <1>19, <2>2, <2>3, <2>4, <2>5 DEF OnceAt
<1>20. Once(who, X \cup Elements(E), rest, next)
  BY <1>18, <1>19 DEF Once
<1> QED
  BY <1>1, <1>11, <1>16, <1>17, <1>20 DEF History

(* A request is queued: of another connection, or this one's next. *)
LEMMA HistoryQueued ==
  ASSUME NEW who, NEW R \in Seq(Response), NEW T \in Seq(Response), NEW P \in Seq(Response),
         NEW E \in Seq(Response), NEW Q \in Seq(Request), NEW next \in Nat, NEW q \in Request,
         History(who, R, T, P, E, Q, next)
  PROVE  /\ q.who # who => History(who, R, T, P, E, Append(Q, q), next)
         /\ q.who = who /\ q.request.sequence = next => History(who, R, T, P, E, Append(Q, q), next + 1)
<1>1. PICK X, new, l : X = All(R, T, P, E) /\ new = Append(Q, q) /\ l = Len(Q)
  OBVIOUS
<1>2. /\ l \in Nat /\ DOMAIN Q = 1 .. l /\ DOMAIN new = 1 .. l + 1
      /\ \A i \in 1 .. l : new[i] = Q[i] /\ i \in 1 .. l + 1
      /\ new[l + 1] = q /\ l + 1 \in 1 .. l + 1
      /\ \A i \in 1 .. l + 1 : i \in 1 .. l \/ i = l + 1
      /\ \A i \in 1 .. l + 1 : ~(l + 1 < i)
  BY <1>1
<1>3. Ordered(who, R, T, P, E) /\ Pending(who, X, Q, next) /\ Once(who, X, Q, next)
  BY <1>1 DEF History
<1>4. /\ \A i \in DOMAIN Q : Q[i].request.sequence \in Nat
      /\ \A x \in X : x.sequence \in Nat
  <2>1. X \subseteq Response
    BY <1>1, ElementsTyped DEF All
  <2>2. \A x \in Response : x.sequence \in Nat
    BY GatewayAssumption DEF Response
  <2> QED
    BY <2>1, <2>2, RequestParts
<1>5. ASSUME q.who # who PROVE Pending(who, X, new, next)
  BY <1>2, <1>3, <1>5 DEF Pending
<1>6. ASSUME q.who # who PROVE Once(who, X, new, next)
  <2>1. \A n : Waits(who, new, n) = Waits(who, Q, n)
    BY <1>2, <1>6 DEF Waits
  <2> QED
    BY <1>3, <2>1 DEF Once, OnceAt
<1>7. ASSUME q.who = who, q.request.sequence = next PROVE Pending(who, X, new, next + 1)
  <2>1. ASSUME NEW i \in 1 .. l + 1, NEW j \in 1 .. l + 1, i < j, new[i].who = who, new[j].who = who
        PROVE  new[i].request.sequence < new[j].request.sequence
    <3>1. i \in 1 .. l
      BY <1>2, <2>1
    <3>2. CASE j \in 1 .. l
      BY <1>2, <1>3, <2>1, <3>1, <3>2 DEF Pending
    <3>3. CASE j = l + 1
      BY <1>2, <1>3, <1>7, <2>1, <3>1, <3>3 DEF Pending
    <3> QED
      BY <1>2, <3>2, <3>3
  <2>2. ASSUME NEW i \in 1 .. l + 1, new[i].who = who PROVE new[i].request.sequence < next + 1
    <3>1. CASE i \in 1 .. l
      <4>1. Q[i].request.sequence < next /\ Q[i].request.sequence \in Nat /\ new[i] = Q[i]
        BY <1>2, <1>3, <1>4, <2>2, <3>1 DEF Pending
      <4> QED
        BY <4>1
    <3>2. CASE i = l + 1
      BY <1>2, <1>7, <3>2
    <3> QED
      BY <1>2, <3>1, <3>2
  <2>3. ASSUME NEW x \in X, Of(x, who)
        PROVE  x.sequence < next + 1 /\ \A i \in 1 .. l + 1 : new[i].who = who => x.sequence < new[i].request.sequence
    <3>1. x.sequence \in Nat /\ x.sequence < next
      BY <1>3, <1>4, <2>3 DEF Pending
    <3>2. \A i \in 1 .. l : Q[i].who = who => x.sequence < Q[i].request.sequence
      BY <1>2, <1>3, <2>3 DEF Pending
    <3>3. x.sequence < next + 1
      BY <3>1
    <3> QED
      BY <1>2, <1>7, <3>1, <3>2, <3>3
  <2> QED
    BY <1>2, <2>1, <2>2, <2>3 DEF Pending
<1>8. ASSUME q.who = who, q.request.sequence = next PROVE Once(who, X, new, next + 1)
  <2> SUFFICES ASSUME NEW n \in 1 .. MaxFrames PROVE OnceAt(who, X, new, next + 1, n)
    BY DEF Once
  <2>1. OnceAt(who, X, Q, next, n)
    BY <1>3 DEF Once
  <2>2. CASE n = next
    <3>1. Refusals(who, X, n) = {} /\ Events(who, X, n) = {}
      BY <2>1, <2>2 DEF OnceAt
    <3>2. l + 1 \in Waits(who, new, n)
      BY <1>2, <1>8, <2>2 DEF Waits
    <3> QED
      BY <2>2, <3>1, <3>2 DEF OnceAt
  <2>3. CASE n # next
    <3>1. Waits(who, new, n) = Waits(who, Q, n)
      BY <1>2, <1>8, <2>3 DEF Waits
    <3>2. (n >= next <=> n >= next + 1) /\ (n < next <=> n < next + 1)
      BY <2>3
    <3> QED
      BY <2>1, <3>1, <3>2 DEF OnceAt
  <2> QED
    BY <2>2, <2>3
<1> QED
  BY <1>1, <1>3, <1>5, <1>6, <1>7, <1>8 DEF History

(* The next request is refused. *)
LEMMA HistoryRefused ==
  ASSUME NEW who, NEW R \in Seq(Response), NEW T \in Seq(Response), NEW P \in Seq(Response),
         NEW E \in Seq(Response), NEW Q \in Seq(Request), NEW next \in Nat, NEW x \in Response,
         x.who = who, x.sequence = next, x.reason \in {"RiskLimit", "GatewayBackpressure"},
         History(who, R, T, P, E, Q, next)
  PROVE  History(who, R, Append(T, x), P, E, Q, next + 1)
<1>1. PICK X, new : X = All(R, T, P, E) /\ new = Append(T, x)
  OBVIOUS
<1>2. Elements(new) = Elements(T) \cup {x}
  BY <1>1, AppendElements
<1>3. ~Of(x, who)
  BY DEF Of
<1>4. Ordered(who, R, T, P, E) /\ Pending(who, X, Q, next) /\ Once(who, X, Q, next)
  BY <1>1 DEF History
<1>5. Sorted(new, who)
  <2>1. Sorted(T, who) /\ Before(Elements(T), {x}, who)
    BY <1>3, <1>4 DEF Ordered, Before
  <2> QED
    BY <1>1, <2>1, SortedAppend
<1>6. Ordered(who, R, new, P, E)
  BY <1>2, <1>3, <1>4, <1>5 DEF Ordered, Before
<1>7. All(R, new, P, E) = X \cup {x}
  BY <1>1, <1>2 DEF All
<1>8. /\ \A i \in DOMAIN Q : Q[i].request.sequence \in Nat
      /\ \A y \in X : y.sequence \in Nat
  <2>1. X \subseteq Response
    BY <1>1, ElementsTyped DEF All
  <2>2. \A y \in Response : y.sequence \in Nat
    BY GatewayAssumption DEF Response
  <2> QED
    BY <2>1, <2>2, RequestParts
<1>9. \A m \in Nat : m < next => m < next + 1
  OBVIOUS
<1>10. Pending(who, X \cup {x}, Q, next + 1)
  BY <1>3, <1>4, <1>8, <1>9 DEF Pending
<1>11. Once(who, X \cup {x}, Q, next + 1)
  <2> SUFFICES ASSUME NEW n \in 1 .. MaxFrames PROVE OnceAt(who, X \cup {x}, Q, next + 1, n)
    BY DEF Once
  <2>1. OnceAt(who, X, Q, next, n)
    BY <1>4 DEF Once
  <2>2. Events(who, X \cup {x}, n) = Events(who, X, n)
    BY <1>3 DEF Events
  <2>3. CASE n = next
    <3>1. Waits(who, Q, n) = {} /\ Refusals(who, X, n) = {} /\ Events(who, X, n) = {}
      BY <2>1, <2>3 DEF OnceAt
    <3>2. Refusals(who, X \cup {x}, n) = {x}
      BY <2>3, <3>1 DEF Refusals
    <3>3. \E y \in X \cup {x} : Refusals(who, X \cup {x}, n) = {y}
      BY <3>2
    <3>4. n < next + 1
      BY <2>3
    <3> QED
      BY <2>2, <3>1, <3>3, <3>4 DEF OnceAt
  <2>4. CASE n # next
    <3>1. Refusals(who, X \cup {x}, n) = Refusals(who, X, n)
      BY <2>4 DEF Refusals
    <3>2. (n >= next <=> n >= next + 1) /\ (n < next <=> n < next + 1)
      BY <2>4
    <3> QED
      BY <2>1, <2>2, <3>1, <3>2 DEF OnceAt
  <2> QED
    BY <2>3, <2>4
<1> QED
  BY <1>1, <1>6, <1>7, <1>10, <1>11 DEF History

(* A connection just accepted, of which nothing is in the engine. *)
LEMMA HistoryFresh ==
  ASSUME NEW who, NEW P \in Seq(Response), NEW E \in Seq(Response), NEW Q \in Seq(Request),
         \A x \in Elements(P) \cup Elements(E) : x.who # who,
         \A i \in DOMAIN Q : Q[i].who # who
  PROVE  History(who, <<>>, <<>>, P, E, Q, 1)
<1>1. Elements(<<>>) = {}
  BY DEF Elements
<1>2. PICK X : X = All(<<>>, <<>>, P, E) /\ \A x \in X : x.who # who
  BY <1>1 DEF All
<1>3. /\ \A i \in DOMAIN P : P[i].who # who
      /\ \A i \in DOMAIN E : E[i].who # who
  BY DEF Elements
<1>4. Ordered(who, <<>>, <<>>, P, E)
  BY <1>1, <1>3 DEF Ordered, Before, Sorted, Of, Elements
<1>5. Pending(who, X, Q, 1)
  BY <1>2 DEF Pending, Of
<1>6. Once(who, X, Q, 1)
  BY <1>2 DEF Once, OnceAt, Waits, Refusals, Events, Of
<1> QED
  BY <1>2, <1>4, <1>5, <1>6 DEF History

-----------------------------------------------------------------------------
(* Every live connection has a history in order, and a connection still to be
   accepted has none. *)
ConnectionHistory(c) ==
  /\ History(c.who, received[c.who], c.transmit, responses, emitting, requests, c.validator.next)
  /\ c.validator.session = None => c.validator.next = 1

HistoryOK ==
  /\ \A fd \in Live : ConnectionHistory(connections[fd])
  /\ \A who \in Clients : who > opened => received[who] = <<>>

LEMMA HistoryKept ==
  ASSUME HistoryOK, UNCHANGED <<received, responses, emitting, requests, opened>>,
         \A fd \in Live' : fd \in Live /\ connections'[fd] = connections[fd]
  PROVE  HistoryOK'
BY DEF HistoryOK, ConnectionHistory

LEMMA HistoryClosed ==
  ASSUME IndInv, HistoryOK, NEW fd \in Live, CloseConnection(fd),
         UNCHANGED <<received, responses, emitting, requests, opened>>
  PROVE  HistoryOK'
<1>1. Live' = Live \ {fd} /\ \A other \in Live' : connections'[other] = connections[other]
  BY CloseTakesOut
<1> QED
  BY <1>1, HistoryKept

(* A step that does the same thing to the history of every connection. *)
LEMMA HistoryOfAll ==
  ASSUME HistoryOK, UNCHANGED <<received, connections, opened>>,
         \A fd \in Live : ConnectionHistory(connections[fd]) =>
           History(connections[fd].who, received[connections[fd].who], connections[fd].transmit,
                   responses', emitting', requests', connections[fd].validator.next)
  PROVE  HistoryOK'
<1>1. Live' = Live
  BY DEF Live
<1> QED
  BY <1>1 DEF HistoryOK, ConnectionHistory

LEMMA HistoryRouteResponse ==
  ASSUME IndInv, HistoryOK, RouteResponse
  PROVE  HistoryOK'
<1> DEFINE r == Head(responses)
           fd == sessionToFd[r.session]
           lost == IF fd = None THEN TRUE ELSE connections[fd] = None
<1>1. /\ TypeOK /\ responses # <<>> /\ responses' = Tail(responses)
      /\ UNCHANGED <<requests, emitting, opened, received>>
      /\ responses \in Seq(Response) /\ emitting \in Seq(Response)
  BY DEF IndInv, SessionsBound, RouteResponse, TypeOK
<1>2. /\ r \in Response /\ responses' \in Seq(Response)
      /\ Elements(responses) = {r} \cup Elements(responses')
  BY <1>1, TailElements
<1>3. r.session \in Sessions /\ fd \in Fds \cup {None}
  BY <1>1, <1>2 DEF Response, TypeOK
<1>4. ASSUME NEW other \in Live, connections[other].who = r.who PROVE other = fd
  <2>1. BoundBy(r.who, r.session)
    BY <1>2 DEF IndInv, InFlightOK
  <2>2. other \in Fds /\ connections[other].validator.session = r.session
    BY <1>4, <2>1 DEF BoundBy, Live
  <2> QED
    BY <1>3, <1>4, <2>2 DEF IndInv, SessionsBound
<1>5. ASSUME NEW other \in Live, other # fd, connections'[other] = connections[other]
      PROVE  ConnectionHistory(connections[other])'
  <2>1. PICK c : c = connections[other]
    OBVIOUS
  <2>2. c.who \in Clients /\ c.transmit \in Seq(Response) /\ received[c.who] \in Seq(Response)
    BY <1>1, <2>1, ConnectionParts DEF TypeOK
  <2>3. r.who # c.who
    BY <1>4, <1>5, <2>1
  <2>4. ConnectionHistory(c)
    BY <2>1 DEF HistoryOK
  <2>5. History(c.who, received[c.who], c.transmit, Tail(responses), emitting, requests, c.validator.next)
    BY <1>1, <2>2, <2>3, <2>4, HistoryPassed DEF ConnectionHistory
  <2> QED
    BY <1>1, <1>5, <2>1, <2>4, <2>5 DEF ConnectionHistory
<1>6. CASE lost /\ UNCHANGED <<connections, sessionToFd, inbound, hungUp>>
  <2>1. Live' = Live /\ fd \notin Live
    BY <1>6, GatewayAssumption DEF Live
  <2> QED
    BY <1>1, <1>5, <1>6, <2>1 DEF HistoryOK
<1>7. CASE ~lost /\ ~HasRoom(connections[fd]) /\ CloseConnection(fd)
  <2>1. fd \in Live
    BY <1>3, <1>7 DEF Live
  <2>2. Live' = Live \ {fd} /\ \A other \in Live' : connections'[other] = connections[other]
    BY <1>7, <2>1, CloseTakesOut
  <2> QED
    BY <1>1, <1>5, <2>2 DEF HistoryOK
<1>8. CASE /\ ~lost /\ HasRoom(connections[fd])
           /\ connections' = [connections EXCEPT ![fd] = Queued(@, r)]
           /\ UNCHANGED <<sessionToFd, inbound, hungUp>>
  <2>1. fd \in Live
    BY <1>3, <1>8 DEF Live
  <2>2. PICK c, new, x : c = connections[fd] /\ new = Queued(c, r) /\ x = r
    OBVIOUS
  <2>3. /\ fd \in Fds /\ c \in Connection /\ Len(c.transmit) <= TransmitCapacity /\ c.who \in Clients
        /\ c.transmit \in Seq(Response) /\ received[c.who] \in Seq(Response)
    BY <1>1, <2>1, <2>2, ConnectionParts, SMTT(30) DEF TypeOK
  <2>4. /\ new \in Connection /\ new.who = c.who /\ new.validator = c.validator
        /\ new.transmit = Append(c.transmit, x)
    BY <1>2, <1>8, <2>2, <2>3, QueuedParts
  <2>5. connections \in [Fds -> Connection \cup {None}] /\ connections' = [connections EXCEPT ![fd] = new]
    BY <1>1, <1>8, <2>2 DEF TypeOK
  <2>6. connections'[fd] = new /\ \A other \in Fds : other # fd => connections'[other] = connections[other]
    BY <2>3, <2>5
  <2>7. Live' \subseteq Live
    BY <2>1, <2>6 DEF Live
  <2>8. ConnectionHistory(c)
    BY <2>1, <2>2, SMTT(30) DEF HistoryOK
  <2>9. History(c.who, received[c.who], Append(c.transmit, x), Tail(responses), emitting, requests,
                c.validator.next)
    BY <1>1, <2>2, <2>3, <2>8, HistoryRouted, Zenon DEF ConnectionHistory
  <2>10. ConnectionHistory(new)'
    BY <1>1, <2>4, <2>8, <2>9 DEF ConnectionHistory
  <2>11. ASSUME NEW other \in Live' PROVE ConnectionHistory(connections[other])'
    <3>1. CASE other = fd
      BY <2>6, <2>10, <3>1
    <3>2. CASE other # fd
      BY <1>5, <2>6, <2>7, <3>2 DEF Live
    <3> QED
      BY <3>1, <3>2
  <2> QED
    BY <1>1, <2>11 DEF HistoryOK
<1> QED
  BY <1>6, <1>7, <1>8 DEF RouteResponse

LEMMA HistoryAccepted ==
  ASSUME IndInv, HistoryOK, NEW fd \in Fds, AcceptConnection(fd)
  PROVE  HistoryOK'
<1>1. PICK new : new = FreshConnection(opened + 1)
  OBVIOUS
<1>2. /\ TypeOK /\ fd \notin Live /\ opened < MaxConnections /\ opened' = opened + 1
      /\ connections' = [connections EXCEPT ![fd] = new]
      /\ UNCHANGED <<requests, responses, emitting, received>>
  BY <1>1 DEF IndInv, SessionsBound, AcceptConnection, engineVars, Live
<1>3. opened \in Nat /\ opened + 1 \in Clients
  BY <1>2, GatewayAssumption DEF TypeOK, Clients
<1>4. /\ new.who = opened + 1 /\ new.validator.session = None /\ new.validator.next = 1
      /\ new.transmit = <<>>
  BY <1>1 DEF FreshConnection
<1>5. connections'[fd] = new /\ \A other \in Fds : other # fd => connections'[other] = connections[other]
  BY <1>2 DEF TypeOK
<1>6. Live' \subseteq Live \cup {fd}
  BY <1>5 DEF Live
<1>7. /\ responses \in Seq(Response) /\ emitting \in Seq(Response)
      /\ requests \in Seq(Request)
  BY <1>2 DEF TypeOK, Request
<1>8. \A x \in Elements(responses) \cup Elements(emitting) : x.who # opened + 1
  <2>1. Elements(responses) \subseteq Response /\ Elements(emitting) \subseteq Response
    BY <1>7, ElementsTyped
  <2>2. \A x \in Response : x.who \in Nat
    BY GatewayAssumption DEF Response, Clients
  <2>3. \A x \in Elements(responses) \cup Elements(emitting) : x.who <= opened
    BY DEF IndInv, InFlightOK, BoundBy
  <2> QED
    BY <1>3, <2>1, <2>2, <2>3
<1>9. \A i \in DOMAIN requests : requests[i].who # opened + 1
  <2> SUFFICES ASSUME NEW i \in DOMAIN requests PROVE requests[i].who # opened + 1
    OBVIOUS
  <2>1. requests[i].who \in Nat
    BY <1>7, RequestParts, GatewayAssumption DEF Clients
  <2>2. requests[i].who <= opened
    BY DEF IndInv, InFlightOK, BoundBy, Elements
  <2> QED
    BY <1>3, <2>1, <2>2
<1>10. received[opened + 1] = <<>>
  BY <1>3 DEF HistoryOK
<1>11. History(opened + 1, <<>>, <<>>, responses, emitting, requests, 1)
  BY <1>7, <1>8, <1>9, HistoryFresh
<1>12. ConnectionHistory(new)'
  BY <1>2, <1>4, <1>10, <1>11 DEF ConnectionHistory
<1>13. ASSUME NEW other \in Live' PROVE ConnectionHistory(connections[other])'
  <2>1. CASE other = fd
    BY <1>5, <1>12, <2>1
  <2>2. CASE other # fd
    BY <1>2, <1>5, <1>6, <2>2 DEF HistoryOK, ConnectionHistory, Live
  <2> QED
    BY <2>1, <2>2
<1>14. \A who \in Clients : who > opened' => received'[who] = <<>>
  <2> SUFFICES ASSUME NEW who \in Clients, who > opened' PROVE received[who] = <<>>
    BY <1>2
  <2>1. who > opened
    BY <1>2, <1>3, GatewayAssumption DEF Clients
  <2> QED
    BY <2>1 DEF HistoryOK
<1> QED
  BY <1>13, <1>14 DEF HistoryOK

LEMMA HistoryFlushOutput ==
  ASSUME IndInv, HistoryOK, NEW fd \in Live, NEW n \in 1 .. Len(connections[fd].transmit), FlushOutput(fd, n),
         UNCHANGED <<requests, responses, emitting, opened>>
  PROVE  HistoryOK'
<1>1. TypeOK /\ fd \in Fds /\ responses \in Seq(Response) /\ emitting \in Seq(Response)
  BY DEF IndInv, SessionsBound, TypeOK, Live
<1>2. PICK c, new : c = connections[fd] /\ new = Flushed(c, n)
  OBVIOUS
<1>3. /\ c \in Connection /\ c.who \in Clients /\ c.transmit \in Seq(Response)
      /\ Len(c.transmit) <= TransmitCapacity /\ n \in 1 .. Len(c.transmit)
      /\ received \in [Clients -> Seq(Response)] /\ received[c.who] \in Seq(Response)
  BY <1>1, <1>2, ConnectionParts DEF TypeOK
<1>4. /\ new \in Connection /\ new.who = c.who /\ new.validator = c.validator
      /\ new.transmit = SubSeq(c.transmit, n + 1, Len(c.transmit))
  BY <1>2, <1>3, FlushedParts
<1>5. /\ connections' = [connections EXCEPT ![fd] = new]
      /\ received' = [received EXCEPT ![c.who] = @ \o SubSeq(c.transmit, 1, n)]
  BY <1>2 DEF FlushOutput
<1>6. connections'[fd] = new /\ \A other \in Fds : other # fd => connections'[other] = connections[other]
  BY <1>1, <1>5 DEF TypeOK
<1>7. /\ received'[c.who] = received[c.who] \o SubSeq(c.transmit, 1, n)
      /\ \A who \in Clients : who # c.who => received'[who] = received[who]
  BY <1>3, <1>5
<1>8. Live' \subseteq Live
  BY <1>6 DEF Live
<1>9. ConnectionHistory(c)
  BY <1>2 DEF HistoryOK
<1>10. History(c.who, received[c.who] \o SubSeq(c.transmit, 1, n), SubSeq(c.transmit, n + 1, Len(c.transmit)),
               responses, emitting, requests, c.validator.next)
  BY <1>1, <1>3, <1>9, HistoryFlushed DEF ConnectionHistory
<1>11. ConnectionHistory(new)'
  BY <1>4, <1>7, <1>9, <1>10 DEF ConnectionHistory
<1>12. ASSUME NEW other \in Live' PROVE ConnectionHistory(connections[other])'
  <2>1. CASE other = fd
    BY <1>6, <1>11, <2>1
  <2>2. CASE other # fd
    <3>1. other \in Live /\ connections'[other] = connections[other]
      BY <1>6, <1>8, <2>2 DEF Live
    <3>2. connections[other].who \in Clients /\ connections[other].who # c.who
      BY <1>1, <1>2, <2>2, <3>1, ConnectionParts DEF IndInv, WhoOK
    <3> QED
      BY <1>7, <3>1, <3>2 DEF HistoryOK, ConnectionHistory
  <2> QED
    BY <2>1, <2>2
<1>13. \A who \in Clients : who > opened' => received'[who] = <<>>
  <2> SUFFICES ASSUME NEW who \in Clients, who > opened PROVE received'[who] = <<>>
    OBVIOUS
  <2>1. c.who <= opened /\ c.who \in Nat /\ who \in Nat /\ opened \in Nat
    <3>1. c.who <= opened
      BY <1>2 DEF IndInv, WhoOK
    <3>2. \A m \in Clients : m \in Nat
      BY GatewayAssumption DEF Clients
    <3>3. opened \in Nat
      BY <1>1, GatewayAssumption DEF TypeOK
    <3> QED
      BY <1>3, <3>1, <3>2, <3>3
  <2>2. who # c.who
    BY <2>1
  <2> QED
    BY <1>7, <2>2 DEF HistoryOK
<1> QED
  BY <1>12, <1>13 DEF HistoryOK

LEMMA HistoryEngineTake ==
  ASSUME IndInv, HistoryOK, NEW count \in 1 .. MaxEvents, EngineTake(count)
  PROVE  HistoryOK'
<1>1. PICK q : q = Head(requests)
  OBVIOUS
<1>2. /\ TypeOK /\ TypeOK'
      /\ UNCHANGED <<received, connections, opened, responses>>
      /\ emitting = <<>> /\ requests # <<>> /\ requests' = Tail(requests)
      /\ emitting' = [k \in 1 .. count |->
                        [session |-> q.request.session, sequence |-> q.request.sequence,
                         who |-> q.who, k |-> k, of |-> count, reason |-> "None"]]
  <2>1. IndInv'
    BY EngineTakeKeeps
  <2> QED
    BY <1>1, <2>1 DEF IndInv, SessionsBound, EngineTake, gatewayVars, socketVars
<1>3. /\ responses \in Seq(Response) /\ emitting' \in Seq(Response)
      /\ requests \in Seq(Request)
  BY <1>2 DEF TypeOK, Request
<1>4. ASSUME NEW fd \in Live, ConnectionHistory(connections[fd])
      PROVE  History(connections[fd].who, received[connections[fd].who], connections[fd].transmit,
                     responses', emitting', requests', connections[fd].validator.next)
  <2>1. PICK c : c = connections[fd]
    OBVIOUS
  <2>2. /\ c.who \in Clients /\ c.transmit \in Seq(Response)
        /\ c.validator \in [session: Sessions \cup {None}, next: 1 .. MaxFrames + 1]
    BY <1>2, <2>1, ConnectionParts
  <2>3. received[c.who] \in Seq(Response) /\ c.validator.next \in Nat
    <3>1. \A m \in 1 .. MaxFrames + 1 : m \in Nat
      BY GatewayAssumption
    <3> QED
      BY <1>2, <2>2, <3>1 DEF TypeOK
  <2>4. PICK E \in Seq(Response) : E = emitting'
    BY <1>3
  <2>5. History(c.who, received[c.who], c.transmit, responses, <<>>, requests, c.validator.next)
    BY <1>2, <1>4, <2>1 DEF ConnectionHistory
  <2>6. History(c.who, received[c.who], c.transmit, responses, E, Tail(requests), c.validator.next)
    BY <1>1, <1>2, <1>3, <2>2, <2>3, <2>4, <2>5, HistoryTaken, SMTT(30)
  <2> QED
    BY <1>2, <2>1, <2>4, <2>6
<1> QED
  BY <1>2, <1>4, HistoryOfAll

LEMMA HistoryEnginePush ==
  ASSUME IndInv, HistoryOK, EnginePush
  PROVE  HistoryOK'
<1>1. /\ TypeOK /\ UNCHANGED <<received, connections, opened, requests>>
      /\ emitting # <<>> /\ responses' = Append(responses, Head(emitting)) /\ emitting' = Tail(emitting)
      /\ responses \in Seq(Response) /\ emitting \in Seq(Response)
  BY DEF IndInv, SessionsBound, TypeOK, EnginePush, gatewayVars, socketVars
<1>2. ASSUME NEW fd \in Live, ConnectionHistory(connections[fd])
      PROVE  History(connections[fd].who, received[connections[fd].who], connections[fd].transmit,
                     responses', emitting', requests', connections[fd].validator.next)
  <2>1. PICK c : c = connections[fd]
    OBVIOUS
  <2>2. c.transmit \in Seq(Response) /\ received[c.who] \in Seq(Response)
    BY <1>1, <2>1, ConnectionParts DEF TypeOK
  <2>3. History(c.who, received[c.who], c.transmit, Append(responses, Head(emitting)), Tail(emitting),
                requests, c.validator.next)
    BY <1>1, <1>2, <2>1, <2>2, HistoryPushed DEF ConnectionHistory
  <2> QED
    BY <1>1, <2>1, <2>3
<1> QED
  BY <1>1, <1>2, HistoryOfAll

LEMMA HistoryDecodeRequest ==
  ASSUME IndInv, HistoryOK, DecodeRequest
  PROVE  HistoryOK'
<1>1. PICK fd, request, bound, c, new, verdict :
        /\ fd = current.fd /\ request = Head(frames) /\ bound = Bound
        /\ c = connections[fd] /\ new = connections'[fd] /\ verdict = Verdict
  OBVIOUS
<1>2. /\ fd \in Live /\ request \in Frame
      /\ connections' = [connections EXCEPT ![fd] = new]
      /\ new.who = c.who /\ new.validator = Advanced(bound, request)
      /\ new.validator.session = bound.session /\ bound \in BoundValidator
      /\ c.validator.session = None => bound = [session |-> request.session, next |-> 1]
      /\ c.validator.session # None => bound = c.validator
      /\ \/ verdict = "None" /\ new.transmit = c.transmit
         \/ /\ verdict \in {"InvalidSessionSequence", "RiskLimit", "GatewayBackpressure"}
            /\ new.transmit = Append(c.transmit, Rejection(c.who, request, verdict))
            /\ Rejection(c.who, request, verdict) \in Response
  BY <1>1, DecodedParts
<1>3. /\ TypeOK
      /\ requests' = IF verdict = "None"
                     THEN Append(requests, [request |-> request, who |-> c.who]) ELSE requests
      /\ UNCHANGED <<responses, emitting, opened, received>>
      /\ requests \in Seq(Request) /\ responses \in Seq(Response) /\ emitting \in Seq(Response)
  BY <1>1 DEF IndInv, SessionsBound, DecodeRequest, socketVars, TypeOK, Request
<1>4. /\ fd \in Fds /\ c.who \in Clients /\ c.transmit \in Seq(Response)
      /\ c.validator \in [session: Sessions \cup {None}, next: 1 .. MaxFrames + 1]
  BY <1>1, <1>2, <1>3, ConnectionParts
<1>5. received[c.who] \in Seq(Response)
  BY <1>3, <1>4 DEF TypeOK
<1>6. ConnectionHistory(c)
  BY <1>1, <1>2 DEF HistoryOK
<1>7. PICK next \in Nat : next = c.validator.next /\ next = bound.next
  <2>1. c.validator.next \in Nat
    BY <1>4, GatewayAssumption
  <2>2. c.validator.next = bound.next
    BY <1>2, <1>6 DEF ConnectionHistory
  <2> QED
    BY <2>1, <2>2
<1>8. History(c.who, received[c.who], c.transmit, responses, emitting, requests, next)
  BY <1>6, <1>7 DEF ConnectionHistory
<1>9. connections' [fd] = new /\ \A other \in Fds : other # fd => connections'[other] = connections[other]
  BY <1>1, <1>2, <1>3, <1>4 DEF TypeOK
<1>10. Live' \subseteq Live
  BY <1>2, <1>9 DEF Live
<1>11. new.validator.session # None
  BY <1>2, GatewayAssumption DEF BoundValidator
<1>12. /\ InSession(bound, request) => new.validator.next = next + 1 /\ request.sequence = next
       /\ ~InSession(bound, request) => new.validator.next = next
  <2>1. ASSUME InSession(bound, request) PROVE new.validator.next = next + 1
    <3>1. PICK w, x : bound = [session |-> w, next |-> x]
      BY <1>2 DEF BoundValidator
    <3> QED
      BY <1>2, <1>7, <2>1, <3>1 DEF Advanced
  <2> QED
    BY <1>2, <1>7, <2>1 DEF Advanced, InSession
<1>13. /\ verdict = "InvalidSessionSequence" <=> ~InSession(bound, request)
  BY <1>1 DEF Verdict, Reason
<1>14. PICK q \in Request : q = [request |-> request, who |-> c.who]
  BY <1>2, <1>4 DEF Request
<1>15. History(c.who, received[c.who], new.transmit, responses, emitting, requests', new.validator.next)
  <2>1. CASE verdict = "None"
    <3>1. requests' = Append(requests, q) /\ new.transmit = c.transmit /\ new.validator.next = next + 1
          /\ q.who = c.who /\ q.request.sequence = next
      BY <1>2, <1>3, <1>12, <1>13, <1>14, <2>1
    <3>2. History(c.who, received[c.who], c.transmit, responses, emitting, Append(requests, q), next + 1)
      BY <1>3, <1>4, <1>5, <1>8, <3>1, HistoryQueued
    <3> QED
      BY <3>1, <3>2
  <2>2. CASE verdict # "None"
    <3>1. PICK x \in Response : x = Rejection(c.who, request, verdict)
      BY <1>2, <2>2
    <3>2. x.who = c.who /\ x.sequence = request.sequence /\ x.reason = verdict
      BY <3>1 DEF Rejection
    <3>3. /\ requests' = requests /\ new.transmit = Append(c.transmit, x)
          /\ verdict \in {"InvalidSessionSequence", "RiskLimit", "GatewayBackpressure"}
      BY <1>2, <1>3, <2>2, <3>1
    <3>4. CASE verdict = "InvalidSessionSequence"
      <4>1. new.validator.next = next
        BY <1>12, <1>13, <3>4
      <4>2. History(c.who, received[c.who], Append(c.transmit, x), responses, emitting, requests, next)
        BY <1>3, <1>4, <1>5, <1>8, <3>2, <3>4, HistoryAside
      <4> QED
        BY <3>3, <4>1, <4>2
    <3>5. CASE verdict # "InvalidSessionSequence"
      <4>1. new.validator.next = next + 1 /\ request.sequence = next
        BY <1>12, <1>13, <3>5
      <4>2. x.sequence = next /\ x.reason \in {"RiskLimit", "GatewayBackpressure"}
        BY <3>2, <3>3, <3>5, <4>1
      <4>3. History(c.who, received[c.who], Append(c.transmit, x), responses, emitting, requests, next + 1)
        BY <1>3, <1>4, <1>5, <1>8, <3>2, <4>2, HistoryRefused
      <4> QED
        BY <3>3, <4>1, <4>3
    <3> QED
      BY <3>4, <3>5
  <2> QED
    BY <2>1, <2>2
<1>16. ConnectionHistory(new)'
  BY <1>2, <1>3, <1>11, <1>15 DEF ConnectionHistory
<1>17. ASSUME NEW other \in Live' PROVE ConnectionHistory(connections[other])'
  <2>1. CASE other = fd
    BY <1>9, <1>16, <2>1
  <2>2. CASE other # fd
    <3>1. PICK d : d = connections[other] /\ d = connections'[other] /\ other \in Live
      BY <1>9, <1>10, <2>2 DEF Live
    <3>2. /\ d.who \in Clients /\ d.transmit \in Seq(Response)
          /\ d.validator \in [session: Sessions \cup {None}, next: 1 .. MaxFrames + 1]
      BY <1>3, <3>1, ConnectionParts
    <3>3. received[d.who] \in Seq(Response) /\ d.validator.next \in Nat
      BY <1>3, <3>2, GatewayAssumption DEF TypeOK
    <3>4. d.who # c.who
      BY <1>1, <1>2, <2>2, <3>1 DEF IndInv, WhoOK
    <3>5. ConnectionHistory(d)
      BY <3>1 DEF HistoryOK
    <3>6. History(d.who, received[d.who], d.transmit, responses, emitting, requests', d.validator.next)
      <4>1. CASE verdict = "None"
        <5>1. requests' = Append(requests, q) /\ q.who # d.who
          BY <1>3, <1>14, <3>4, <4>1
        <5>2. History(d.who, received[d.who], d.transmit, responses, emitting, Append(requests, q), d.validator.next)
          BY <1>3, <3>2, <3>3, <3>5, <5>1, HistoryQueued DEF ConnectionHistory
        <5> QED
          BY <5>1, <5>2
      <4>2. CASE verdict # "None"
        BY <1>3, <3>5, <4>2 DEF ConnectionHistory
      <4> QED
        BY <4>1, <4>2
    <3> QED
      BY <1>3, <3>1, <3>5, <3>6 DEF ConnectionHistory
  <2> QED
    BY <2>1, <2>2
<1> QED
  BY <1>3, <1>17 DEF HistoryOK

LEMMA InitHistory == Init => HistoryOK
<1> SUFFICES ASSUME Init PROVE HistoryOK
  OBVIOUS
<1>1. Live = {} /\ \A who \in Clients : received[who] = <<>>
  BY DEF Init, Live
<1> QED
  BY <1>1 DEF HistoryOK

LEMMA NextHistory ==
  ASSUME IndInv, HistoryOK, [Next]_vars
  PROVE  HistoryOK'
<1>1. \A fd \in Live : fd \in Fds /\ connections[fd] # None
  BY DEF Live
<1>2. \A e \in batch \ {Listening} : e.fd \in Live
  BY DEF IndInv, BatchFresh
<1>3. pc = "decode" => current.fd \in Live
  BY DEF IndInv, CurrentOK
<1>4. ASSUME UNCHANGED <<connections, received, responses, emitting, requests, opened>> PROVE HistoryOK'
  BY <1>4, HistoryKept DEF Live
<1>5. CASE Run
  <2>1. CASE RouteResponse
    BY <2>1, HistoryRouteResponse
  <2>2. ASSUME NEW writable \in SUBSET Fds, NEW connecting \in BOOLEAN, EpollWait(writable, connecting)
        PROVE  HistoryOK'
    BY <1>4, <2>2 DEF EpollWait, engineVars, socketVars
  <2>3. ASSUME NEW fd \in Fds, AcceptConnection(fd) PROVE HistoryOK'
    BY <2>3, HistoryAccepted
  <2>4. CASE AcceptEnds
    BY <1>4, <2>4 DEF AcceptEnds, engineVars, socketVars
  <2>5. ASSUME NEW e \in batch \ {Listening}, HangUp(e) \/ FlushFails(e) PROVE HistoryOK'
    BY <1>2, <2>5, HistoryClosed DEF HangUp, FlushFails, engineVars
  <2>6. ASSUME NEW e \in batch \ {Listening}, Receive(e) PROVE HistoryOK'
    BY <1>4, <2>6 DEF Receive, engineVars
  <2>7. ASSUME NEW e \in batch \ {Listening}, Flush(e) PROVE HistoryOK'
    <3>1. PICK n \in 1 .. Len(connections[e.fd].transmit) : FlushOutput(e.fd, n)
      BY <2>7 DEF Flush
    <3>2. UNCHANGED <<requests, responses, emitting, opened>>
      BY <2>7 DEF Flush, engineVars
    <3> QED
      BY <1>2, <3>1, <3>2, HistoryFlushOutput
  <2>8. CASE DecodeMalformed \/ DecodeTakenSession \/ DecodeNoRoom \/ DecodeFlushFails
    <3>1. pc = "decode" /\ Abort
      BY <2>8 DEF DecodeMalformed, DecodeTakenSession, DecodeNoRoom, DecodeFlushFails
    <3> QED
      BY <1>3, <3>1, HistoryClosed DEF Abort, engineVars
  <2>9. CASE DecodeRequest
    BY <2>9, HistoryDecodeRequest
  <2>10. CASE DecodeEnds
    <3>1. current.fd \in Live /\ UNCHANGED <<requests, responses, emitting, opened>>
      BY <1>3, <2>10 DEF DecodeEnds, engineVars
    <3>2. CASE current.out
      <4>1. PICK n \in 1 .. Len(connections[current.fd].transmit) : FlushOutput(current.fd, n)
        BY <2>10, <3>2 DEF DecodeEnds
      <4> QED
        BY <3>1, <4>1, HistoryFlushOutput
    <3>3. CASE ~current.out
      BY <1>4, <2>10, <3>1, <3>3 DEF DecodeEnds
    <3> QED
      BY <3>2, <3>3
  <2> QED
    BY <1>5, <2>1, <2>2, <2>3, <2>4, <2>5, <2>6, <2>7, <2>8, <2>9, <2>10 DEF Run
<1>6. CASE Engine
  BY <1>6, HistoryEngineTake, HistoryEnginePush DEF Engine
<1>7. CASE \E fd \in Fds : (\E frame \in Frame \cup {Malformed} : ClientSend(fd, frame)) \/ ClientHangUp(fd)
  BY <1>4, <1>7 DEF ClientSend, ClientHangUp, gatewayVars, engineVars
<1>8. CASE UNCHANGED vars
  BY <1>4, <1>8 DEF vars, gatewayVars, engineVars, socketVars
<1> QED
  BY <1>5, <1>6, <1>7, <1>8 DEF Next

(* Every live connection has a history in order: what its client received, its
   transmit buffer, the engine's output and the requests waiting. *)
THEOREM Histories == Spec => []HistoryOK
BY Safety, InitHistory, NextHistory, PTL DEF Spec

LEMMA HistoryTyped ==
  ASSUME TypeOK, NEW fd \in Live
  PROVE  /\ received[connections[fd].who] \in Seq(Response) /\ connections[fd].transmit \in Seq(Response)
         /\ responses \in Seq(Response) /\ emitting \in Seq(Response) /\ requests \in Seq(Request)
BY ConnectionParts DEF TypeOK, Request

(* A client receives the engine's events in the order of its requests and, for
   one request, in the order the engine emitted them, rejections aside. *)
THEOREM AlwaysInOrder == Spec => []AnswersInOrder
<1>1. ASSUME IndInv, HistoryOK PROVE AnswersInOrder
  <2> SUFFICES ASSUME NEW fd \in Live
               PROVE  LET all == received[connections[fd].who] \o connections[fd].transmit \o responses \o emitting
                          Mine(i) == all[i].who = connections[fd].who /\ all[i].reason = "None" IN
                      \A i, j \in DOMAIN all :
                        i < j /\ Mine(i) /\ Mine(j) =>
                          \/ all[i].sequence < all[j].sequence
                          \/ all[i].sequence = all[j].sequence /\ all[i].k < all[j].k
    BY Zenon DEF AnswersInOrder
  <2>1. PICK who, R, T, P, E : /\ who = connections[fd].who /\ R = received[who]
                               /\ T = connections[fd].transmit /\ P = responses /\ E = emitting
    OBVIOUS
  <2>2. R \in Seq(Response) /\ T \in Seq(Response) /\ P \in Seq(Response) /\ E \in Seq(Response)
    BY <1>1, <2>1, HistoryTyped DEF IndInv, SessionsBound
  <2>3. Ordered(who, R, T, P, E)
    BY <1>1, <2>1 DEF HistoryOK, ConnectionHistory, History
  <2>4. PICK U, V, all : U = R \o T /\ V = U \o P /\ all = V \o E
    OBVIOUS
  <2>5. U \in Seq(Response) /\ Sorted(U, who) /\ Elements(U) = Elements(R) \cup Elements(T)
    BY <2>2, <2>3, <2>4, SortedConcat DEF Ordered
  <2>6. V \in Seq(Response) /\ Sorted(V, who) /\ Elements(V) = Elements(U) \cup Elements(P)
    <3>1. Before(Elements(U), Elements(P), who) /\ Sorted(P, who)
      BY <2>3, <2>5 DEF Ordered, Before
    <3> QED
      <4>1. U \in Seq(Response) /\ Sorted(U, who) /\ P \in Seq(Response)
        BY <2>2, <2>5
      <4>2. U \o P \in Seq(Response) /\ Sorted(U \o P, who) /\ Elements(U \o P) = Elements(U) \cup Elements(P)
        BY <3>1, <4>1, SortedConcat
      <4> QED
        BY <2>4, <4>2
  <2>7. Sorted(all, who)
    <3>1. Before(Elements(V), Elements(E), who) /\ Sorted(E, who)
      BY <2>3, <2>5, <2>6 DEF Ordered, Before
    <3> QED
      BY <2>2, <2>4, <2>6, <3>1, SortedConcat
  <2>8. \A i, j \in DOMAIN all :
          i < j /\ (all[i].who = who /\ all[i].reason = "None") /\ (all[j].who = who /\ all[j].reason = "None") =>
            \/ all[i].sequence < all[j].sequence
            \/ all[i].sequence = all[j].sequence /\ all[i].k < all[j].k
    BY <2>7, Zenon DEF Sorted, Of, Precedes
  <2>9. all = received[connections[fd].who] \o connections[fd].transmit \o responses \o emitting
    BY <2>1, <2>4
  <2> QED
    BY <2>1, <2>8, <2>9, ZenonT(60)
<1> QED
  BY <1>1, Safety, Histories, PTL

LEMMA EmissionSize ==
  ASSUME NEW session, NEW who, NEW n, NEW count \in Nat
  PROVE  Cardinality(Emission(session, who, n, count)) = count
<1> DEFINE Event(k) == [session |-> session, sequence |-> n, who |-> who, k |-> k, of |-> count, reason |-> "None"]
           f == [k \in 1 .. count |-> Event(k)]
<1>1. \A k \in 1 .. count : Event(k).k = k
  OBVIOUS
<1>2. Emission(session, who, n, count) = {Event(k) : k \in 1 .. count}
  BY DEF Emission
<1> HIDE DEF Event
<1>3. f \in Bijection(1 .. count, {Event(k) : k \in 1 .. count})
  BY <1>1 DEF Bijection, Injection, Surjection, IsInjective
<1>4. IsFiniteSet(1 .. count) /\ Cardinality(1 .. count) = count
  BY FS_Interval
<1>5. ExistsBijection(1 .. count, {Event(k) : k \in 1 .. count})
  BY <1>3, Zenon DEF ExistsBijection
<1> HIDE DEF f
<1> QED
  BY <1>2, <1>4, <1>5, FS_Bijection, Zenon

LEMMA AtMostOne ==
  ASSUME NEW S, \A x, y \in S : x = y
  PROVE  Cardinality(S) <= 1
<1>1. CASE S = {}
  BY <1>1, FS_EmptySet
<1>2. CASE S # {}
  <2>1. PICK x : x \in S
    BY <1>2
  <2>2. S = {x}
    BY <2>1
  <2>3. Cardinality({x}) = 1
    BY FS_Singleton
  <2> QED
    BY <2>2, <2>3
<1> QED
  BY <1>1, <1>2

(* While a connection lives, every client sequence it has consumed is waiting,
   or refused, or answered by all of its events, and exactly one of these. *)
THEOREM AlwaysAnsweredOnce == Spec => []AnsweredOnce
<1>1. ASSUME IndInv, HistoryOK PROVE AnsweredOnce
  <2>1. ASSUME NEW fd \in Live, NEW n \in 1 .. MaxFrames
        PROVE  LET c == connections[fd]
                   Answers == {r \in InFlight(fd) \cup Elements(received[c.who]) : r.who = c.who /\ r.sequence = n}
                   Waiting == {i \in DOMAIN requests : requests[i].who = c.who /\ requests[i].request.sequence = n}
                   Refused == {r \in Answers : r.reason \in {"RiskLimit", "GatewayBackpressure"}}
                   Emitted == {r \in Answers : r.reason = "None"}
                   Some(set) == IF set = {} THEN 0 ELSE 1 IN
               /\ Some(Waiting) + Some(Refused) + Some(Emitted) = IF n < c.validator.next THEN 1 ELSE 0
               /\ Cardinality(Waiting) <= 1 /\ Cardinality(Refused) <= 1
               /\ \A r \in Emitted : Cardinality(Emitted) = r.of
    <3> DEFINE c == connections[fd]
               X == InFlight(fd) \cup Elements(received[c.who])
               who == c.who
               next == c.validator.next
               Answers == {r \in X : r.who = c.who /\ r.sequence = n}
               Waiting == {i \in DOMAIN requests : requests[i].who = c.who /\ requests[i].request.sequence = n}
               Refused == {r \in Answers : r.reason \in {"RiskLimit", "GatewayBackpressure"}}
               Emitted == {r \in Answers : r.reason = "None"}
               Some(set) == IF set = {} THEN 0 ELSE 1
    <3>1. X = All(received[who], c.transmit, responses, emitting)
      BY <2>1 DEF All, InFlight
    <3>2. Waiting = Waits(who, requests, n)
      BY DEF Waits
    <3>3. Refused = Refusals(who, X, n)
      BY DEF Refusals
    <3>4. Emitted = Events(who, X, n)
      BY DEF Events, Of
    <3>5. Pending(who, X, requests, next) /\ OnceAt(who, X, requests, next, n)
      BY <1>1, <2>1, <3>1 DEF HistoryOK, ConnectionHistory, History, Once
    <3>6. next \in Nat /\ requests \in Seq(Request)
      <4>1. /\ c.validator \in [session: Sessions \cup {None}, next: 1 .. MaxFrames + 1]
            /\ requests \in Seq(Request)
        BY <1>1, <2>1, ConnectionParts, HistoryTyped DEF IndInv, SessionsBound
      <4>2. \A m \in 1 .. MaxFrames + 1 : m \in Nat
        BY GatewayAssumption
      <4> QED
        BY <4>1, <4>2
    <3> HIDE DEF Answers, Waiting, Refused, Emitted
    <3>7. Some(Waiting) + Some(Refused) + Some(Emitted) = IF n < next THEN 1 ELSE 0
      <4>1. \/ n >= next /\ Waiting = {} /\ Refused = {} /\ Emitted = {}
            \/ n < next /\ Waiting # {} /\ Refused = {} /\ Emitted = {}
            \/ n < next /\ Waiting = {} /\ Refused # {} /\ Emitted = {}
            \/ n < next /\ Waiting = {} /\ Refused = {} /\ Emitted # {}
        <5>1. \A session, count : count \in 1 .. MaxEvents => Emission(session, who, n, count) # {}
          <6> SUFFICES ASSUME NEW session, NEW count \in 1 .. MaxEvents PROVE Emission(session, who, n, count) # {}
            OBVIOUS
          <6>1. 1 \in 1 .. count
            BY GatewayAssumption
          <6> QED
            BY <6>1 DEF Emission
        <5> QED
          BY <3>2, <3>3, <3>4, <3>5, <5>1 DEF OnceAt
      <4> QED
        BY <3>6, <4>1
    <3>8. Cardinality(Waiting) <= 1
      <4>1. \A i, j \in Waiting : i = j
        <5> SUFFICES ASSUME NEW i \in Waiting, NEW j \in Waiting, i # j PROVE FALSE
          OBVIOUS
        <5>1. /\ i \in DOMAIN requests /\ requests[i].who = who /\ requests[i].request.sequence = n
              /\ j \in DOMAIN requests /\ requests[j].who = who /\ requests[j].request.sequence = n
          BY <3>2 DEF Waits
        <5>2. i < j \/ j < i
          BY <3>6, <5>1
        <5> QED
          BY <3>5, <5>1, <5>2 DEF Pending
      <4> QED
        BY <4>1, AtMostOne
    <3>9. Cardinality(Refused) <= 1
      <4>1. \A x, y \in Refused : x = y
        BY <3>3, <3>5 DEF OnceAt
      <4> QED
        BY <4>1, AtMostOne
    <3>10. \A r \in Emitted : Cardinality(Emitted) = r.of
      <4>1. CASE Emitted = {}
        BY <4>1
      <4>2. CASE Emitted # {}
        <5>1. PICK session \in Sessions, count \in 1 .. MaxEvents : Emitted = Emission(session, who, n, count)
          BY <3>4, <3>5, <4>2 DEF OnceAt
        <5>2. Cardinality(Emitted) = count
          BY <5>1, EmissionSize, GatewayAssumption
        <5>3. \A r \in Emitted : r.of = count
          BY <5>1 DEF Emission
        <5> QED
          BY <5>2, <5>3
      <4> QED
        BY <4>1, <4>2
    <3> QED
      BY <3>7, <3>8, <3>9, <3>10 DEF Answers, Waiting, Refused, Emitted
  <2> QED
    BY <2>1, Zenon DEF AnsweredOnce
<1> QED
  BY <1>1, Safety, Histories, PTL
==============================================================================
