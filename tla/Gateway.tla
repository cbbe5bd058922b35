------------------------------- MODULE Gateway -------------------------------
(***************************************************************************)
(* TcpGateway: one thread that owns the connections, reads requests, hands *)
(* them to the engine's thread over one queue and routes the responses it  *)
(* takes from another by session.  The engine's thread is reduced to what  *)
(* the gateway sees of it (EngineRunner has the rest).                     *)
(*                                                                         *)
(* A file descriptor is used again once closed: `who` numbers connections  *)
(* in the order they are accepted, which the code cannot see, and requests *)
(* and responses remember it.  Frames are whole: bytes of an incomplete    *)
(* frame are as good as not yet received.                                  *)
(***************************************************************************)
EXTENDS SessionValidator, Sequences, FiniteSets

CONSTANTS
  Fds, Sessions,
  Commands,          \* the commands clients send
  RequestCapacity, ResponseCapacity,  \* of the two queues
  TransmitCapacity,  \* responses that fit a connection's transmit buffer
  MaxConnections,    \* bound on connections ever accepted
  MaxFrames,         \* bound on the frames of one connection
  MaxEvents,         \* bound on the events of one command
  Malformed,         \* a frame that does not decode
  None

ASSUME GatewayAssumption ==
  /\ RequestCapacity \in Nat \ {0} /\ ResponseCapacity \in Nat \ {0}
  /\ TransmitCapacity \in Nat \ {0} /\ MaxEvents \in Nat \ {0}
  /\ MaxConnections \in Nat /\ MaxFrames \in Nat
  /\ None \notin Fds \cup Sessions
  /\ \A c \in Commands : c.price \in Int /\ c.quantity \in Nat

Clients == 1 .. MaxConnections

Frame == [session: Sessions, sequence: 1 .. MaxFrames, command: Commands]

VARIABLES
  pc,           \* where run() is: "drain", "dispatch" or "decode"
  batch,        \* the epoll events still to be handled
  current,      \* the event whose connection read_requests is reading
  frames,       \* what it has received and not decoded
  connections,  \* connections_, by descriptor
  sessionToFd,  \* session_to_fd_
  requests, responses,  \* the queues
  emitting,     \* the events the engine has still to push
  inbound,      \* by descriptor, the frames in the socket
  hungUp,       \* by descriptor, whether the peer has shut its side down
  opened,       \* how many connections were ever accepted
  sent,         \* by connection, how many frames its client has sent
  received      \* by connection, the responses its client has received

gatewayVars == <<pc, batch, current, frames, connections, sessionToFd>>
engineVars == <<requests, responses, emitting>>
socketVars == <<inbound, hungUp, opened, sent, received>>
vars == <<gatewayVars, engineVars, socketVars>>

(* An engine event is the k-th of the `of` events of its command; a rejection by
   the gateway has a reason instead. *)
Response == [session: Sessions, sequence: 1 .. MaxFrames, who: Clients,
             k: 0 .. MaxEvents, of: 0 .. MaxEvents,
             reason: {"None", "InvalidSessionSequence", "RiskLimit", "GatewayBackpressure"}]

(* struct Connection; no session means no validator yet. *)
Connection == [who: Clients, validator: [session: Sessions \cup {None}, next: 1 .. MaxFrames + 1],
               transmit: Seq(Response), wantsOut: BOOLEAN]

ASSUME NoneAssumption == None \notin Connection

FreshConnection(who) ==
  [who |-> who, validator |-> [session |-> None, next |-> 1], transmit |-> <<>>, wantsOut |-> FALSE]

Init ==
  /\ pc = "drain" /\ batch = {} /\ current = None /\ frames = <<>>
  /\ connections = [fd \in Fds |-> None]
  /\ sessionToFd = [s \in Sessions |-> None]
  /\ requests = <<>> /\ responses = <<>> /\ emitting = <<>>
  /\ inbound = [fd \in Fds |-> <<>>]
  /\ hungUp = [fd \in Fds |-> FALSE]
  /\ opened = 0
  /\ sent = [who \in Clients |-> 0]
  /\ received = [who \in Clients |-> <<>>]

-----------------------------------------------------------------------------
(* Mutant: the session stays bound. *)
FaultyCloseConnection(fd) ==
  /\ connections' = [connections EXCEPT ![fd] = None]
  /\ inbound' = [inbound EXCEPT ![fd] = <<>>]
  /\ hungUp' = [hungUp EXCEPT ![fd] = FALSE]
  /\ UNCHANGED sessionToFd

(* close_connection; with the descriptor go the bytes in its socket. *)
CloseConnection(fd) ==
  /\ sessionToFd' = [s \in Sessions |->
                       IF s = connections[fd].validator.session THEN None ELSE sessionToFd[s]]
  /\ connections' = [connections EXCEPT ![fd] = None]
  /\ inbound' = [inbound EXCEPT ![fd] = <<>>]
  /\ hungUp' = [hungUp EXCEPT ![fd] = FALSE]

(* update_interest: EPOLLOUT is asked for while there is something to send. *)
UpdateInterest(connection) == [connection EXCEPT !.wantsOut = connection.transmit # <<>>]

(* Mutant: the interest in EPOLLOUT is not renewed. *)
FaultyQueued(connection, response) ==
  [connection EXCEPT !.transmit = Append(@, response)]

(* queue_response, which fails when the buffer is full even once compacted. *)
Queued(connection, response) ==
  UpdateInterest([connection EXCEPT !.transmit = Append(@, response)])

HasRoom(connection) == Len(connection.transmit) < TransmitCapacity

Rejection(who, request, reason) ==
  [session |-> request.session, sequence |-> request.sequence, who |-> who,
   k |-> 0, of |-> 0, reason |-> reason]

-----------------------------------------------------------------------------
(* drain_engine_responses, one response at a time: it goes to the connection
   its session is bound to by now, if any. *)
RouteResponse ==
  LET response == Head(responses)
      fd == sessionToFd[response.session]
      lost == IF fd = None THEN TRUE ELSE connections[fd] = None IN
  /\ pc = "drain"
  /\ responses # <<>>
  /\ responses' = Tail(responses)
  /\ \/ /\ lost
        /\ UNCHANGED <<connections, sessionToFd, inbound, hungUp>>
     \/ /\ ~lost /\ HasRoom(connections[fd])
        /\ connections' = [connections EXCEPT ![fd] = Queued(@, response)]
        /\ UNCHANGED <<sessionToFd, inbound, hungUp>>
     \/ /\ ~lost /\ ~HasRoom(connections[fd])
        /\ CloseConnection(fd)
  /\ UNCHANGED <<pc, batch, current, frames, requests, emitting, opened, sent, received>>

(* The queue is drained and epoll_wait tells what every socket is ready for, one
   event per descriptor.  The sockets in `writable` can take bytes; a client may
   be connecting. *)
Listening == [fd |-> None]

EpollWait(writable, connecting) ==
  LET Ready(fd) == [fd |-> fd, who |-> connections[fd].who, hup |-> hungUp[fd],
                    in |-> inbound[fd] # <<>>, out |-> connections[fd].wantsOut /\ fd \in writable]
      live == {Ready(fd) : fd \in {f \in Fds : connections[f] # None}} IN
  /\ pc = "drain"
  /\ responses = <<>>
  /\ connecting => opened < MaxConnections
  /\ batch' = {e \in live : e.hup \/ e.in \/ e.out} \cup (IF connecting THEN {Listening} ELSE {})
  /\ pc' = IF batch' = {} THEN "drain" ELSE "dispatch"
  /\ UNCHANGED <<current, frames, connections, sessionToFd, engineVars, socketVars>>

-----------------------------------------------------------------------------
(* An event has been handled; what is left of the batch is `rest`. *)
GoOn(rest) ==
  /\ batch' = rest
  /\ pc' = IF rest = {} THEN "drain" ELSE "dispatch"
  /\ current' = None

(* accept_connections: one client, then perhaps another. *)
AcceptConnection(fd) ==
  /\ pc = "dispatch"
  /\ Listening \in batch
  /\ connections[fd] = None
  /\ opened < MaxConnections
  /\ opened' = opened + 1
  /\ connections' = [connections EXCEPT ![fd] = FreshConnection(opened + 1)]
  /\ UNCHANGED <<pc, batch, current, frames, sessionToFd, engineVars, inbound, hungUp, sent, received>>

AcceptEnds ==
  /\ pc = "dispatch"
  /\ Listening \in batch
  /\ GoOn(batch \ {Listening})
  /\ UNCHANGED <<frames, connections, sessionToFd, engineVars, socketVars>>

(* The peer hung up, before epoll_wait or before recv: what it had sent is not
   decoded, whatever has arrived. *)
HangUp(e) ==
  /\ pc = "dispatch"
  /\ e.hup \/ (e.in /\ hungUp[e.fd])
  /\ CloseConnection(e.fd)
  /\ GoOn(batch \ {e})
  /\ UNCHANGED <<frames, engineVars, opened, sent, received>>

(* read_requests: recv until the socket is empty. *)
Receive(e) ==
  /\ pc = "dispatch"
  /\ ~e.hup /\ e.in /\ ~hungUp[e.fd]
  /\ frames' = inbound[e.fd]
  /\ inbound' = [inbound EXCEPT ![e.fd] = <<>>]
  /\ batch' = batch \ {e}
  /\ current' = e
  /\ pc' = "decode"
  /\ UNCHANGED <<connections, sessionToFd, engineVars, hungUp, opened, sent, received>>

(* read_requests returns false: run() closes the connection. *)
Abort ==
  /\ CloseConnection(current.fd)
  /\ frames' = <<>>
  /\ GoOn(batch)
  /\ UNCHANGED <<engineVars, opened, sent, received>>

DecodeMalformed ==
  /\ pc = "decode"
  /\ frames # <<>>
  /\ Head(frames) = Malformed
  /\ Abort

(* Mutant: a session may be bound twice. *)
FaultyCanBind(fd, session) == TRUE

(* May a connection use this session?  The first request binds it. *)
CanBind(fd, session) ==
  connections[fd].validator.session = None => sessionToFd[session] = None

(* Mutant: the newcomer takes the session over and the other one is closed. *)
FaultyDecodeTakenSession ==
  /\ pc = "decode"
  /\ frames # <<>>
  /\ Head(frames) # Malformed
  /\ ~CanBind(current.fd, Head(frames).session)
  /\ CloseConnection(sessionToFd[Head(frames).session])
  /\ UNCHANGED <<pc, batch, current, frames, engineVars, opened, sent, received>>

DecodeTakenSession ==
  /\ pc = "decode"
  /\ frames # <<>>
  /\ Head(frames) # Malformed
  /\ ~CanBind(current.fd, Head(frames).session)
  /\ Abort

(* What validation makes of the next request, once the session is bound. *)
Bound ==
  LET v == connections[current.fd].validator IN
  IF v.session = None THEN [session |-> Head(frames).session, next |-> 1] ELSE v

Verdict ==
  LET reason == Reason(Bound, Head(frames)) IN
  IF reason = "None" /\ Len(requests) = RequestCapacity THEN "GatewayBackpressure" ELSE reason

Validated == [connections[current.fd] EXCEPT !.validator = Advanced(Bound, Head(frames))]

(* Mutant: a request that finds the queue full is forgotten. *)
FaultyAnswered(connection) ==
  IF Verdict \in {"None", "GatewayBackpressure"} THEN connection
  ELSE Queued(connection, Rejection(connection.who, Head(frames), Verdict))

(* The connection after the request was queued, or its rejection. *)
Answered(connection) ==
  IF Verdict = "None" THEN connection
  ELSE Queued(connection, Rejection(connection.who, Head(frames), Verdict))

(* A request: bind the session, validate, then queue it for the engine or reject
   it. *)
DecodeRequest ==
  LET request == Head(frames)
      fd == current.fd IN
  /\ pc = "decode"
  /\ frames # <<>>
  /\ request # Malformed
  /\ CanBind(fd, request.session)
  /\ Verdict = "None" \/ HasRoom(connections[fd])
  /\ requests' = IF Verdict = "None"
                 THEN Append(requests, [request |-> request, who |-> connections[fd].who])
                 ELSE requests
  /\ connections' = [connections EXCEPT ![fd] = Answered(Validated)]
  /\ sessionToFd' = IF sessionToFd[Bound.session] = None
                    THEN [sessionToFd EXCEPT ![Bound.session] = fd] ELSE sessionToFd
  /\ frames' = Tail(frames)
  /\ UNCHANGED <<pc, batch, current, responses, emitting, socketVars>>

(* There is no room for the rejection. *)
DecodeNoRoom ==
  /\ pc = "decode"
  /\ frames # <<>>
  /\ Head(frames) # Malformed
  /\ CanBind(current.fd, Head(frames).session)
  /\ Verdict # "None" /\ ~HasRoom(connections[current.fd])
  /\ Abort

-----------------------------------------------------------------------------
(* flush_output: the socket takes the first n responses. *)
Flushed(connection, n) ==
  UpdateInterest([connection EXCEPT !.transmit = SubSeq(@, n + 1, Len(@))])

FlushOutput(fd, n) ==
  LET connection == connections[fd] IN
  /\ connections' = [connections EXCEPT ![fd] = Flushed(@, n)]
  /\ received' = [received EXCEPT ![connection.who] = @ \o SubSeq(connection.transmit, 1, n)]

(* Everything received is decoded; an event may also be for output. *)
DecodeEnds ==
  /\ pc = "decode"
  /\ frames = <<>>
  /\ IF current.out THEN \E n \in 1 .. Len(connections[current.fd].transmit) : FlushOutput(current.fd, n)
     ELSE UNCHANGED <<connections, received>>
  /\ GoOn(batch)
  /\ UNCHANGED <<frames, sessionToFd, engineVars, inbound, hungUp, opened, sent>>

Flush(e) ==
  /\ pc = "dispatch"
  /\ ~e.hup /\ ~e.in /\ e.out
  /\ \E n \in 1 .. Len(connections[e.fd].transmit) : FlushOutput(e.fd, n)
  /\ GoOn(batch \ {e})
  /\ UNCHANGED <<frames, sessionToFd, engineVars, inbound, hungUp, opened, sent>>

(* send fails: the peer has hung up since epoll_wait. *)
FlushFails(e) ==
  /\ pc = "dispatch"
  /\ ~e.hup /\ ~e.in /\ e.out /\ hungUp[e.fd]
  /\ CloseConnection(e.fd)
  /\ GoOn(batch \ {e})
  /\ UNCHANGED <<frames, engineVars, opened, sent, received>>

(* The same, after this event's frames were decoded. *)
DecodeFlushFails ==
  /\ pc = "decode"
  /\ frames = <<>>
  /\ current.out /\ hungUp[current.fd]
  /\ Abort

Run ==
  \/ RouteResponse
  \/ \E writable \in SUBSET Fds, connecting \in BOOLEAN : EpollWait(writable, connecting)
  \/ (\E fd \in Fds : AcceptConnection(fd)) \/ AcceptEnds
  \/ \E e \in batch \ {Listening} : HangUp(e) \/ Receive(e) \/ Flush(e) \/ FlushFails(e)
  \/ DecodeMalformed \/ DecodeTakenSession \/ DecodeRequest \/ DecodeNoRoom \/ DecodeEnds
  \/ DecodeFlushFails

-----------------------------------------------------------------------------
(* GatewayEngineRunner takes a request and pushes its events, each with the
   session and client sequence of the request, waiting for room. *)
EngineTake(count) ==
  LET taken == Head(requests) IN
  /\ emitting = <<>>
  /\ requests # <<>>
  /\ requests' = Tail(requests)
  /\ emitting' = [k \in 1 .. count |->
                    [session |-> taken.request.session, sequence |-> taken.request.sequence,
                     who |-> taken.who, k |-> k, of |-> count, reason |-> "None"]]
  /\ UNCHANGED <<gatewayVars, responses, socketVars>>

EnginePush ==
  /\ emitting # <<>>
  /\ Len(responses) < ResponseCapacity
  /\ responses' = Append(responses, Head(emitting))
  /\ emitting' = Tail(emitting)
  /\ UNCHANGED <<gatewayVars, requests, socketVars>>

Engine == (\E count \in 1 .. MaxEvents : EngineTake(count)) \/ EnginePush

(* Clients send frames, well-formed or not, in any order of sequence, and hang
   up whenever they like. *)
ClientSend(fd, frame) ==
  /\ connections[fd] # None
  /\ ~hungUp[fd]
  /\ sent[connections[fd].who] < MaxFrames
  /\ sent' = [sent EXCEPT ![connections[fd].who] = @ + 1]
  /\ inbound' = [inbound EXCEPT ![fd] = Append(@, frame)]
  /\ UNCHANGED <<gatewayVars, engineVars, hungUp, opened, received>>

ClientHangUp(fd) ==
  /\ connections[fd] # None
  /\ ~hungUp[fd]
  /\ hungUp' = [hungUp EXCEPT ![fd] = TRUE]
  /\ UNCHANGED <<gatewayVars, engineVars, inbound, opened, sent, received>>

Next ==
  \/ Run
  \/ Engine
  \/ \E fd \in Fds : (\E frame \in Frame \cup {Malformed} : ClientSend(fd, frame)) \/ ClientHangUp(fd)

(* Both threads run. *)
Spec == Init /\ [][Next]_vars /\ WF_vars(Run) /\ WF_vars(Engine)

-----------------------------------------------------------------------------
Live == {fd \in Fds : connections[fd] # None}
Elements(s) == {s[i] : i \in DOMAIN s}

TypeOK ==
  /\ pc \in {"drain", "dispatch", "decode"}
  /\ frames \in Seq(Frame \cup {Malformed})
  /\ connections \in [Fds -> Connection \cup {None}]
  /\ \A fd \in Live : Len(connections[fd].transmit) <= TransmitCapacity
  /\ sessionToFd \in [Sessions -> Fds \cup {None}]
  /\ requests \in Seq([request: Frame, who: Clients])
  /\ responses \in Seq(Response) /\ emitting \in Seq(Response)
  /\ inbound \in [Fds -> Seq(Frame \cup {Malformed})]
  /\ hungUp \in [Fds -> BOOLEAN]
  /\ opened \in 0 .. MaxConnections
  /\ sent \in [Clients -> 0 .. MaxFrames]
  /\ received \in [Clients -> Seq(Response)]

(* The session map and the connections agree, through every way a connection is
   closed: a session is bound to the one live connection that bound it.  An entry
   left behind would lock its client out, or hand it another one's descriptor.
   Every variable keeps its type, and a transmit buffer its capacity. *)
SessionsBound ==
  /\ TypeOK
  /\ \A s \in Sessions, fd \in Fds :
       sessionToFd[s] = fd <=> fd \in Live /\ connections[fd].validator.session = s

(* An epoll event is handled for the connection it was raised for: although
   descriptors are closed and reused while a batch is handled, none of its
   remaining events is about a connection that is gone. *)
BatchFresh ==
  \A e \in batch \ {Listening} : e.fd \in Live /\ connections[e.fd].who = e.who

(* Where an event of a connection can be before its client has it. *)
InFlight(fd) ==
  Elements(emitting) \cup Elements(responses) \cup Elements(connections[fd].transmit)

(* While a connection lives, a request that consumes a client sequence is
   answered once and completely: it waits for the engine, or was rejected by the
   gateway, or all its events are on their way or received, and never two of
   these.  A sequence not yet consumed has no such answer.  Answers are compared
   as sets, so a rejection queued twice in the same words is not told apart. *)
AnsweredOnce ==
  \A fd \in Live :
    LET c == connections[fd]
        Answers(n) == {r \in InFlight(fd) \cup Elements(received[c.who]) : r.who = c.who /\ r.sequence = n}
        Waiting(n) == {i \in DOMAIN requests : requests[i].who = c.who /\ requests[i].request.sequence = n}
        Refused(n) == {r \in Answers(n) : r.reason \in {"RiskLimit", "GatewayBackpressure"}}
        Emitted(n) == {r \in Answers(n) : r.reason = "None"}
        Some(set) == IF set = {} THEN 0 ELSE 1
        Complete(events) == \A r \in events : Cardinality(events) = r.of IN
    \A n \in 1 .. MaxFrames :
      /\ Some(Waiting(n)) + Some(Refused(n)) + Some(Emitted(n)) = IF n < c.validator.next THEN 1 ELSE 0
      /\ Cardinality(Waiting(n)) <= 1 /\ Cardinality(Refused(n)) <= 1
      /\ Complete(Emitted(n))

(* The engine's events reach a client in the order of its client sequences and,
   for one request, in the order they were emitted, although rejections by the
   gateway overtake them. *)
AnswersInOrder ==
  \A fd \in Live :
    LET all == received[connections[fd].who] \o connections[fd].transmit \o responses \o emitting
        Mine(i) == all[i].who = connections[fd].who /\ all[i].reason = "None" IN
    \A i, j \in DOMAIN all :
      i < j /\ Mine(i) /\ Mine(j) =>
        \/ all[i].sequence < all[j].sequence
        \/ all[i].sequence = all[j].sequence /\ all[i].k < all[j].k

(* What the engine is handed respects the risk limits as plain arithmetic,
   although the product of price and quantity may not fit a word. *)
AdmittedWithinRisk ==
  \A q \in Elements(requests) :
    LET c == q.request.command IN
    c.type # "Cancel" =>
      /\ c.quantity \in 1 .. MaximumQuantity
      /\ ~Unpriced(c) => c.price \in 1 .. MaximumPrice /\ c.price * c.quantity <= MaximumNotional

(* No client is sent the events of another one that is still connected. *)
NeverToAnotherLiveClient ==
  \A fd, other \in Live :
    \A r \in Elements(connections[fd].transmit) :
      r.who = connections[other].who => fd = other

(* With clients that keep reading, everything owed to a connection gets there,
   or the connection is closed: no queue of the pipeline waits for ever, and no
   output for an EPOLLOUT nobody asked for. *)
Owed(who) ==
  \E fd \in Live :
    /\ connections[fd].who = who
    /\ \/ \E r \in InFlight(fd) : r.who = who
       \/ \E q \in Elements(requests) : q.who = who

ClientsRead ==
  \A fd \in Fds : SF_vars(/\ fd \in Live /\ connections[fd].wantsOut
                          /\ \E connecting \in BOOLEAN : EpollWait(Fds, connecting))

AnswersDelivered == ClientsRead => \A who \in Clients : Owed(who) ~> ~Owed(who)

(* "Every event repeats the originating session ID and client sequence for
   correlation": an event a client receives answers a request of its own. *)
Correlated ==
  \A who \in Clients : \A r \in Elements(received[who]) : r.who = who
==============================================================================
