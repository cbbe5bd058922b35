------------------------------- MODULE Framing -------------------------------
(***************************************************************************)
(* One connection of the TCP gateway as bytes: frames leave the client,    *)
(* arrive in pieces of any length, are decoded from the receive buffer by  *)
(* read_requests, and the responses go back through the transmit buffer,   *)
(* which the socket empties in pieces again.  Sessions, validation and the *)
(* other connections are Gateway's; here a decoded request is rejected or  *)
(* given to the engine, whichever, and the engine answers it with an       *)
(* event.                                                                  *)
(***************************************************************************)
EXTENDS Protocol, SequencesExt

CONSTANTS
  ReceiveCapacity,   \* receive_capacity, 64 KiB
  TransmitCapacity,  \* transmit_capacity, 256 KiB
  SessionId, Commands,  \* what the client sends
  Damages,      \* [type, at, bytes]: how a frame of that type may be malformed
  Paddings,     \* likewise, in reserved bytes that decoding ignores
  Undamaged,    \* no damage and no padding
  Pieces,       \* lengths in which TCP delivers bytes
  MaxFrames     \* bound on the frames sent

ASSUME FramingAssumption ==
  /\ ReceiveCapacity \in Nat /\ ReceiveCapacity >= MaximumFrameSize
  /\ TransmitCapacity \in Nat /\ TransmitCapacity >= ResponseFrameSize
  /\ Pieces \subseteq Nat \ {0} /\ MaxFrames \in 0 .. U64 - 1
  /\ SessionId \in 0 .. U32 - 1
  /\ Commands \subseteq
       [type : {"New", "Cancel", "Replace"}, sequence : 0 .. U64 - 1, side : {"Buy", "Sell"},
        order_type : {"Limit", "Market", "ImmediateOrCancel", "FillOrKill"},
        order_id : 0 .. U64 - 1, price : -(U64 \div 2) .. U64 \div 2 - 1, quantity : 0 .. U64 - 1]

VARIABLES
  pc,          \* "wait" in the event loop, or "decode" in read_requests
  open,        \* the gateway has not closed the connection
  upstream,    \* bytes on their way to the gateway
  receive,     \* receive[0 .. received)
  consumed,    \* of which the decoded frames
  transmit,    \* transmit[0 .. transmit_end)
  begin,       \* transmit_begin: of which the bytes sent
  downstream,  \* bytes sent and not yet decoded by the client
  engine,      \* requests in the hands of the engine
  offered,     \* every frame the client has sent
  decoded,     \* every request the gateway has decoded
  answers,     \* every response put into the transmit buffer
  seen         \* every response the client has decoded

receiveVars == <<upstream, receive, consumed>>
transmitVars == <<transmit, begin, downstream>>
history == <<offered, decoded, answers, seen>>
vars == <<pc, open, receiveVars, transmitVars, engine, history>>

Init ==
  /\ pc = "wait" /\ open = TRUE
  /\ upstream = <<>> /\ receive = <<>> /\ consumed = 0
  /\ transmit = <<>> /\ begin = 0 /\ downstream = <<>>
  /\ engine = <<>>
  /\ offered = <<>> /\ decoded = <<>> /\ answers = <<>> /\ seen = <<>>

(* The bytes of a frame: the damage overwrites a run of them. *)
Bytes(frame) ==
  LET clean == EncodeRequest(frame.request)
      damage == frame.damage IN
  IF damage = Undamaged THEN clean
  ELSE [i \in DOMAIN clean |->
          IF i - damage.at \in DOMAIN damage.bytes THEN damage.bytes[i - damage.at] ELSE clean[i]]

(* The client's request with a command, as its n-th. *)
Request(command, n) ==
  [session_id |-> SessionId, client_sequence |-> n, command |-> command]

(* The bytes of a frame that decoding ignores. *)
Reserved(type) == 13 .. 16 \cup IF type = "New" THEN 27 .. 28 ELSE {}

(* Decoding the frame fails, and would fail with more bytes behind it. *)
Malformed(bytes) ==
  /\ RequestStatus(bytes) # "Ok"
  /\ RequestStatus(bytes) = "NeedMoreData" /\ bytes[6] \in DOMAIN MessageType
       => FrameLength(bytes) # RequestFrameSize(Name(MessageType, bytes[6] - 1))

ASSUME DamageAssumption ==
  /\ Undamaged \notin Damages
  /\ \A damage \in Damages \cup Paddings :
       /\ damage.at \in Nat /\ damage.bytes \in Seq(0 .. ByteBase - 1)
       /\ damage \in Paddings =>
            \A i \in DOMAIN damage.bytes : damage.at + i \in Reserved(damage.type)
       /\ damage \in Damages =>
            \A command \in Commands, n \in 1 .. MaxFrames :
              damage.type = command.type /\ Encodable(Request(command, n)) =>
                Malformed(Bytes([request |-> Request(command, n), damage |-> damage]))

(* The first n bytes may be a piece of these, which is also what is left of the last. *)
Piece(n, bytes) == n \in Pieces \/ n = Len(bytes)

-----------------------------------------------------------------------------
(* A client encodes a request and sends it. *)
Send(command, damage) ==
  LET request == Request(command, Len(offered) + 1)
      frame == [request |-> request, damage |-> damage] IN
  /\ open
  /\ Len(offered) < MaxFrames
  /\ Encodable(request)
  /\ damage # Undamaged => damage.type = command.type
  /\ offered' = Append(offered, frame)
  /\ upstream' = upstream \o Bytes(frame)
  /\ UNCHANGED <<pc, open, receive, consumed, transmitVars, engine, decoded, answers, seen>>

(* read_requests: recv what has arrived, as far as the buffer goes. *)
Receive(n) ==
  /\ open /\ pc = "wait"
  /\ n \in 1 .. Len(upstream)
  /\ Len(receive) + n <= ReceiveCapacity
  /\ Piece(n, upstream) \/ Len(receive) + n = ReceiveCapacity
  /\ receive' = receive \o SubSeq(upstream, 1, n)
  /\ upstream' = SubSeq(upstream, n + 1, Len(upstream))
  /\ consumed' = 0
  /\ pc' = "decode"
  /\ UNCHANGED <<open, transmitVars, engine, history>>

Input == SubSeq(receive, consumed + 1, Len(receive))

(* queue_response moves the unsent bytes to the front when the end is near. *)
MustCompact == begin # 0 /\ TransmitCapacity - Len(transmit) < ResponseFrameSize

(* Mutant: they are taken from the front instead of from transmit_begin. *)
FaultyMoved == SubSeq(transmit, 1, Len(transmit) - begin)

Moved == SubSeq(transmit, begin + 1, Len(transmit))

Compacted ==
  IF MustCompact THEN [transmit |-> Moved, begin |-> 0]
  ELSE [transmit |-> transmit, begin |-> begin]

HasRoom(response) == ResponseFits(response, TransmitCapacity - Len(Compacted.transmit))

QueueResponse(response) ==
  /\ transmit' = Compacted.transmit \o EncodeResponse(response)
  /\ begin' = Compacted.begin
  /\ answers' = Append(answers, response)

(* The connection is closed; the client still gets what was sent. *)
CloseConnection ==
  /\ open' = FALSE
  /\ pc' = "wait"
  /\ UNCHANGED <<receiveVars, transmitVars, engine, offered, answers, seen>>

(* gateway_rejection *)
Rejection(request, reason) ==
  LET c == request.command IN
  [session_id |-> request.session_id, client_sequence |-> request.client_sequence,
   event |-> [type |-> "Rejected", aggressor_side |-> c.side, reason |-> reason, sequence |-> 0,
              order_id |-> c.order_id, contra_order_id |-> 0, price |-> c.price, quantity |-> c.quantity]]

(* Mutant: one frame is taken at a time; the next waits for more bytes. *)
FaultyDecoding(status) ==
  /\ open /\ pc = "decode"
  /\ consumed < Len(receive)
  /\ status = IF consumed = 0 THEN RequestStatus(Input) ELSE "NeedMoreData"

Decoding(status) ==
  /\ open /\ pc = "decode"
  /\ consumed < Len(receive)
  /\ RequestStatus(Input) = status

(* A frame is decoded, and its request rejected or handed over. *)
DecodeRequest(reason) ==
  LET request == DecodedRequest(Input) IN
  /\ Decoding("Ok")
  /\ decoded' = Append(decoded, request)
  /\ \/ /\ reason = "None"
        /\ engine' = Append(engine, request)
        /\ UNCHANGED <<transmit, begin, answers>>
     \/ /\ reason # "None"
        /\ HasRoom(Rejection(request, reason))
        /\ QueueResponse(Rejection(request, reason))
        /\ UNCHANGED engine
  /\ consumed' = consumed + FrameLength(Input)
  /\ UNCHANGED <<pc, open, upstream, receive, downstream, offered, seen>>

DecodeNoRoom(reason) ==
  /\ Decoding("Ok")
  /\ ~HasRoom(Rejection(DecodedRequest(Input), reason))
  /\ decoded' = Append(decoded, DecodedRequest(Input))
  /\ CloseConnection

DecodeMalformed ==
  /\ \E status \in {"InvalidMagic", "UnsupportedVersion", "InvalidLength",
                    "UnknownMessageType", "InvalidField"} : Decoding(status)
  /\ CloseConnection
  /\ UNCHANGED decoded

(* Mutant: what follows the last complete frame is dropped. *)
FaultyRemaining == IF consumed # 0 THEN <<>> ELSE receive

(* The bytes behind the decoded frames move to the front. *)
Remaining == Input

(* Mutant: the full buffer is looked at before its frames are taken out. *)
FaultyBufferFull == Len(receive) = ReceiveCapacity

BufferFull == Len(Remaining) = ReceiveCapacity

(* No complete frame is left; a buffer that is still full cannot ever hold one. *)
DecodeEnds ==
  /\ \/ Decoding("NeedMoreData")
     \/ open /\ pc = "decode" /\ consumed = Len(receive)
  /\ receive' = Remaining
  /\ consumed' = 0
  /\ open' = ~BufferFull
  /\ pc' = "wait"
  /\ UNCHANGED <<upstream, transmitVars, engine, history>>

-----------------------------------------------------------------------------
(* The engine's answer to a request: some event about the order. *)
EngineEvent(request) ==
  LET c == request.command IN
  [session_id |-> request.session_id, client_sequence |-> request.client_sequence,
   event |-> [type |-> "Trade", aggressor_side |-> c.side, reason |-> "None",
              sequence |-> Len(answers) + 1, order_id |-> c.order_id,
              contra_order_id |-> U64 - c.order_id, price |-> c.price, quantity |-> c.quantity]]

(* drain_engine_responses; without room the connection is closed. *)
DrainResponse ==
  LET response == EngineEvent(Head(engine)) IN
  /\ open /\ pc = "wait"
  /\ engine # <<>>
  /\ \/ /\ HasRoom(response)
        /\ QueueResponse(response)
        /\ engine' = Tail(engine)
        /\ UNCHANGED <<pc, open, receiveVars, downstream, offered, decoded, seen>>
     \/ /\ ~HasRoom(response)
        /\ CloseConnection
        /\ UNCHANGED decoded

(* flush_output: send takes n bytes; an empty buffer starts over. *)
Flush(n) ==
  LET unsent == SubSeq(transmit, begin + 1, Len(transmit)) IN
  /\ open /\ pc = "wait"
  /\ n \in 1 .. Len(unsent)
  /\ Piece(n, unsent)
  /\ downstream' = downstream \o SubSeq(unsent, 1, n)
  /\ transmit' = IF n = Len(unsent) THEN <<>> ELSE transmit
  /\ begin' = IF n = Len(unsent) THEN 0 ELSE begin + n
  /\ UNCHANGED <<pc, open, receiveVars, engine, history>>

(* The client decodes the responses that have arrived completely. *)
ClientDecode ==
  /\ downstream # <<>>
  /\ ResponseStatus(downstream) = "Ok"
  /\ seen' = Append(seen, DecodedResponse(downstream))
  /\ downstream' = SubSeq(downstream, FrameLength(downstream) + 1, Len(downstream))
  /\ UNCHANGED <<pc, open, receiveVars, transmit, begin, engine, offered, decoded, answers>>

(* Validation is Gateway's: here a request passes or is rejected for one reason. *)
Reasons == {"None", "RiskLimit"}

Decode ==
  \/ \E reason \in Reasons : DecodeRequest(reason)
  \/ \E reason \in Reasons \ {"None"} : DecodeNoRoom(reason)
  \/ DecodeMalformed
  \/ DecodeEnds

ReceiveSome == \E n \in 1 .. Len(upstream) : Receive(n)
FlushSome == \E n \in 1 .. Len(transmit) : Flush(n)

Next ==
  \/ \E command \in Commands, damage \in {Undamaged} \cup Damages \cup Paddings : Send(command, damage)
  \/ ReceiveSome
  \/ Decode
  \/ DrainResponse
  \/ FlushSome
  \/ ClientDecode

(* epoll reports a socket with bytes to read, or with room to write when that is
   asked for, again and again until it is served; the client goes on reading. *)
Spec ==
  /\ Init /\ [][Next]_vars
  /\ WF_vars(ReceiveSome) /\ WF_vars(Decode) /\ WF_vars(FlushSome) /\ WF_vars(ClientDecode)

-----------------------------------------------------------------------------
(* What a request's frame carries: the fields of a New order; the identifier,
   price and quantity of a replacement; the identifier of a cancellation. *)
Carried(request) ==
  LET c == request.command IN
  [request EXCEPT !.command =
     [type |-> c.type, sequence |-> 0,
      side |-> IF c.type = "New" THEN c.side ELSE "Buy",
      order_type |-> IF c.type = "New" THEN c.order_type ELSE "Limit",
      order_id |-> c.order_id,
      price |-> IF c.type = "Cancel" THEN 0 ELSE c.price,
      quantity |-> IF c.type = "Cancel" THEN 0 ELSE c.quantity]]

Encoded(frames) == FlattenSeq([i \in DOMAIN frames |-> Bytes(frames[i])])

(* However the bytes were cut up or run together, the requests decoded are the
   ones sent, each once, in order, with every field, none at or behind a
   malformed frame; and what is buffered or on its way is exactly the rest. *)
RequestsIntact ==
  /\ Len(decoded) <= Len(offered)
  /\ \A i \in DOMAIN decoded :
       offered[i].damage \notin Damages /\ decoded[i] = Carried(offered[i].request)
  /\ open => Input \o upstream = Encoded(SubSeq(offered, Len(decoded) + 1, Len(offered)))

(* The client sees the responses that were queued, each once, in order, with
   every field, whatever pieces the socket took and however often the transmit
   buffer was compacted; the rest is in the buffer or on its way. *)
ResponsesIntact ==
  LET unseen == SubSeq(answers, Len(seen) + 1, Len(answers)) IN
  /\ IsPrefix(seen, answers)
  /\ downstream \o SubSeq(transmit, begin + 1, Len(transmit))
       = FlattenSeq([i \in DOMAIN unseen |-> EncodeResponse(unseen[i])])

(* A connection is closed only because the next frame is malformed or because a
   response finds no room behind the unsent ones: never for where the bytes were
   cut, and never for a receive buffer that was full. *)
ClosedOnlyForCause ==
  ~open =>
    \/ /\ Len(decoded) < Len(offered)
       /\ offered[Len(decoded) + 1].damage \in Damages
    \/ Len(transmit) - begin > TransmitCapacity - ResponseFrameSize

(* Every well-formed frame is decoded in the end without waiting for bytes of
   the next, and every response queued reaches the client, while the connection
   is open. *)
WellFormed(n) ==
  Len(offered) >= n /\ \A i \in 1 .. n : offered[i].damage \notin Damages
FramesArrive ==
  \A n \in 1 .. MaxFrames :
    /\ WellFormed(n) ~> (Len(decoded) >= n \/ ~open)
    /\ (Len(answers) >= n) ~> (Len(seen) >= n \/ ~open)
==============================================================================
