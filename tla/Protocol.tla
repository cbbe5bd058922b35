------------------------------ MODULE Protocol ------------------------------
(***************************************************************************)
(* The wire protocol: frames of little-endian fields behind a common       *)
(* header, as encode_request and encode_response write them and            *)
(* decode_request and decode_response read them.  Offsets and widths are   *)
(* the code's; a byte holds ByteBase values instead of 256, so that a      *)
(* field of eight bytes is a number TLC can compute with.                  *)
(***************************************************************************)
EXTENDS Integers, Sequences

CONSTANTS
  ByteBase,        \* 256
  Magic,           \* 0x31454d44
  ExecutionEvent   \* 128, the message type of a response

(* The values of a std::uint16_t, a std::uint32_t and a std::uint64_t. *)
U16 == ByteBase * ByteBase
U32 == U16 * U16
U64 == U32 * U32

ASSUME ProtocolAssumption ==
  /\ ByteBase \in Nat /\ ByteBase >= 12 /\ ByteBase % 2 = 0
  /\ Magic \in 0 .. U32 - 1
  /\ ExecutionEvent \in 4 .. ByteBase - 1

(* The enumerations, in the order of their codes. *)
Side == <<"Buy", "Sell">>
OrderType == <<"Limit", "Market", "ImmediateOrCancel", "FillOrKill">>
EventType == <<"Accepted", "Rejected", "Trade", "Cancelled", "Replaced", "Rested">>
RejectReason == <<"None", "InvalidQuantity", "InvalidPrice", "DuplicateOrderId",
                  "UnknownOrderId", "BookCapacity", "WouldNotFill", "SequenceGap",
                  "InvalidSessionSequence", "RiskLimit", "GatewayBackpressure">>

(* MessageType of a request is one more than its CommandType. *)
MessageType == <<"New", "Cancel", "Replace">>

Code(enumeration, name) == CHOOSE code \in 0 .. Len(enumeration) - 1 : enumeration[code + 1] = name
ValidCode(enumeration, code) == code < Len(enumeration)
Name(enumeration, code) == enumeration[code + 1]

Version == 1
HeaderSize == 24
MaximumFrameSize == 80
ResponseFrameSize == 68
RequestFrameSize(type) == CASE type = "New" -> 52 [] type = "Cancel" -> 32 [] type = "Replace" -> 48

-----------------------------------------------------------------------------
(* put_u16, put_u32, put_u64: the low byte first, and so the low half first. *)
PutU16(value) == <<value % ByteBase, (value \div ByteBase) % ByteBase>>
PutU32(value) == PutU16(value % U16) \o PutU16(value \div U16)
PutU64(value) == PutU32(value % U32) \o PutU32(value \div U32)

(* get_u16, get_u32, get_u64: the bytes behind the first offset ones. *)
GetU16(input, offset) == input[offset + 1] + ByteBase * input[offset + 2]
GetU32(input, offset) == GetU16(input, offset) + U16 * GetU16(input, offset + 2)
GetU64(input, offset) == GetU32(input, offset) + U32 * GetU32(input, offset + 4)

(* Prices are signed words; std::bit_cast to unsigned and back. *)
Unsigned(price) == price % U64
Signed(word) == IF word >= U64 \div 2 THEN word - U64 ELSE word

EncodeHeader(type, length, session, sequence) ==
  PutU32(Magic) \o <<Version, type>> \o PutU16(length)
    \o PutU32(session) \o PutU32(0) \o PutU64(sequence)

(* validate_header *)
HeaderStatus(input) ==
  IF Len(input) < HeaderSize THEN "NeedMoreData"
  ELSE IF GetU32(input, 0) # Magic THEN "InvalidMagic"
  ELSE IF input[5] # Version THEN "UnsupportedVersion"
  ELSE IF GetU16(input, 6) \notin HeaderSize .. MaximumFrameSize THEN "InvalidLength"
  ELSE IF Len(input) < GetU16(input, 6) THEN "NeedMoreData"
  ELSE "Ok"

FrameLength(input) == GetU16(input, 6)
Session(input) == GetU32(input, 8)
Sequence(input) == GetU64(input, 16)

-----------------------------------------------------------------------------
Encodable(request) ==
  request.session_id # 0 /\ request.client_sequence # 0 /\ request.command.order_id # 0

EncodePayload(c) ==
  LET identity == PutU64(c.order_id)
      terms == PutU64(Unsigned(c.price)) \o PutU64(c.quantity) IN
  CASE c.type = "New" -> <<Code(Side, c.side), Code(OrderType, c.order_type)>> \o PutU16(0)
                           \o identity \o terms
    [] c.type = "Cancel" -> identity
    [] c.type = "Replace" -> identity \o terms

EncodeRequest(request) ==
  LET type == request.command.type IN
  EncodeHeader(Code(MessageType, type) + 1, RequestFrameSize(type),
               request.session_id, request.client_sequence)
    \o EncodePayload(request.command)

(* The payload's fields; the ones a message type does not carry keep the values
   of an empty Command. *)
Payload(input) ==
  LET type == Name(MessageType, input[6] - 1)
      at == HeaderSize + IF type = "New" THEN 4 ELSE 0 IN
  [type |-> type, sequence |-> 0,
   side |-> IF type = "New" THEN Name(Side, input[HeaderSize + 1]) ELSE "Buy",
   order_type |-> IF type = "New" THEN Name(OrderType, input[HeaderSize + 2]) ELSE "Limit",
   order_id |-> GetU64(input, at),
   price |-> IF type = "Cancel" THEN 0 ELSE Signed(GetU64(input, at + 8)),
   quantity |-> IF type = "Cancel" THEN 0 ELSE GetU64(input, at + 16)]

(* The status of decode_request. *)
RequestStatus(input) ==
  LET type == Name(MessageType, input[6] - 1) IN
  IF HeaderStatus(input) # "Ok" THEN HeaderStatus(input)
  ELSE IF input[6] \notin DOMAIN MessageType THEN "UnknownMessageType"
  ELSE IF /\ FrameLength(input) = RequestFrameSize(type)
          /\ Session(input) # 0 /\ Sequence(input) # 0
          /\ type = "New" => /\ ValidCode(Side, input[HeaderSize + 1])
                             /\ ValidCode(OrderType, input[HeaderSize + 2])
          /\ GetU64(input, HeaderSize + (IF type = "New" THEN 4 ELSE 0)) # 0
  THEN "Ok" ELSE "InvalidField"

(* The request decode_request returns with "Ok". *)
DecodedRequest(input) ==
  [session_id |-> Session(input), client_sequence |-> Sequence(input), command |-> Payload(input)]

-----------------------------------------------------------------------------
ResponseFits(response, space) ==
  space >= ResponseFrameSize /\ response.session_id # 0 /\ response.client_sequence # 0

EncodeResponse(response) ==
  LET e == response.event IN
  EncodeHeader(ExecutionEvent, ResponseFrameSize, response.session_id, response.client_sequence)
    \o <<Code(EventType, e.type), Code(Side, e.aggressor_side), Code(RejectReason, e.reason), 0>>
    \o PutU64(e.order_id) \o PutU64(e.contra_order_id)
    \o PutU64(Unsigned(e.price)) \o PutU64(e.quantity) \o PutU64(e.sequence)

(* The status of decode_response. *)
ResponseStatus(input) ==
  IF HeaderStatus(input) # "Ok" THEN HeaderStatus(input)
  ELSE IF input[6] # ExecutionEvent THEN "UnknownMessageType"
  ELSE IF /\ FrameLength(input) = ResponseFrameSize
          /\ Session(input) # 0 /\ Sequence(input) # 0
          /\ ValidCode(EventType, input[HeaderSize + 1])
          /\ ValidCode(Side, input[HeaderSize + 2])
          /\ ValidCode(RejectReason, input[HeaderSize + 3])
  THEN "Ok" ELSE "InvalidField"

(* The response decode_response returns with "Ok". *)
DecodedResponse(input) ==
  [session_id |-> Session(input), client_sequence |-> Sequence(input),
   event |-> [type |-> Name(EventType, input[HeaderSize + 1]),
              aggressor_side |-> Name(Side, input[HeaderSize + 2]),
              reason |-> Name(RejectReason, input[HeaderSize + 3]),
              order_id |-> GetU64(input, HeaderSize + 4),
              contra_order_id |-> GetU64(input, HeaderSize + 12),
              price |-> Signed(GetU64(input, HeaderSize + 20)),
              quantity |-> GetU64(input, HeaderSize + 28),
              sequence |-> GetU64(input, HeaderSize + 36)]]
==============================================================================
