--------------------------- MODULE FramingProofs ---------------------------
(***************************************************************************)
(* That the bytes of a connection arrive intact, proved for every byte     *)
(* base, every pair of buffer capacities the code's lower bounds admit,    *)
(* every way TCP may cut the streams, and every set of commands and        *)
(* damages.  Each direction is one stream: the concatenation of what was   *)
(* sent, of which the frames decoded so far are the front and the buffers  *)
(* and wires, in their order, the rest.  The proof has three parts: what   *)
(* the encoders write the decoders read back; the front of a stream        *)
(* decodes to the next frame or to nothing yet; and each step moves bytes  *)
(* along the stream without changing it.                                   *)
(***************************************************************************)
EXTENDS Framing, InductionLemmas, SequenceTheorems

-----------------------------------------------------------------------------
(* Numbers as bytes: little-endian words. *)

(* What quotient and remainder are. *)
LEMMA Division ==
  ASSUME NEW v \in Int, NEW d \in Nat \ {0}
  PROVE  v \div d \in Int /\ v % d \in 0 .. d - 1 /\ v = d * (v \div d) + (v % d)
OBVIOUS

(* The quotient of a number of two digits fits one. *)
LEMMA QuotientBound ==
  ASSUME NEW d \in Nat \ {0}, NEW e \in Nat \ {0}, NEW v \in 0 .. d * e - 1
  PROVE  v \div d \in 0 .. e - 1
<1>1. v \div d \in Int /\ v % d \in 0 .. d - 1 /\ v = d * (v \div d) + (v % d)
  BY Division
<1> DEFINE q == v \div d
           r == v % d
<1> HIDE DEF q, r
<1>2. q \in Int /\ r \in 0 .. d - 1 /\ v = d * q + r
  BY <1>1 DEF q, r
<1>3. ASSUME q < 0 PROVE FALSE
  <2>1. d * q <= d * (-1)
    BY <1>2, <1>3
  <2> QED
    BY <2>1, <1>2
<1>4. ASSUME q >= e PROVE FALSE
  <2>1. d * q >= d * e
    BY <1>2, <1>4
  <2> QED
    BY <2>1, <1>2
<1>5. q \in 0 .. e - 1
  BY <1>2, <1>3, <1>4
<1> QED
  BY <1>5 DEF q

(* The ranges of the machine words, whatever a byte holds. *)
LEMMA Bases ==
  /\ ByteBase \in Nat \ {0} /\ ByteBase >= 12
  /\ U16 \in Nat \ {0} /\ U16 >= 144
  /\ U32 \in Nat \ {0} /\ U32 >= U16
  /\ U64 \in Nat \ {0} /\ U64 >= U32
<1>1. ByteBase \in Nat \ {0} /\ ByteBase >= 12
  BY ProtocolAssumption
<1>2. ASSUME NEW b \in Nat \ {0} PROVE b * b \in Nat \ {0} /\ b * b >= b
  OBVIOUS
<1>3. U16 \in Nat \ {0} /\ U16 >= 144
  BY <1>1 DEF U16
<1>4. U32 \in Nat \ {0} /\ U32 >= U16
  BY <1>2, <1>3 DEF U32
<1> QED
  BY <1>1, <1>2, <1>3, <1>4 DEF U64

Byte == 0 .. ByteBase - 1

(* The bytes s stand in the input behind the first offset ones. *)
At(input, offset, s) == \A j \in 1 .. Len(s) : input[offset + j] = s[j]

(* What put_u16 writes, get_u16 reads, wherever in a buffer it stands. *)
LEMMA RoundU16 ==
  ASSUME NEW v \in 0 .. U16 - 1
  PROVE  /\ PutU16(v) \in Seq(Byte) /\ Len(PutU16(v)) = 2
         /\ \A input, offset : At(input, offset, PutU16(v)) => GetU16(input, offset) = v
<1> DEFINE a == v % ByteBase
           q == v \div ByteBase
<1>1. a \in Byte /\ q \in Int /\ v = ByteBase * q + a
  BY Division, Bases DEF Byte
<1>2. q \in Byte
  BY QuotientBound, Bases DEF U16, Byte
<1>3. q % ByteBase = q
  BY <1>2, Bases DEF Byte
<1>4. PutU16(v) = <<a, q>>
  BY <1>3 DEF PutU16
<1> HIDE DEF a, q
<1>5. <<a, q>> \in Seq(Byte) /\ Len(<<a, q>>) = 2 /\ <<a, q>>[1] = a /\ <<a, q>>[2] = q
  BY <1>1, <1>2
<1>6. ASSUME NEW input, NEW offset, At(input, offset, <<a, q>>)
      PROVE  GetU16(input, offset) = v
  <2>1. input[offset + 1] = a /\ input[offset + 2] = q
    BY <1>5, <1>6 DEF At
  <2> QED
    BY <2>1, <1>1, <1>2, Bases DEF GetU16, Byte
<1> QED
  BY <1>4, <1>5, <1>6

(* A field of two halves. *)
LEMMA Halves ==
  ASSUME NEW s \in Seq(Byte), NEW t \in Seq(Byte)
  PROVE  \A input : \A offset \in Int :
           At(input, offset, s \o t) <=> At(input, offset, s) /\ At(input, offset + Len(s), t)
<1>1. /\ s \o t \in Seq(Byte) /\ Len(s \o t) = Len(s) + Len(t)
      /\ \A i \in 1 .. Len(s) + Len(t) : (s \o t)[i] = IF i <= Len(s) THEN s[i] ELSE t[i - Len(s)]
  BY ConcatProperties
<1>2. Len(s) \in Nat /\ Len(t) \in Nat
  BY LenProperties
<1>3. ASSUME NEW input, NEW offset \in Int, At(input, offset, s \o t)
      PROVE  At(input, offset, s) /\ At(input, offset + Len(s), t)
  <2>1. ASSUME NEW j \in 1 .. Len(s) PROVE input[offset + j] = s[j]
    BY <1>1, <1>2, <1>3 DEF At
  <2>2. ASSUME NEW j \in 1 .. Len(t) PROVE input[offset + Len(s) + j] = t[j]
    <3> DEFINE i == Len(s) + j
    <3>1. i \in 1 .. Len(s) + Len(t) /\ ~(i <= Len(s)) /\ i - Len(s) = j
          /\ offset + i = offset + Len(s) + j
      BY <1>2
    <3>2. input[offset + i] = (s \o t)[i]
      BY <3>1, <1>1, <1>3 DEF At
    <3> QED
      BY <3>1, <3>2, <1>1
  <2> QED
    BY <2>1, <2>2 DEF At
<1>4. ASSUME NEW input, NEW offset \in Int, At(input, offset, s), At(input, offset + Len(s), t)
      PROVE  At(input, offset, s \o t)
  <2> SUFFICES ASSUME NEW i \in 1 .. Len(s) + Len(t) PROVE input[offset + i] = (s \o t)[i]
    BY <1>1 DEF At
  <2>1. CASE i <= Len(s)
    BY <2>1, <1>1, <1>2, <1>4 DEF At
  <2>2. CASE ~(i <= Len(s))
    <3> DEFINE j == i - Len(s)
    <3>1. j \in 1 .. Len(t) /\ offset + Len(s) + j = offset + i
      BY <2>2, <1>2
    <3>2. input[offset + Len(s) + j] = t[j]
      BY <3>1, <1>4 DEF At
    <3> QED
      BY <3>1, <3>2, <2>2, <1>1
  <2> QED
    BY <2>1, <2>2
<1> QED
  BY <1>3, <1>4

(* Likewise put_u32 and get_u32. *)
LEMMA RoundU32 ==
  ASSUME NEW v \in 0 .. U32 - 1
  PROVE  /\ PutU32(v) \in Seq(Byte) /\ Len(PutU32(v)) = 4
         /\ \A input : \A offset \in Int :
              At(input, offset, PutU32(v)) => GetU32(input, offset) = v
<1> DEFINE a == v % U16
           q == v \div U16
<1>1. a \in 0 .. U16 - 1 /\ q \in Int /\ v = U16 * q + a
  BY Division, Bases
<1>2. q \in 0 .. U16 - 1
  BY QuotientBound, Bases DEF U32
<1>3. PutU32(v) = PutU16(a) \o PutU16(q)
  BY DEF PutU32
<1> HIDE DEF a, q
<1>4. /\ PutU16(a) \in Seq(Byte) /\ Len(PutU16(a)) = 2
      /\ PutU16(q) \in Seq(Byte) /\ Len(PutU16(q)) = 2
  BY <1>1, <1>2, RoundU16
<1> DEFINE low == PutU16(a)
           high == PutU16(q)
<1> HIDE DEF low, high
<1>4a. /\ low \in Seq(Byte) /\ Len(low) = 2 /\ high \in Seq(Byte) /\ Len(high) = 2
      /\ PutU32(v) = low \o high
  BY <1>3, <1>4 DEF low, high
<1>5. PutU32(v) \in Seq(Byte) /\ Len(PutU32(v)) = 4
  <2>1. low \o high \in Seq(Byte) /\ Len(low \o high) = Len(low) + Len(high)
    BY <1>4a, ConcatProperties, Zenon
  <2> QED
    BY <1>4a, <2>1
<1>6. ASSUME NEW input, NEW offset \in Int, At(input, offset, PutU32(v))
      PROVE  GetU32(input, offset) = v
  <2>0. At(input, offset, low) /\ At(input, offset + Len(low), high)
    <3>1. At(input, offset, low \o high)
      BY <1>4a, <1>6
    <3> QED
      BY <1>4a, <3>1, Halves, Zenon
  <2>1. At(input, offset, PutU16(a)) /\ At(input, offset + 2, PutU16(q))
    BY <2>0, <1>4a DEF low, high
  <2>2. GetU16(input, offset) = a /\ GetU16(input, offset + 2) = q
    BY <2>1, <1>1, <1>2, RoundU16
  <2> QED
    BY <2>2, <1>1, <1>2, Bases DEF GetU32
<1> QED
  BY <1>5, <1>6

(* Likewise put_u64 and get_u64. *)
LEMMA RoundU64 ==
  ASSUME NEW v \in 0 .. U64 - 1
  PROVE  /\ PutU64(v) \in Seq(Byte) /\ Len(PutU64(v)) = 8
         /\ \A input : \A offset \in Int :
              At(input, offset, PutU64(v)) => GetU64(input, offset) = v
<1> DEFINE a == v % U32
           q == v \div U32
<1>1. a \in 0 .. U32 - 1 /\ q \in Int /\ v = U32 * q + a
  BY Division, Bases
<1>2. q \in 0 .. U32 - 1
  BY QuotientBound, Bases DEF U64
<1>3. PutU64(v) = PutU32(a) \o PutU32(q)
  BY DEF PutU64
<1> HIDE DEF a, q
<1>4. /\ PutU32(a) \in Seq(Byte) /\ Len(PutU32(a)) = 4
      /\ PutU32(q) \in Seq(Byte) /\ Len(PutU32(q)) = 4
  BY <1>1, <1>2, RoundU32
<1> DEFINE low == PutU32(a)
           high == PutU32(q)
<1> HIDE DEF low, high
<1>4a. /\ low \in Seq(Byte) /\ Len(low) = 4 /\ high \in Seq(Byte) /\ Len(high) = 4
      /\ PutU64(v) = low \o high
  BY <1>3, <1>4 DEF low, high
<1>5. PutU64(v) \in Seq(Byte) /\ Len(PutU64(v)) = 8
  <2>1. low \o high \in Seq(Byte) /\ Len(low \o high) = Len(low) + Len(high)
    BY <1>4a, ConcatProperties, Zenon
  <2> QED
    BY <1>4a, <2>1
<1>6. ASSUME NEW input, NEW offset \in Int, At(input, offset, PutU64(v))
      PROVE  GetU64(input, offset) = v
  <2>0. At(input, offset, low) /\ At(input, offset + Len(low), high)
    <3>1. At(input, offset, low \o high)
      BY <1>4a, <1>6
    <3> QED
      BY <1>4a, <3>1, Halves, Zenon
  <2>1. At(input, offset, PutU32(a)) /\ At(input, offset + 4, PutU32(q))
    BY <2>0, <1>4a DEF low, high
  <2>2. GetU32(input, offset) = a /\ GetU32(input, offset + 4) = q
    BY <2>1, <1>1, <1>2, RoundU32
  <2> QED
    BY <2>2, <1>1, <1>2, Bases DEF GetU64
<1> QED
  BY <1>5, <1>6

(* The two casts of a price are inverse. *)
LEMMA RoundSigned ==
  ASSUME NEW price \in -(U64 \div 2) .. U64 \div 2 - 1
  PROVE  Unsigned(price) \in 0 .. U64 - 1 /\ Signed(Unsigned(price)) = price
<1> DEFINE q == price \div U64
           r == price % U64
           h == U64 \div 2
<1>1. q \in Int /\ r \in 0 .. U64 - 1 /\ price = U64 * q + r
  BY Division, Bases
<1>2. h \in Nat /\ 2 * h <= U64 /\ price \in -h .. h - 1
  BY Bases
<1> HIDE DEF q, r, h
<1>3. U64 \in Nat \ {0}
  BY Bases
<1>4. ASSUME q >= 1 PROVE FALSE
  <2>1. U64 * q >= U64
    BY <1>1, <1>3, <1>4
  <2> QED
    BY <2>1, <1>1, <1>2, <1>3
<1>5. ASSUME q <= -2 PROVE FALSE
  <2>1. U64 * q <= -(2 * U64)
    BY <1>1, <1>3, <1>5
  <2> QED
    BY <2>1, <1>1, <1>2, <1>3
<1>6. q = 0 \/ q = -1
  BY <1>1, <1>4, <1>5
<1>7. r = price \/ r = price + U64
  BY <1>1, <1>3, <1>6
<1>8. Unsigned(price) = r
  BY DEF Unsigned, r
<1>9. Signed(r) = IF r >= h THEN r - U64 ELSE r
  BY DEF Signed, h
<1> QED
  BY <1>1, <1>2, <1>3, <1>7, <1>8, <1>9

-----------------------------------------------------------------------------
(* Fields in a buffer, and the codes of the enumerations. *)

(* The types of a concatenation. *)
LEMMA Cat ==
  ASSUME NEW s \in Seq(Byte), NEW t \in Seq(Byte)
  PROVE  s \o t \in Seq(Byte) /\ Len(s \o t) = Len(s) + Len(t) /\ Len(s) \in Nat
BY ConcatProperties, LenProperties, Zenon

(* What stands in one input stands in another that has the same bytes there. *)
LEMMA AtSame ==
  ASSUME NEW F, NEW input, NEW offset \in Int, NEW s \in Seq(Byte), At(F, offset, s),
         \A i \in offset + 1 .. offset + Len(s) : input[i] = F[i]
  PROVE  At(input, offset, s)
<1>1. Len(s) \in Nat
  BY LenProperties
<1> SUFFICES ASSUME NEW j \in 1 .. Len(s) PROVE input[offset + j] = s[j]
  BY DEF At
<1>2. offset + j \in offset + 1 .. offset + Len(s)
  BY <1>1
<1> QED
  BY <1>2 DEF At

(* A string stands at the front of itself. *)
LEMMA AtItself ==
  ASSUME NEW s \in Seq(Byte)
  PROVE  At(s, 0, s)
<1>1. Len(s) \in Nat
  BY LenProperties
<1> QED
  BY <1>1 DEF At

(* An enumeration's code is the place of the name. *)
LEMMA Codes ==
  ASSUME NEW e, Len(e) \in Nat, NEW k \in 1 .. Len(e)
  PROVE  Code(e, e[k]) \in 0 .. Len(e) - 1 /\ e[Code(e, e[k]) + 1] = e[k]
<1>1. k - 1 \in 0 .. Len(e) - 1 /\ e[(k - 1) + 1] = e[k]
  OBVIOUS
<1>2. \E code \in 0 .. Len(e) - 1 : e[code + 1] = e[k]
  BY <1>1
<1> QED
  BY <1>2 DEF Code

(* The names of a side survive the way to their codes and back. *)
LEMMA SideCodes ==
  ASSUME NEW x \in {"Buy", "Sell"}
  PROVE  Code(Side, x) \in 0 .. 1 /\ Name(Side, Code(Side, x)) = x
<1>1. Len(Side) = 2 /\ Side[1] = "Buy" /\ Side[2] = "Sell"
  BY DEF Side
<1>2. PICK k \in 1 .. Len(Side) : x = Side[k]
  BY <1>1
<1>3. Code(Side, Side[k]) \in 0 .. Len(Side) - 1 /\ Side[Code(Side, Side[k]) + 1] = Side[k]
  <2>1. Len(Side) \in Nat
    BY <1>1
  <2> QED
    BY <2>1, <1>2, Codes, Zenon
<1> QED
  BY <1>1, <1>2, <1>3 DEF Name

(* Likewise the order types. *)
LEMMA OrderTypeCodes ==
  ASSUME NEW x \in {"Limit", "Market", "ImmediateOrCancel", "FillOrKill"}
  PROVE  Code(OrderType, x) \in 0 .. 3 /\ Name(OrderType, Code(OrderType, x)) = x
<1>1. /\ Len(OrderType) = 4 /\ OrderType[1] = "Limit" /\ OrderType[2] = "Market"
      /\ OrderType[3] = "ImmediateOrCancel" /\ OrderType[4] = "FillOrKill"
  BY DEF OrderType
<1>2. PICK k \in 1 .. Len(OrderType) : x = OrderType[k]
  BY <1>1
<1>3. /\ Code(OrderType, OrderType[k]) \in 0 .. Len(OrderType) - 1
      /\ OrderType[Code(OrderType, OrderType[k]) + 1] = OrderType[k]
  <2>1. Len(OrderType) \in Nat
    BY <1>1
  <2> QED
    BY <2>1, <1>2, Codes, Zenon
<1> QED
  BY <1>1, <1>2, <1>3 DEF Name

(* Likewise the message types of requests. *)
LEMMA MessageTypeCodes ==
  /\ DOMAIN MessageType = 1 .. 3
  /\ \A x \in {"New", "Cancel", "Replace"} :
       Code(MessageType, x) \in 0 .. 2 /\ Name(MessageType, Code(MessageType, x)) = x
<1>1. /\ Len(MessageType) = 3 /\ MessageType[1] = "New" /\ MessageType[2] = "Cancel"
      /\ MessageType[3] = "Replace" /\ DOMAIN MessageType = 1 .. 3
  BY DEF MessageType
<1> SUFFICES ASSUME NEW x \in {"New", "Cancel", "Replace"}
             PROVE Code(MessageType, x) \in 0 .. 2 /\ Name(MessageType, Code(MessageType, x)) = x
  BY <1>1
<1>2. PICK k \in 1 .. Len(MessageType) : x = MessageType[k]
  BY <1>1
<1>3. /\ Code(MessageType, MessageType[k]) \in 0 .. Len(MessageType) - 1
      /\ MessageType[Code(MessageType, MessageType[k]) + 1] = MessageType[k]
  <2>1. Len(MessageType) \in Nat
    BY <1>1
  <2> QED
    BY <2>1, <1>2, Codes, Zenon
<1> QED
  BY <1>1, <1>2, <1>3 DEF Name

(* The names of the events and of the reasons. *)
EventTypes == {"Accepted", "Rejected", "Trade", "Cancelled", "Replaced", "Rested"}
Rejections == {"None", "InvalidQuantity", "InvalidPrice", "DuplicateOrderId",
               "UnknownOrderId", "BookCapacity", "WouldNotFill", "SequenceGap",
               "InvalidSessionSequence", "RiskLimit", "GatewayBackpressure"}

(* The event types survive the way to their codes and back. *)
LEMMA EventTypeCodes ==
  ASSUME NEW x \in EventTypes
  PROVE  Code(EventType, x) \in 0 .. 5 /\ Name(EventType, Code(EventType, x)) = x
<1>1. /\ Len(EventType) = 6 /\ EventType[1] = "Accepted" /\ EventType[2] = "Rejected"
      /\ EventType[3] = "Trade" /\ EventType[4] = "Cancelled" /\ EventType[5] = "Replaced"
      /\ EventType[6] = "Rested"
  BY DEF EventType
<1>2. PICK k \in 1 .. Len(EventType) : x = EventType[k]
  BY <1>1 DEF EventTypes
<1>3. /\ Code(EventType, EventType[k]) \in 0 .. Len(EventType) - 1
      /\ EventType[Code(EventType, EventType[k]) + 1] = EventType[k]
  <2>1. Len(EventType) \in Nat
    BY <1>1
  <2> QED
    BY <2>1, <1>2, Codes, Zenon
<1> QED
  BY <1>1, <1>2, <1>3 DEF Name

(* Likewise the reasons. *)
LEMMA RejectReasonCodes ==
  ASSUME NEW x \in Rejections
  PROVE  Code(RejectReason, x) \in 0 .. 10 /\ Name(RejectReason, Code(RejectReason, x)) = x
<1>1. /\ Len(RejectReason) = 11 /\ RejectReason[1] = "None" /\ RejectReason[2] = "InvalidQuantity"
      /\ RejectReason[3] = "InvalidPrice" /\ RejectReason[4] = "DuplicateOrderId"
      /\ RejectReason[5] = "UnknownOrderId" /\ RejectReason[6] = "BookCapacity"
      /\ RejectReason[7] = "WouldNotFill" /\ RejectReason[8] = "SequenceGap"
      /\ RejectReason[9] = "InvalidSessionSequence" /\ RejectReason[10] = "RiskLimit"
      /\ RejectReason[11] = "GatewayBackpressure"
  BY DEF RejectReason
<1>2. PICK k \in 1 .. Len(RejectReason) : x = RejectReason[k]
  BY <1>1 DEF Rejections
<1>3. /\ Code(RejectReason, RejectReason[k]) \in 0 .. Len(RejectReason) - 1
      /\ RejectReason[Code(RejectReason, RejectReason[k]) + 1] = RejectReason[k]
  <2>1. Len(RejectReason) \in Nat
    BY <1>1
  <2> QED
    BY <2>1, <1>2, Codes, Zenon
<1> QED
  BY <1>1, <1>2, <1>3 DEF Name

-----------------------------------------------------------------------------
(* The layout of the frames. *)

(* encode_header writes 24 bytes with the fields at the code's offsets. *)
LEMMA HeaderLayout ==
  ASSUME NEW type \in Byte, NEW length \in 0 .. U16 - 1,
         NEW session \in 0 .. U32 - 1, NEW sequence \in 0 .. U64 - 1
  PROVE  LET header == EncodeHeader(type, length, session, sequence) IN
         /\ header \in Seq(Byte) /\ Len(header) = 24
         /\ \A input : At(input, 0, header) =>
              /\ At(input, 0, PutU32(Magic)) /\ input[5] = Version /\ input[6] = type
              /\ At(input, 6, PutU16(length)) /\ At(input, 8, PutU32(session))
              /\ At(input, 16, PutU64(sequence))
<1> DEFINE p1 == PutU32(Magic)
           p2 == <<Version, type>>
           p3 == PutU16(length)
           p4 == PutU32(session)
           p5 == PutU32(0)
           p6 == PutU64(sequence)
           h2 == p1 \o p2
           h3 == h2 \o p3
           h4 == h3 \o p4
           h5 == h4 \o p5
           h6 == h5 \o p6
<1>1. p1 \in Seq(Byte) /\ Len(p1) = 4
  BY ProtocolAssumption, RoundU32
<1>2. p2 \in Seq(Byte) /\ Len(p2) = 2 /\ p2[1] = Version /\ p2[2] = type
  BY Bases DEF Byte, Version
<1>3. p3 \in Seq(Byte) /\ Len(p3) = 2
  BY RoundU16
<1>4. p4 \in Seq(Byte) /\ Len(p4) = 4
  BY RoundU32
<1>5. p5 \in Seq(Byte) /\ Len(p5) = 4
  BY RoundU32, Bases
<1>6. p6 \in Seq(Byte) /\ Len(p6) = 8
  BY RoundU64
<1>7. EncodeHeader(type, length, session, sequence) = h6
  BY DEF EncodeHeader
<1>8. h2 = p1 \o p2 /\ h3 = h2 \o p3 /\ h4 = h3 \o p4 /\ h5 = h4 \o p5 /\ h6 = h5 \o p6
  OBVIOUS
<1> HIDE DEF p1, p2, p3, p4, p5, p6, h2, h3, h4, h5, h6
<1>12. h2 \in Seq(Byte) /\ Len(h2) = Len(p1) + Len(p2)
  BY <1>8, <1>1, <1>2, Cat, Zenon
<1>13. h3 \in Seq(Byte) /\ Len(h3) = Len(h2) + Len(p3)
  BY <1>8, <1>12, <1>3, Cat, Zenon
<1>14. h4 \in Seq(Byte) /\ Len(h4) = Len(h3) + Len(p4)
  BY <1>8, <1>13, <1>4, Cat, Zenon
<1>15. h5 \in Seq(Byte) /\ Len(h5) = Len(h4) + Len(p5)
  BY <1>8, <1>14, <1>5, Cat, Zenon
<1>16. h6 \in Seq(Byte) /\ Len(h6) = Len(h5) + Len(p6)
  BY <1>8, <1>15, <1>6, Cat, Zenon
<1>17. Len(h2) = 6 /\ Len(h3) = 8 /\ Len(h4) = 12 /\ Len(h5) = 16 /\ Len(h6) = 24
  BY <1>1, <1>2, <1>3, <1>4, <1>5, <1>6, <1>12, <1>13, <1>14, <1>15, <1>16
<1>20. ASSUME NEW input, At(input, 0, h6)
       PROVE  /\ At(input, 0, p1) /\ input[5] = Version /\ input[6] = type
              /\ At(input, 6, p3) /\ At(input, 8, p4)
              /\ At(input, 16, p6)
  <2>0. 0 \in Int
    OBVIOUS
  <2>1. At(input, 0, h5) /\ At(input, 0 + Len(h5), p6)
    BY <1>8, <1>20, <1>15, <1>6, <2>0, Halves, Zenon
  <2>2. At(input, 0, h4)
    BY <1>8, <2>1, <1>14, <1>5, <2>0, Halves, Zenon
  <2>3. At(input, 0, h3) /\ At(input, 0 + Len(h3), p4)
    BY <1>8, <2>2, <1>13, <1>4, <2>0, Halves, Zenon
  <2>4. At(input, 0, h2) /\ At(input, 0 + Len(h2), p3)
    BY <1>8, <2>3, <1>12, <1>3, <2>0, Halves, Zenon
  <2>5. At(input, 0, p1) /\ At(input, 0 + Len(p1), p2)
    BY <1>8, <2>4, <1>1, <1>2, <2>0, Halves, Zenon
  <2>6. input[4 + 1] = p2[1] /\ input[4 + 2] = p2[2]
    BY <2>5, <1>1, <1>2 DEF At
  <2> QED
    BY <2>1, <2>3, <2>4, <2>5, <2>6, <1>2, <1>17
<1> QED
  BY <1>7, <1>16, <1>17, <1>20 DEF p1, p3, p4, p6

(* The requests a client can encode, and the responses the gateway can. *)
WireCommand ==
  [type : {"New", "Cancel", "Replace"}, sequence : 0 .. U64 - 1, side : {"Buy", "Sell"},
   order_type : {"Limit", "Market", "ImmediateOrCancel", "FillOrKill"},
   order_id : 1 .. U64 - 1, price : -(U64 \div 2) .. U64 \div 2 - 1, quantity : 0 .. U64 - 1]
WireRequest == [session_id : 1 .. U32 - 1, client_sequence : 1 .. U64 - 1, command : WireCommand]

(* Where a frame holds the order identifier. *)
IdentityAt(type) == IF type = "New" THEN 28 ELSE 24

(* The order identifier, price and quantity, as encode_request writes them. *)
LEMMA TermsLayout ==
  ASSUME NEW c \in WireCommand
  PROVE  LET identity == PutU64(c.order_id)
             terms == PutU64(Unsigned(c.price)) \o PutU64(c.quantity) IN
         /\ identity \in Seq(Byte) /\ Len(identity) = 8
         /\ terms \in Seq(Byte) /\ Len(terms) = 16
         /\ \A input : \A offset \in Int : At(input, offset, terms) =>
              /\ At(input, offset, PutU64(Unsigned(c.price)))
              /\ At(input, offset + 8, PutU64(c.quantity))
<1>1. c.order_id \in 0 .. U64 - 1 /\ c.quantity \in 0 .. U64 - 1 /\ Unsigned(c.price) \in 0 .. U64 - 1
  BY RoundSigned, Bases DEF WireCommand
<1> DEFINE i == PutU64(c.order_id)
           p == PutU64(Unsigned(c.price))
           q == PutU64(c.quantity)
<1>2. /\ i \in Seq(Byte) /\ Len(i) = 8 /\ p \in Seq(Byte) /\ Len(p) = 8
      /\ q \in Seq(Byte) /\ Len(q) = 8
  BY <1>1, RoundU64
<1> HIDE DEF i, p, q
<1>3. p \o q \in Seq(Byte) /\ Len(p \o q) = Len(p) + Len(q)
  BY <1>2, Cat, Zenon
<1>4. ASSUME NEW input, NEW offset \in Int, At(input, offset, p \o q)
      PROVE  At(input, offset, p) /\ At(input, offset + Len(p), q)
  BY <1>4, <1>2, Halves, Zenon
<1>5. Len(p \o q) = 16
  BY <1>2, <1>3
<1>6. \A input : \A offset \in Int : At(input, offset, p \o q) =>
        At(input, offset, p) /\ At(input, offset + 8, q)
  BY <1>2, <1>4
<1> QED
  BY <1>2, <1>3, <1>5, <1>6, Zenon DEF i, p, q

(* encode_request writes the payload's fields at the code's offsets. *)
LEMMA PayloadLayout ==
  ASSUME NEW c \in WireCommand
  PROVE  LET payload == EncodePayload(c) IN
         /\ payload \in Seq(Byte) /\ 24 + Len(payload) = RequestFrameSize(c.type)
         /\ \A input : At(input, 24, payload) =>
              /\ c.type = "New" => /\ input[25] = Code(Side, c.side)
                                   /\ input[26] = Code(OrderType, c.order_type)
              /\ At(input, IdentityAt(c.type), PutU64(c.order_id))
              /\ c.type # "Cancel" =>
                   /\ At(input, IdentityAt(c.type) + 8, PutU64(Unsigned(c.price)))
                   /\ At(input, IdentityAt(c.type) + 16, PutU64(c.quantity))
<1> DEFINE i == PutU64(c.order_id)
           p == PutU64(Unsigned(c.price))
           q == PutU64(c.quantity)
           t == p \o q
           e == <<Code(Side, c.side), Code(OrderType, c.order_type)>>
           z == PutU16(0)
           ez == e \o z
           ezi == ez \o i
           ezit == ezi \o t
           it == i \o t
<1>1. i \in Seq(Byte) /\ Len(i) = 8 /\ t \in Seq(Byte) /\ Len(t) = 16
  BY TermsLayout
<1>2. ASSUME NEW input, NEW offset \in Int, At(input, offset, t)
      PROVE  At(input, offset, p) /\ At(input, offset + 8, q)
  BY <1>2, TermsLayout, Zenon
<1>3. e \in Seq(Byte) /\ Len(e) = 2 /\ e[1] = Code(Side, c.side) /\ e[2] = Code(OrderType, c.order_type)
  <2>1. Code(Side, c.side) \in Byte
    BY SideCodes, Bases DEF WireCommand, Byte
  <2>2. Code(OrderType, c.order_type) \in Byte
    BY OrderTypeCodes, Bases DEF WireCommand, Byte
  <2> QED
    BY <2>1, <2>2
<1>4. z \in Seq(Byte) /\ Len(z) = 2
  BY RoundU16, Bases
<1>5. /\ c.type = "New" => EncodePayload(c) = ezit
      /\ c.type = "Cancel" => EncodePayload(c) = i
      /\ c.type = "Replace" => EncodePayload(c) = it
  BY DEF EncodePayload
<1>6. ez = e \o z /\ ezi = ez \o i /\ ezit = ezi \o t /\ it = i \o t
  OBVIOUS
<1>7. c.type \in {"New", "Cancel", "Replace"}
  BY DEF WireCommand
<1>8. /\ IdentityAt("New") = 28 /\ IdentityAt("Cancel") = 24 /\ IdentityAt("Replace") = 24
      /\ RequestFrameSize("New") = 52 /\ RequestFrameSize("Cancel") = 32
      /\ RequestFrameSize("Replace") = 48
  BY DEF IdentityAt, RequestFrameSize
<1>9. 24 \in Int /\ 32 \in Int /\ 36 \in Int /\ 28 \in Int
  OBVIOUS
<1> HIDE DEF i, t, e, z, ez, ezi, ezit, it, p, q
<1>10. CASE c.type = "New"
  <2>1. ez \in Seq(Byte) /\ Len(ez) = Len(e) + Len(z)
    BY <1>6, <1>3, <1>4, Cat, Zenon
  <2>2. ezi \in Seq(Byte) /\ Len(ezi) = Len(ez) + Len(i)
    BY <1>6, <2>1, <1>1, Cat, Zenon
  <2>3. ezit \in Seq(Byte) /\ Len(ezit) = Len(ezi) + Len(t)
    BY <1>6, <2>2, <1>1, Cat, Zenon
  <2>4. Len(ez) = 4 /\ Len(ezi) = 12 /\ Len(ezit) = 28
    BY <2>1, <2>2, <2>3, <1>1, <1>3, <1>4
  <2>5. ASSUME NEW input, At(input, 24, ezit)
        PROVE  /\ input[25] = e[1] /\ input[26] = e[2]
               /\ At(input, 28, i) /\ At(input, 36, p) /\ At(input, 44, q)
    <3>1. At(input, 24, ezi) /\ At(input, 24 + Len(ezi), t)
      BY <1>6, <2>5, <2>2, <1>1, <1>9, Halves, Zenon
    <3>2. At(input, 24, ez) /\ At(input, 24 + Len(ez), i)
      BY <1>6, <3>1, <2>1, <1>1, <1>9, Halves, ZenonT(30)
    <3>3. At(input, 24, e)
      BY <1>6, <3>2, <1>3, <1>4, <1>9, Halves, Zenon
    <3>4. input[24 + 1] = e[1] /\ input[24 + 2] = e[2]
      BY <3>3, <1>3 DEF At
    <3>5. At(input, 36, t) /\ At(input, 28, i)
      BY <3>1, <3>2, <2>4
    <3>6. At(input, 36, p) /\ At(input, 36 + 8, q)
      BY <3>5, <1>2, <1>9, Zenon
    <3> QED
      BY <3>4, <3>5, <3>6
  <2>6. EncodePayload(c) \in Seq(Byte) /\ 24 + Len(EncodePayload(c)) = 52
    <3>1. EncodePayload(c) = ezit
      BY <1>5, <1>10, Zenon
    <3>2. 24 + Len(ezit) = 52
      BY <2>4
    <3> QED
      BY <3>1, <3>2, <2>3, Zenon
  <2>7. ASSUME NEW input, At(input, 24, EncodePayload(c))
        PROVE  /\ input[25] = e[1] /\ input[26] = e[2]
               /\ At(input, 28, i) /\ At(input, 28 + 8, p) /\ At(input, 28 + 16, q)
    BY <2>5, <2>7, <1>5, <1>10
  <2> QED
    BY <2>6, <2>7, <1>10, <1>8, <1>3 DEF i, p, q
<1>11. CASE c.type = "Cancel"
  <2>1. EncodePayload(c) \in Seq(Byte) /\ 24 + Len(EncodePayload(c)) = 32
    <3>1. EncodePayload(c) = i
      BY <1>5, <1>11, Zenon
    <3>2. i \in Seq(Byte) /\ 24 + Len(i) = 32
      BY <1>1
    <3> QED
      BY <3>1, <3>2, Zenon
  <2>2. ASSUME NEW input, At(input, 24, EncodePayload(c)) PROVE At(input, 24, i)
    BY <2>2, <1>5, <1>11
  <2> QED
    BY <2>1, <2>2, <1>11, <1>8 DEF i
<1>12. CASE c.type = "Replace"
  <2>1. it \in Seq(Byte) /\ Len(it) = Len(i) + Len(t)
    BY <1>6, <1>1, Cat, Zenon
  <2>2. EncodePayload(c) \in Seq(Byte) /\ 24 + Len(EncodePayload(c)) = 48
    <3>1. EncodePayload(c) = it
      BY <1>5, <1>12, Zenon
    <3>2. it \in Seq(Byte) /\ 24 + Len(it) = 48
      BY <2>1, <1>1
    <3> QED
      BY <3>1, <3>2, Zenon
  <2>3. ASSUME NEW input, At(input, 24, EncodePayload(c))
        PROVE At(input, 24, i) /\ At(input, 24 + 8, p) /\ At(input, 24 + 16, q)
    <3>1. At(input, 24, it)
      BY <2>3, <1>5, <1>12
    <3>2. At(input, 24, i) /\ At(input, 24 + Len(i), t)
      BY <1>6, <3>1, <1>1, <1>9, Halves, Zenon
    <3>3. At(input, 32, t)
      BY <3>2, <1>1
    <3>4. At(input, 32, p) /\ At(input, 32 + 8, q)
      BY <3>3, <1>2, <1>9, Zenon
    <3> QED
      BY <3>2, <3>4
  <2> QED
    BY <2>2, <2>3, <1>12, <1>8 DEF i, p, q
<1> QED
  BY <1>7, <1>10, <1>11, <1>12

(* What decoding reads of a request's header and of its payload. *)
HeaderFields(input, r) ==
  /\ GetU32(input, 0) = Magic /\ input[5] = Version
  /\ input[6] = Code(MessageType, r.command.type) + 1
  /\ FrameLength(input) = RequestFrameSize(r.command.type)
  /\ Session(input) = r.session_id /\ Sequence(input) = r.client_sequence

PayloadFields(input, c) ==
  /\ c.type = "New" => input[25] = Code(Side, c.side) /\ input[26] = Code(OrderType, c.order_type)
  /\ GetU64(input, IdentityAt(c.type)) = c.order_id
  /\ c.type # "Cancel" => /\ Signed(GetU64(input, IdentityAt(c.type) + 8)) = c.price
                          /\ GetU64(input, IdentityAt(c.type) + 16) = c.quantity

(* The frame sizes fit a byte pair and lie within validate_header's bounds. *)
LEMMA FrameSizes ==
  ASSUME NEW type \in {"New", "Cancel", "Replace"}
  PROVE  /\ RequestFrameSize(type) \in 32 .. 52 /\ IdentityAt(type) \in {24, 28}
         /\ IdentityAt(type) + 8 <= RequestFrameSize(type)
         /\ type # "Cancel" => IdentityAt(type) + 24 <= RequestFrameSize(type)
         /\ RequestFrameSize(type) \in 0 .. U16 - 1
         /\ Code(MessageType, type) + 1 \in Byte
         /\ type = "New" => IdentityAt(type) = 28 /\ RequestFrameSize(type) = 52
<1>1. /\ RequestFrameSize("New") = 52 /\ RequestFrameSize("Cancel") = 32
      /\ RequestFrameSize("Replace") = 48
  BY DEF RequestFrameSize
<1>2. IdentityAt("New") = 28 /\ IdentityAt("Cancel") = 24 /\ IdentityAt("Replace") = 24
  BY DEF IdentityAt
<1>3. Code(MessageType, type) + 1 \in Byte
  BY MessageTypeCodes, Bases DEF Byte
<1> QED
  BY <1>1, <1>2, <1>3, Bases

(* encode_request writes as many bytes as the header says, the fields in place. *)
LEMMA RequestLayout ==
  ASSUME NEW r \in WireRequest
  PROVE  LET F == EncodeRequest(r)
             c == r.command IN
         /\ F \in Seq(Byte) /\ Len(F) = RequestFrameSize(c.type)
         /\ At(F, 0, PutU32(Magic)) /\ F[5] = Version /\ F[6] = Code(MessageType, c.type) + 1
         /\ At(F, 6, PutU16(RequestFrameSize(c.type))) /\ At(F, 8, PutU32(r.session_id))
         /\ At(F, 16, PutU64(r.client_sequence))
         /\ c.type = "New" => /\ F[25] = Code(Side, c.side)
                              /\ F[26] = Code(OrderType, c.order_type)
         /\ At(F, IdentityAt(c.type), PutU64(c.order_id))
         /\ c.type # "Cancel" =>
              /\ At(F, IdentityAt(c.type) + 8, PutU64(Unsigned(c.price)))
              /\ At(F, IdentityAt(c.type) + 16, PutU64(c.quantity))
<1> DEFINE c == r.command
           header == EncodeHeader(Code(MessageType, c.type) + 1, RequestFrameSize(c.type),
                                  r.session_id, r.client_sequence)
           payload == EncodePayload(c)
           F == header \o payload
<1>1. c \in WireCommand /\ c.type \in {"New", "Cancel", "Replace"}
      /\ r.session_id \in 0 .. U32 - 1 /\ r.client_sequence \in 0 .. U64 - 1
  BY Bases DEF WireRequest, WireCommand
<1>2. Code(MessageType, c.type) + 1 \in Byte /\ RequestFrameSize(c.type) \in 0 .. U16 - 1
  BY <1>1, FrameSizes
<1>3. EncodeRequest(r) = header \o payload
  BY DEF EncodeRequest
<1>4. /\ header \in Seq(Byte) /\ Len(header) = 24
      /\ \A input : At(input, 0, header) =>
           /\ At(input, 0, PutU32(Magic)) /\ input[5] = Version
           /\ input[6] = Code(MessageType, c.type) + 1
           /\ At(input, 6, PutU16(RequestFrameSize(c.type))) /\ At(input, 8, PutU32(r.session_id))
           /\ At(input, 16, PutU64(r.client_sequence))
  BY <1>1, <1>2, HeaderLayout
<1>5. /\ payload \in Seq(Byte) /\ 24 + Len(payload) = RequestFrameSize(c.type)
      /\ \A input : At(input, 24, payload) =>
           /\ c.type = "New" => /\ input[25] = Code(Side, c.side)
                                /\ input[26] = Code(OrderType, c.order_type)
           /\ At(input, IdentityAt(c.type), PutU64(c.order_id))
           /\ c.type # "Cancel" =>
                /\ At(input, IdentityAt(c.type) + 8, PutU64(Unsigned(c.price)))
                /\ At(input, IdentityAt(c.type) + 16, PutU64(c.quantity))
  BY <1>1, PayloadLayout, Zenon
<1> HIDE DEF header, payload, c
<1>6. F \in Seq(Byte) /\ Len(F) = Len(header) + Len(payload)
  BY <1>4, <1>5, Cat, Zenon
<1>7. F = header \o payload
  OBVIOUS
<1> HIDE DEF F
<1>8. At(F, 0, header) /\ At(F, 0 + Len(header), payload)
  <2>1. 0 \in Int
    OBVIOUS
  <2>2. At(F, 0, F)
    BY <1>6, AtItself
  <2> QED
    BY <2>1, <2>2, <1>4, <1>5, <1>7, Halves, Zenon
<1>9. At(F, 24, payload) /\ Len(F) = RequestFrameSize(c.type)
  BY <1>4, <1>5, <1>6, <1>8
<1> QED
  BY <1>3, <1>4, <1>5, <1>6, <1>7, <1>8, <1>9, Zenon DEF c

(* The n bytes behind the first offset ones are the same. *)
SameBytes(input, F, offset, n) == \A i \in offset + 1 .. offset + n : input[i] = F[i]

(* A field is read from any bytes that agree with the frame there. *)
LEMMA FieldU16 ==
  ASSUME NEW F, NEW input, NEW offset \in Int, NEW v \in 0 .. U16 - 1, At(F, offset, PutU16(v)),
         SameBytes(input, F, offset, 2)
  PROVE  GetU16(input, offset) = v
<1> DEFINE s == PutU16(v)
<1>1. s \in Seq(Byte) /\ Len(s) = 2 /\ (At(input, offset, s) => GetU16(input, offset) = v)
  BY RoundU16
<1>2. At(F, offset, s)
  OBVIOUS
<1> HIDE DEF s
<1>3. \A i \in offset + 1 .. offset + Len(s) : input[i] = F[i]
  BY <1>1 DEF SameBytes
<1> QED
  BY <1>1, <1>2, <1>3, AtSame, Zenon

(* Likewise a field of four bytes. *)
LEMMA FieldU32 ==
  ASSUME NEW F, NEW input, NEW offset \in Int, NEW v \in 0 .. U32 - 1, At(F, offset, PutU32(v)),
         SameBytes(input, F, offset, 4)
  PROVE  GetU32(input, offset) = v
<1> DEFINE s == PutU32(v)
<1>1. s \in Seq(Byte) /\ Len(s) = 4 /\ (At(input, offset, s) => GetU32(input, offset) = v)
  BY RoundU32
<1>2. At(F, offset, s)
  OBVIOUS
<1> HIDE DEF s
<1>3. \A i \in offset + 1 .. offset + Len(s) : input[i] = F[i]
  BY <1>1 DEF SameBytes
<1> QED
  BY <1>1, <1>2, <1>3, AtSame, Zenon

(* Likewise a field of eight. *)
LEMMA FieldU64 ==
  ASSUME NEW F, NEW input, NEW offset \in Int, NEW v \in 0 .. U64 - 1, At(F, offset, PutU64(v)),
         SameBytes(input, F, offset, 8)
  PROVE  GetU64(input, offset) = v
<1> DEFINE s == PutU64(v)
<1>1. s \in Seq(Byte) /\ Len(s) = 8 /\ (At(input, offset, s) => GetU64(input, offset) = v)
  BY RoundU64
<1>2. At(F, offset, s)
  OBVIOUS
<1> HIDE DEF s
<1>3. \A i \in offset + 1 .. offset + Len(s) : input[i] = F[i]
  BY <1>1 DEF SameBytes
<1> QED
  BY <1>1, <1>2, <1>3, AtSame, Zenon

(* What decoding reads from bytes that agree with a frame outside the reserved ones. *)
LEMMA RequestFields ==
  ASSUME NEW r \in WireRequest, NEW input, NEW m \in Nat,
         \A i \in 1 .. m : i \notin Reserved(r.command.type) => input[i] = EncodeRequest(r)[i]
  PROVE  /\ m >= 24 => HeaderFields(input, r)
         /\ m >= RequestFrameSize(r.command.type) => PayloadFields(input, r.command)
<1> DEFINE F == EncodeRequest(r)
           c == r.command
           at == IdentityAt(c.type)
           L == RequestFrameSize(c.type)
<1>1. /\ F \in Seq(Byte) /\ Len(F) = L
      /\ At(F, 0, PutU32(Magic)) /\ F[5] = Version /\ F[6] = Code(MessageType, c.type) + 1
      /\ At(F, 6, PutU16(L)) /\ At(F, 8, PutU32(r.session_id))
      /\ At(F, 16, PutU64(r.client_sequence))
      /\ c.type = "New" => F[25] = Code(Side, c.side) /\ F[26] = Code(OrderType, c.order_type)
      /\ At(F, at, PutU64(c.order_id))
      /\ c.type # "Cancel" => At(F, at + 8, PutU64(Unsigned(c.price))) /\ At(F, at + 16, PutU64(c.quantity))
  BY RequestLayout, Zenon
<1>2. /\ c \in WireCommand /\ c.type \in {"New", "Cancel", "Replace"}
      /\ r.session_id \in 0 .. U32 - 1 /\ r.client_sequence \in 0 .. U64 - 1
      /\ c.order_id \in 0 .. U64 - 1 /\ c.quantity \in 0 .. U64 - 1
      /\ c.price \in -(U64 \div 2) .. U64 \div 2 - 1
  BY Bases DEF WireRequest, WireCommand
<1>3. Unsigned(c.price) \in 0 .. U64 - 1 /\ Signed(Unsigned(c.price)) = c.price
  BY <1>2, RoundSigned
<1>4. /\ L \in 32 .. 52 /\ at \in {24, 28} /\ at + 8 <= L /\ (c.type # "Cancel" => at + 24 <= L)
      /\ (c.type = "New" => at = 28 /\ L = 52) /\ L \in 0 .. U16 - 1
  BY <1>2, FrameSizes
<1>5. Reserved(c.type) \subseteq 13 .. 16 \cup (IF c.type = "New" THEN 27 .. 28 ELSE {})
  BY DEF Reserved
<1>6. \A i \in 1 .. m : i \notin Reserved(c.type) => input[i] = F[i]
  OBVIOUS
<1>7. Magic \in 0 .. U32 - 1
  BY ProtocolAssumption
<1> HIDE DEF F, c, at, L
<1>9. ASSUME m >= 24
      PROVE  HeaderFields(input, r)
  <2>1. \A i \in 1 .. 12 \cup 17 .. 24 : input[i] = F[i]
    BY <1>9, <1>5, <1>6, <1>4
  <2>2. /\ SameBytes(input, F, 0, 4)
        /\ SameBytes(input, F, 6, 2)
        /\ SameBytes(input, F, 8, 4)
        /\ SameBytes(input, F, 16, 8)
        /\ 0 \in Int /\ 6 \in Int /\ 8 \in Int /\ 16 \in Int
    BY <2>1 DEF SameBytes
  <2>6. input[5] = Version /\ input[6] = Code(MessageType, c.type) + 1
    BY <2>1, <1>1, SMTT(30)
  <2>7. GetU32(input, 0) = Magic
    BY <2>2, <1>1, <1>7, FieldU32, Zenon
  <2>8. GetU16(input, 6) = L
    <3>1. L \in 0 .. U16 - 1 /\ At(F, 6, PutU16(L))
      BY <1>1, <1>4
    <3> QED
      BY <3>1, <2>2, FieldU16, Zenon
  <2>9. GetU32(input, 8) = r.session_id
    BY <2>2, <1>1, <1>2, FieldU32, Zenon
  <2>10. GetU64(input, 16) = r.client_sequence
    BY <2>2, <1>1, <1>2, FieldU64, Zenon
  <2> QED
    BY <2>6, <2>7, <2>8, <2>9, <2>10, Zenon DEF HeaderFields, FrameLength, Session, Sequence, c, L
<1>10. ASSUME m >= L
       PROVE  PayloadFields(input, c)
  <2>1. \A i \in at + 1 .. L : input[i] = F[i]
    BY <1>10, <1>5, <1>6, <1>4
  <2>2. GetU64(input, at) = c.order_id
    <3>1. at \in Int /\ SameBytes(input, F, at, 8)
      BY <2>1, <1>4 DEF SameBytes
    <3> QED BY <3>1, <1>1, <1>2, FieldU64, Zenon
  <2>3. ASSUME c.type # "Cancel"
        PROVE  Signed(GetU64(input, at + 8)) = c.price /\ GetU64(input, at + 16) = c.quantity
    <3>1. at + 8 \in Int /\ SameBytes(input, F, at + 8, 8)
      BY <2>1, <2>3, <1>4 DEF SameBytes
    <3>2. at + 16 \in Int /\ SameBytes(input, F, at + 16, 8)
      BY <2>1, <2>3, <1>4 DEF SameBytes
    <3>5. GetU64(input, at + 8) = Unsigned(c.price)
      BY <3>1, <2>3, <1>1, <1>3, FieldU64, Zenon
    <3>6. GetU64(input, at + 16) = c.quantity
      BY <3>2, <2>3, <1>1, <1>2, FieldU64, Zenon
    <3> QED BY <3>5, <3>6, <1>3
  <2>4. ASSUME c.type = "New"
        PROVE  input[25] = Code(Side, c.side) /\ input[26] = Code(OrderType, c.order_type)
    <3>1. 25 \in 1 .. m /\ 26 \in 1 .. m /\ 25 \notin Reserved(c.type) /\ 26 \notin Reserved(c.type)
      BY <2>4, <1>4, <1>5, <1>10
    <3> QED BY <3>1, <2>4, <1>1, <1>6, Zenon
  <2> QED
    BY <2>2, <2>3, <2>4, Zenon DEF PayloadFields, at
<1> QED
  BY <1>9, <1>10 DEF c, L

-----------------------------------------------------------------------------
(* Decoding. *)

(* validate_header accepts an intact header and waits for its whole frame. *)
LEMMA HeaderStatusIntact ==
  ASSUME NEW r \in WireRequest, NEW input, Len(input) \in Nat,
         Len(input) >= 24 => HeaderFields(input, r)
  PROVE  HeaderStatus(input) =
           IF Len(input) < RequestFrameSize(r.command.type) THEN "NeedMoreData" ELSE "Ok"
<1> DEFINE L == RequestFrameSize(r.command.type)
<1>1. L \in 32 .. 52
  BY FrameSizes DEF WireRequest, WireCommand
<1>2. CASE Len(input) < 24
  BY <1>1, <1>2 DEF HeaderStatus, HeaderSize
<1>3. CASE Len(input) >= 24
  <2>1. GetU32(input, 0) = Magic /\ input[5] = Version /\ GetU16(input, 6) = L
    BY <1>3 DEF HeaderFields, FrameLength
  <2>2. L \in HeaderSize .. MaximumFrameSize /\ ~(Len(input) < HeaderSize)
    BY <1>1, <1>3 DEF HeaderSize, MaximumFrameSize
  <2> HIDE DEF L
  <2>3. HeaderStatus(input) = IF Len(input) < L THEN "NeedMoreData" ELSE "Ok"
    BY <2>1, <2>2 DEF HeaderStatus
  <2> QED
    BY <2>3 DEF L
<1> QED
  BY <1>2, <1>3

(* The fields decoding yields, the ones that are not carried at their defaults. *)
LEMMA CarriedFields ==
  ASSUME NEW r \in WireRequest
  PROVE  Carried(r) =
    [session_id |-> r.session_id, client_sequence |-> r.client_sequence,
     command |->
       [type |-> r.command.type, sequence |-> 0,
        side |-> IF r.command.type = "New" THEN r.command.side ELSE "Buy",
        order_type |-> IF r.command.type = "New" THEN r.command.order_type ELSE "Limit",
        order_id |-> r.command.order_id,
        price |-> IF r.command.type = "Cancel" THEN 0 ELSE r.command.price,
        quantity |-> IF r.command.type = "Cancel" THEN 0 ELSE r.command.quantity]]
<1>1. DOMAIN r = {"session_id", "client_sequence", "command"}
      /\ r = [session_id |-> r.session_id, client_sequence |-> r.client_sequence, command |-> r.command]
  BY DEF WireRequest
<1> QED
  BY <1>1 DEF Carried

(* As far as it goes, the input is the request's frame, but for reserved bytes. *)
Intact(input, r) ==
  \A i \in 1 .. Len(input) :
    i <= RequestFrameSize(r.command.type) /\ i \notin Reserved(r.command.type)
      => input[i] = EncodeRequest(r)[i]

(* How much of a frame of l bytes is in a buffer of n. *)
LEMMA Lesser ==
  ASSUME NEW n \in Nat, NEW l \in 32 .. 52, NEW m, m = IF n < l THEN n ELSE l
  PROVE  /\ m \in Nat /\ (n >= 24 => m >= 24) /\ (n < l => ~(n >= l))
         /\ (n >= l => m >= 24 /\ m >= l /\ ~(n < l)) /\ (n < l \/ n >= l)
         /\ m <= l /\ \A i \in 1 .. m : i \in 1 .. n /\ i <= l
OBVIOUS

(* Where two buffers hold a frame of l bytes. *)
LEMMA Covered ==
  ASSUME NEW l \in 32 .. 52, NEW n \in Nat, NEW m \in Nat, ~(n < l), ~(m < l)
  PROVE  l \in Nat /\ 25 \in 1 .. l /\ 26 \in 1 .. l /\ \A i \in 1 .. l : i \in 1 .. n /\ i <= m
OBVIOUS

(* decode_request waits for the whole frame and then yields what it carries. *)
LEMMA DecodesIntact ==
  ASSUME NEW r \in WireRequest, NEW input, Len(input) \in Nat, Intact(input, r)
  PROVE  /\ RequestStatus(input) =
              IF Len(input) < RequestFrameSize(r.command.type) THEN "NeedMoreData" ELSE "Ok"
         /\ Len(input) >= RequestFrameSize(r.command.type) =>
              /\ FrameLength(input) = RequestFrameSize(r.command.type)
              /\ DecodedRequest(input) = Carried(r)
<1> DEFINE c == r.command
           L == RequestFrameSize(c.type)
           n == Len(input)
           m == IF n < L THEN n ELSE L
<1>0. c \in WireCommand /\ c.type \in {"New", "Cancel", "Replace"}
  BY DEF WireRequest, WireCommand
<1>1. L \in 32 .. 52 /\ IdentityAt(c.type) = 24 + (IF c.type = "New" THEN 4 ELSE 0)
  <2>1. L \in 32 .. 52
    BY <1>0, FrameSizes, Zenon
  <2>2. IdentityAt(c.type) = 24 + (IF c.type = "New" THEN 4 ELSE 0)
    BY DEF IdentityAt
  <2> QED
    BY <2>1, <2>2
<1>2. /\ m \in Nat /\ (n >= 24 => m >= 24) /\ (n < L => ~(n >= L))
      /\ (n >= L => m >= 24 /\ m >= L /\ ~(n < L)) /\ (n < L \/ n >= L)
      /\ m <= L /\ \A i \in 1 .. m : i \in 1 .. n /\ i <= L
  <2>1. n \in Nat /\ L \in 32 .. 52 /\ m = IF n < L THEN n ELSE L
    BY <1>1, Zenon
  <2> HIDE DEF m, n, L
  <2> QED
    BY <2>1, Lesser, ZenonT(30)
<1>3. /\ m >= 24 => HeaderFields(input, r)
      /\ m >= L => PayloadFields(input, c)
  <2>1. ASSUME NEW i \in 1 .. m, i \notin Reserved(c.type) PROVE input[i] = EncodeRequest(r)[i]
    <3>1. i \in 1 .. n /\ i <= L
      BY <1>2, Zenon
    <3> QED
      BY <3>1, <2>1, Zenon DEF Intact
  <2> QED
    BY <2>1, <1>2, RequestFields
<1>4. HeaderStatus(input) = IF n < L THEN "NeedMoreData" ELSE "Ok"
  <2>1. Len(input) >= 24 => HeaderFields(input, r)
    BY <1>2, <1>3, Zenon
  <2> QED
    BY <2>1, HeaderStatusIntact, Zenon
<1>5. CASE n < L
  <2>1. HeaderStatus(input) = "NeedMoreData"
    BY <1>4, <1>5
  <2>2. RequestStatus(input) = "NeedMoreData"
    BY <2>1 DEF RequestStatus
  <2> QED
    <3>1. ~(n >= L)
      BY <1>2, <1>5, Zenon
    <3> QED
      BY <3>1, <2>2, <1>5, Zenon
<1>6. CASE n >= L
  <2>1. HeaderFields(input, r) /\ PayloadFields(input, c) /\ HeaderStatus(input) = "Ok"
    <3>1. m >= 24 /\ m >= L /\ ~(n < L)
      BY <1>2, <1>6, Zenon
    <3> QED
      BY <3>1, <1>3, <1>4, Zenon
  <2>2. /\ input[6] = Code(MessageType, c.type) + 1 /\ FrameLength(input) = L
        /\ Session(input) = r.session_id /\ Sequence(input) = r.client_sequence
    BY <2>1 DEF HeaderFields
  <2>3. input[6] \in DOMAIN MessageType /\ Name(MessageType, input[6] - 1) = c.type
    BY <2>2, <1>0, MessageTypeCodes
  <2>4. r.session_id # 0 /\ r.client_sequence # 0 /\ c.order_id # 0
    BY Bases DEF WireRequest, WireCommand
  <2>5. c.type = "New" => /\ ValidCode(Side, input[25]) /\ ValidCode(OrderType, input[26])
                          /\ Name(Side, input[25]) = c.side
                          /\ Name(OrderType, input[26]) = c.order_type
    <3> SUFFICES ASSUME c.type = "New"
                 PROVE  /\ ValidCode(Side, input[25]) /\ ValidCode(OrderType, input[26])
                        /\ Name(Side, input[25]) = c.side
                        /\ Name(OrderType, input[26]) = c.order_type
      OBVIOUS
    <3>1. input[25] = Code(Side, c.side) /\ input[26] = Code(OrderType, c.order_type)
      BY <2>1 DEF PayloadFields
    <3>2. c.side \in {"Buy", "Sell"}
          /\ c.order_type \in {"Limit", "Market", "ImmediateOrCancel", "FillOrKill"}
      BY DEF WireRequest, WireCommand
    <3>3. Len(Side) = 2 /\ Len(OrderType) = 4
      BY DEF Side, OrderType
    <3> QED
      BY <3>1, <3>2, <3>3, SideCodes, OrderTypeCodes DEF ValidCode
  <2>6. /\ GetU64(input, IdentityAt(c.type)) = c.order_id
        /\ c.type # "Cancel" => /\ Signed(GetU64(input, IdentityAt(c.type) + 8)) = c.price
                                /\ GetU64(input, IdentityAt(c.type) + 16) = c.quantity
    BY <2>1 DEF PayloadFields
  <2>7. /\ HeaderSize + 1 = 25 /\ HeaderSize + 2 = 26
        /\ HeaderSize + (IF c.type = "New" THEN 4 ELSE 0) = IdentityAt(c.type)
    BY <1>1 DEF HeaderSize
  <2>8. RequestStatus(input) = "Ok"
    BY <2>1, <2>2, <2>3, <2>4, <2>5, <2>6, <2>7 DEF RequestStatus
  <2>9. Payload(input) =
          [type |-> c.type, sequence |-> 0,
           side |-> IF c.type = "New" THEN c.side ELSE "Buy",
           order_type |-> IF c.type = "New" THEN c.order_type ELSE "Limit",
           order_id |-> c.order_id,
           price |-> IF c.type = "Cancel" THEN 0 ELSE c.price,
           quantity |-> IF c.type = "Cancel" THEN 0 ELSE c.quantity]
    BY <2>3, <2>5, <2>6, <2>7 DEF Payload
  <2>10. DecodedRequest(input) = Carried(r)
    BY <2>2, <2>9, CarriedFields DEF DecodedRequest
  <2>11. ~(n < L)
    BY <1>2, <1>6, Zenon
  <2> QED
    BY <2>2, <2>8, <2>10, <2>11, Zenon
<1> QED
  BY <1>2, <1>5, <1>6, Zenon

(* The fields two inputs share. *)
LEMMA SharedFields ==
  ASSUME NEW input, NEW bytes, NEW n \in Nat, \A i \in 1 .. n : input[i] = bytes[i]
  PROVE  /\ \A o \in Nat : o + 2 <= n => GetU16(input, o) = GetU16(bytes, o)
         /\ \A o \in Nat : o + 4 <= n => GetU32(input, o) = GetU32(bytes, o)
         /\ \A o \in Nat : o + 8 <= n => GetU64(input, o) = GetU64(bytes, o)
<1>1. ASSUME NEW o \in Nat, o + 2 <= n PROVE GetU16(input, o) = GetU16(bytes, o)
  <2>1. input[o + 1] = bytes[o + 1] /\ input[o + 2] = bytes[o + 2]
    BY <1>1
  <2> QED
    BY <2>1 DEF GetU16
<1>2. ASSUME NEW o \in Nat, o + 4 <= n PROVE GetU32(input, o) = GetU32(bytes, o)
  <2>1. GetU16(input, o) = GetU16(bytes, o) /\ GetU16(input, o + 2) = GetU16(bytes, o + 2)
    BY <1>1, <1>2
  <2> QED
    BY <2>1 DEF GetU32
<1>3. ASSUME NEW o \in Nat, o + 8 <= n PROVE GetU64(input, o) = GetU64(bytes, o)
  <2>1. GetU32(input, o) = GetU32(bytes, o) /\ GetU32(input, o + 4) = GetU32(bytes, o + 4)
    BY <1>2, <1>3
  <2> QED
    BY <2>1 DEF GetU64
<1> QED
  BY <1>1, <1>2, <1>3

(* As far as it goes, the input is these bytes. *)
BeginsWith(input, bytes) == \A i \in 1 .. Len(input) : i <= Len(bytes) => input[i] = bytes[i]

(* decode_request never accepts a malformed frame, whatever follows it. *)
LEMMA RefusesMalformed ==
  ASSUME NEW bytes \in Seq(Byte), Len(bytes) >= 24, Malformed(bytes),
         NEW input, Len(input) \in Nat, BeginsWith(input, bytes)
  PROVE  RequestStatus(input) # "Ok"
<1> SUFFICES ASSUME RequestStatus(input) = "Ok" PROVE FALSE
  OBVIOUS
<1> DEFINE type == Name(MessageType, input[6] - 1)
           at == HeaderSize + (IF type = "New" THEN 4 ELSE 0)
<1>0. Len(bytes) \in Nat
  BY LenProperties
<1>1. HeaderStatus(input) = "Ok" /\ input[6] \in DOMAIN MessageType
  BY DEF RequestStatus
<1>2. /\ FrameLength(input) = RequestFrameSize(type) /\ Session(input) # 0 /\ Sequence(input) # 0
      /\ type = "New" => ValidCode(Side, input[HeaderSize + 1]) /\ ValidCode(OrderType, input[HeaderSize + 2])
      /\ GetU64(input, at) # 0
  BY <1>1 DEF RequestStatus
<1>3. /\ ~(Len(input) < HeaderSize) /\ GetU32(input, 0) = Magic /\ input[5] = Version
      /\ FrameLength(input) \in HeaderSize .. MaximumFrameSize /\ ~(Len(input) < FrameLength(input))
  BY <1>1 DEF HeaderStatus, FrameLength
<1>4. type \in {"New", "Cancel", "Replace"}
  <2>1. input[6] \in 1 .. 3 /\ MessageType[1] = "New" /\ MessageType[2] = "Cancel" /\ MessageType[3] = "Replace"
    BY <1>1, MessageTypeCodes DEF MessageType
  <2> QED
    BY <2>1 DEF Name
<1>5. \A i \in 1 .. 24 : input[i] = bytes[i]
  <2>1. \A i \in 1 .. 24 : i \in 1 .. Len(input) /\ i <= Len(bytes)
    BY <1>0, <1>3 DEF HeaderSize
  <2> QED
    BY <2>1, Zenon DEF BeginsWith
<1>6. /\ GetU32(bytes, 0) = Magic /\ bytes[5] = Version /\ bytes[6] = input[6]
      /\ FrameLength(bytes) = FrameLength(input) /\ Session(bytes) = Session(input)
      /\ Sequence(bytes) = Sequence(input)
  <2>1. 24 \in Nat
    OBVIOUS
  <2>2. /\ \A o \in Nat : o + 2 <= 24 => GetU16(input, o) = GetU16(bytes, o)
        /\ \A o \in Nat : o + 4 <= 24 => GetU32(input, o) = GetU32(bytes, o)
        /\ \A o \in Nat : o + 8 <= 24 => GetU64(input, o) = GetU64(bytes, o)
    BY <2>1, <1>5, SharedFields, Zenon
  <2>3. /\ GetU16(input, 6) = GetU16(bytes, 6) /\ GetU32(input, 0) = GetU32(bytes, 0)
        /\ GetU32(input, 8) = GetU32(bytes, 8) /\ GetU64(input, 16) = GetU64(bytes, 16)
    BY <2>2
  <2>4. input[5] = bytes[5] /\ input[6] = bytes[6]
    BY <1>5
  <2> QED
    BY <2>3, <2>4, <1>3, Zenon DEF FrameLength, Session, Sequence
<1>7. CASE Len(bytes) < FrameLength(bytes)
  <2>1. HeaderStatus(bytes) = "NeedMoreData"
    BY <1>0, <1>3, <1>6, <1>7 DEF HeaderStatus, HeaderSize, FrameLength
  <2>2. RequestStatus(bytes) = "NeedMoreData"
    BY <2>1 DEF RequestStatus
  <2> QED
    BY <2>2, <1>1, <1>2, <1>6 DEF Malformed
<1>8. CASE ~(Len(bytes) < FrameLength(bytes))
  <2>1. HeaderStatus(bytes) = "Ok"
    BY <1>0, <1>3, <1>6, <1>8 DEF HeaderStatus, HeaderSize, FrameLength
  <2>2a. FrameLength(input) \in 32 .. 52
    BY <1>2, <1>4, FrameSizes, ZenonT(30)
  <2>2. FrameLength(input) \in 32 .. 52 /\ at + 8 <= FrameLength(input) /\ at \in Nat
    <3>1. /\ RequestFrameSize("New") = 52 /\ RequestFrameSize("Cancel") = 32
          /\ RequestFrameSize("Replace") = 48
      BY DEF RequestFrameSize
    <3>2. FrameLength(input) = RequestFrameSize(type)
      BY <1>2
    <3> HIDE DEF type
    <3> QED
      BY <3>1, <3>2, <1>4 DEF HeaderSize
  <2>3. FrameLength(input) \in Nat /\ \A i \in 1 .. FrameLength(input) : input[i] = bytes[i]
    <3> DEFINE n == FrameLength(input)
    <3>1. n \in 32 .. 52 /\ ~(Len(input) < n) /\ ~(Len(bytes) < n)
      BY <2>2a, <1>3, <1>6, <1>8, Zenon
    <3>2. n \in Nat /\ \A i \in 1 .. n : i \in 1 .. Len(input) /\ i <= Len(bytes)
      BY <3>1, <1>0, Covered, Zenon
    <3> QED
      BY <3>2, Zenon DEF BeginsWith, n
  <2>4. GetU64(bytes, at) = GetU64(input, at)
    <3> DEFINE n == FrameLength(input)
    <3>1. n \in Nat /\ \A i \in 1 .. n : input[i] = bytes[i]
      BY <2>3, Zenon
    <3> HIDE DEF n
    <3>2. \A o \in Nat : o + 8 <= n => GetU64(input, o) = GetU64(bytes, o)
      BY <3>1, SharedFields, Zenon
    <3> QED
      <4>1. at \in Nat /\ at + 8 <= n
        BY <2>2 DEF n
      <4> HIDE DEF at
      <4> QED
        BY <3>2, <4>1
  <2>5. bytes[HeaderSize + 1] = input[HeaderSize + 1] /\ bytes[HeaderSize + 2] = input[HeaderSize + 2]
    <3>1. HeaderSize + 1 \in 1 .. FrameLength(input) /\ HeaderSize + 2 \in 1 .. FrameLength(input)
      <4>1. HeaderSize + 1 = 25 /\ HeaderSize + 2 = 26
        BY DEF HeaderSize
      <4>2. ~(Len(input) < FrameLength(input)) /\ ~(Len(bytes) < FrameLength(input))
        BY <1>3, <1>6, <1>8, Zenon
      <4>3. 25 \in 1 .. FrameLength(input) /\ 26 \in 1 .. FrameLength(input)
        BY <4>2, <2>2a, <1>0, Covered, Zenon
      <4> QED
        BY <4>1, <4>3, Zenon
    <3> QED
      BY <3>1, <2>3, Zenon
  <2>6. RequestStatus(bytes) = "Ok"
    BY <2>1, <2>4, <2>5, <1>1, <1>2, <1>6 DEF RequestStatus
  <2> QED
    BY <2>6 DEF Malformed
<1> QED
  BY <1>7, <1>8

(* The responses the gateway queues. *)
WireEvent ==
  [type : EventTypes, aggressor_side : {"Buy", "Sell"}, reason : Rejections, sequence : 0 .. U64 - 1,
   order_id : 0 .. U64 - 1, contra_order_id : 0 .. U64 - 1,
   price : -(U64 \div 2) .. U64 \div 2 - 1, quantity : 0 .. U64 - 1]
WireResponse == [session_id : 1 .. U32 - 1, client_sequence : 1 .. U64 - 1, event : WireEvent]

(* encode_response writes 68 bytes, the fields at the code's offsets. *)
LEMMA ResponseLayout ==
  ASSUME NEW r \in WireResponse
  PROVE  LET E == EncodeResponse(r)
             e == r.event IN
         /\ E \in Seq(Byte) /\ Len(E) = 68
         /\ At(E, 0, PutU32(Magic)) /\ At(E, 6, PutU16(68)) /\ At(E, 8, PutU32(r.session_id))
         /\ At(E, 16, PutU64(r.client_sequence))
         /\ E[25] = Code(EventType, e.type) /\ E[26] = Code(Side, e.aggressor_side)
         /\ E[27] = Code(RejectReason, e.reason)
         /\ At(E, 28, PutU64(e.order_id)) /\ At(E, 36, PutU64(e.contra_order_id))
         /\ At(E, 44, PutU64(Unsigned(e.price))) /\ At(E, 52, PutU64(e.quantity))
         /\ At(E, 60, PutU64(e.sequence))
<1> DEFINE e == r.event
           h == EncodeHeader(ExecutionEvent, ResponseFrameSize, r.session_id, r.client_sequence)
           k == <<Code(EventType, e.type), Code(Side, e.aggressor_side), Code(RejectReason, e.reason), 0>>
           p1 == PutU64(e.order_id)
           p2 == PutU64(e.contra_order_id)
           p3 == PutU64(Unsigned(e.price))
           p4 == PutU64(e.quantity)
           p5 == PutU64(e.sequence)
           s0 == h \o k
           s1 == s0 \o p1
           s2 == s1 \o p2
           s3 == s2 \o p3
           s4 == s3 \o p4
           s5 == s4 \o p5
<1>1. /\ e \in WireEvent /\ r.session_id \in 0 .. U32 - 1 /\ r.client_sequence \in 0 .. U64 - 1
      /\ ExecutionEvent \in Byte /\ ResponseFrameSize = 68 /\ 68 \in 0 .. U16 - 1
  BY Bases, ProtocolAssumption DEF WireResponse, Byte, ResponseFrameSize
<1>2. /\ e.order_id \in 0 .. U64 - 1 /\ e.contra_order_id \in 0 .. U64 - 1
      /\ e.quantity \in 0 .. U64 - 1 /\ e.sequence \in 0 .. U64 - 1
      /\ e.price \in -(U64 \div 2) .. U64 \div 2 - 1
      /\ e.type \in EventTypes /\ e.aggressor_side \in {"Buy", "Sell"} /\ e.reason \in Rejections
  BY <1>1 DEF WireEvent
<1>3. Unsigned(e.price) \in 0 .. U64 - 1
  BY <1>2, RoundSigned
<1>4. /\ h \in Seq(Byte) /\ Len(h) = 24
      /\ \A input : At(input, 0, h) =>
           /\ At(input, 0, PutU32(Magic)) /\ At(input, 6, PutU16(ResponseFrameSize))
           /\ At(input, 8, PutU32(r.session_id)) /\ At(input, 16, PutU64(r.client_sequence))
  <2>1. ResponseFrameSize \in 0 .. U16 - 1
    BY <1>1
  <2> QED
    BY <2>1, <1>1, HeaderLayout
<1>5. /\ k \in Seq(Byte) /\ Len(k) = 4 /\ k[1] = Code(EventType, e.type)
      /\ k[2] = Code(Side, e.aggressor_side) /\ k[3] = Code(RejectReason, e.reason)
  <2>1. Code(EventType, e.type) \in Byte
    BY <1>2, EventTypeCodes, Bases DEF Byte
  <2>2. Code(Side, e.aggressor_side) \in Byte
    BY <1>2, SideCodes, Bases DEF Byte
  <2>3. Code(RejectReason, e.reason) \in Byte
    BY <1>2, RejectReasonCodes, Bases DEF Byte
  <2>4. 0 \in Byte
    BY Bases DEF Byte
  <2> QED
    BY <2>1, <2>2, <2>3, <2>4
<1>6. /\ p1 \in Seq(Byte) /\ Len(p1) = 8 /\ p2 \in Seq(Byte) /\ Len(p2) = 8
      /\ p4 \in Seq(Byte) /\ Len(p4) = 8 /\ p5 \in Seq(Byte) /\ Len(p5) = 8
  BY <1>2, RoundU64
<1>7. p3 \in Seq(Byte) /\ Len(p3) = 8
  BY <1>3, RoundU64
<1>8. EncodeResponse(r) = s5
  BY DEF EncodeResponse
<1>9. /\ s0 = h \o k /\ s1 = s0 \o p1 /\ s2 = s1 \o p2 /\ s3 = s2 \o p3
      /\ s4 = s3 \o p4 /\ s5 = s4 \o p5
  OBVIOUS
<1> HIDE DEF h, k, p1, p2, p3, p4, p5, s0, s1, s2, s3, s4, s5
<1>10. s0 \in Seq(Byte) /\ Len(s0) = Len(h) + Len(k)
  BY <1>9, <1>4, <1>5, Cat, Zenon
<1>11. s1 \in Seq(Byte) /\ Len(s1) = Len(s0) + Len(p1)
  BY <1>9, <1>10, <1>6, Cat, Zenon
<1>12. s2 \in Seq(Byte) /\ Len(s2) = Len(s1) + Len(p2)
  BY <1>9, <1>11, <1>6, Cat, Zenon
<1>13. s3 \in Seq(Byte) /\ Len(s3) = Len(s2) + Len(p3)
  BY <1>9, <1>12, <1>7, Cat, Zenon
<1>14. s4 \in Seq(Byte) /\ Len(s4) = Len(s3) + Len(p4)
  BY <1>9, <1>13, <1>6, Cat, Zenon
<1>15. s5 \in Seq(Byte) /\ Len(s5) = Len(s4) + Len(p5)
  BY <1>9, <1>14, <1>6, Cat, Zenon
<1>16. Len(s0) = 28 /\ Len(s1) = 36 /\ Len(s2) = 44 /\ Len(s3) = 52 /\ Len(s4) = 60 /\ Len(s5) = 68
  <2>1. Len(h) = 24 /\ Len(k) = 4 /\ Len(p1) = 8 /\ Len(p2) = 8 /\ Len(p3) = 8 /\ Len(p4) = 8 /\ Len(p5) = 8
    BY <1>4, <1>5, <1>6, <1>7, Zenon
  <2> QED
    BY <2>1, <1>10, <1>11, <1>12, <1>13, <1>14, <1>15
<1>17. At(s5, 0, s5) /\ 0 \in Int
  BY <1>15, AtItself
<1>18. At(s5, 0, s4) /\ At(s5, 0 + Len(s4), p5)
  BY <1>17, <1>9, <1>14, <1>6, Halves, Zenon
<1>19. At(s5, 0, s3) /\ At(s5, 0 + Len(s3), p4)
  BY <1>18, <1>17, <1>9, <1>13, <1>6, Halves, Zenon
<1>20. At(s5, 0, s2) /\ At(s5, 0 + Len(s2), p3)
  BY <1>19, <1>17, <1>9, <1>12, <1>7, Halves, Zenon
<1>21. At(s5, 0, s1) /\ At(s5, 0 + Len(s1), p2)
  BY <1>20, <1>17, <1>9, <1>11, <1>6, Halves, Zenon
<1>22. At(s5, 0, s0) /\ At(s5, 0 + Len(s0), p1)
  BY <1>21, <1>17, <1>9, <1>10, <1>6, Halves, Zenon
<1>23. At(s5, 0, h) /\ At(s5, 0 + Len(h), k)
  BY <1>22, <1>17, <1>9, <1>4, <1>5, Halves, Zenon
<1>24. s5[24 + 1] = k[1] /\ s5[24 + 2] = k[2] /\ s5[24 + 3] = k[3]
  <2>1. 0 + Len(h) = 24
    BY <1>4
  <2>2. At(s5, 24, k)
    BY <2>1, <1>23, Zenon
  <2> QED
    BY <2>2, <1>5 DEF At
<1>25. s5[25] = k[1] /\ s5[26] = k[2] /\ s5[27] = k[3]
  BY <1>24
<1>26. /\ At(s5, 28, p1) /\ At(s5, 36, p2) /\ At(s5, 44, p3) /\ At(s5, 52, p4) /\ At(s5, 60, p5)
  BY <1>16, <1>18, <1>19, <1>20, <1>21, <1>22
<1>27. At(s5, 6, PutU16(68))
  BY <1>4, <1>23, <1>1
<1> QED
  BY <1>8, <1>15, <1>16, <1>23, <1>4, <1>27, <1>25, <1>5, <1>26, Zenon DEF p1, p2, p3, p4, p5

(* decode_response yields the response that was encoded. *)
LEMMA DecodesResponse ==
  ASSUME NEW r \in WireResponse, NEW input, Len(input) \in Nat,
         \A i \in 1 .. Len(input) : i <= 68 => input[i] = EncodeResponse(r)[i],
         ResponseStatus(input) = "Ok"
  PROVE  Len(input) >= 68 /\ FrameLength(input) = 68 /\ DecodedResponse(input) = r
<1> DEFINE E == EncodeResponse(r)
           e == r.event
<1>1. /\ At(E, 0, PutU32(Magic)) /\ At(E, 6, PutU16(68)) /\ At(E, 8, PutU32(r.session_id))
      /\ At(E, 16, PutU64(r.client_sequence))
      /\ E[25] = Code(EventType, e.type) /\ E[26] = Code(Side, e.aggressor_side)
      /\ E[27] = Code(RejectReason, e.reason)
      /\ At(E, 28, PutU64(e.order_id)) /\ At(E, 36, PutU64(e.contra_order_id))
      /\ At(E, 44, PutU64(Unsigned(e.price))) /\ At(E, 52, PutU64(e.quantity))
      /\ At(E, 60, PutU64(e.sequence))
  BY ResponseLayout, Zenon
<1>2. /\ e \in WireEvent /\ r.session_id \in 0 .. U32 - 1 /\ r.client_sequence \in 0 .. U64 - 1
      /\ 68 \in 0 .. U16 - 1
  BY Bases DEF WireResponse
<1>3. /\ e.order_id \in 0 .. U64 - 1 /\ e.contra_order_id \in 0 .. U64 - 1
      /\ e.quantity \in 0 .. U64 - 1 /\ e.sequence \in 0 .. U64 - 1
      /\ e.price \in -(U64 \div 2) .. U64 \div 2 - 1
      /\ e.type \in EventTypes /\ e.aggressor_side \in {"Buy", "Sell"} /\ e.reason \in Rejections
  BY <1>2 DEF WireEvent
<1>4. Unsigned(e.price) \in 0 .. U64 - 1 /\ Signed(Unsigned(e.price)) = e.price
  BY <1>3, RoundSigned
<1>5. HeaderStatus(input) = "Ok"
  BY DEF ResponseStatus
<1>6. Len(input) >= 24 /\ Len(input) >= FrameLength(input) /\ FrameLength(input) \in 24 .. 80
  <2>1. /\ ~(Len(input) < HeaderSize) /\ ~(Len(input) < FrameLength(input))
        /\ FrameLength(input) \in HeaderSize .. MaximumFrameSize
    BY <1>5 DEF HeaderStatus, FrameLength
  <2>2. HeaderSize = 24 /\ MaximumFrameSize = 80
    BY DEF HeaderSize, MaximumFrameSize
  <2>3. ~(Len(input) < 24) /\ ~(Len(input) < FrameLength(input)) /\ FrameLength(input) \in 24 .. 80
    BY <2>1, <2>2, Zenon
  <2>4. Len(input) >= 24
    BY <2>3
  <2>5. Len(input) >= FrameLength(input)
    <3>1. PICK n \in 24 .. 80 : n = FrameLength(input)
      BY <2>3
    <3>2. ~(Len(input) < n)
      BY <3>1, <2>3, Zenon
    <3>3. Len(input) >= n
      BY <3>2
    <3> QED
      BY <3>1, <3>3, Zenon
  <2> QED
    BY <2>3, <2>4, <2>5
<1>7. \A i \in 1 .. Len(input) : i <= 68 => input[i] = E[i]
  OBVIOUS
<1> HIDE DEF E, e
<1>8. FrameLength(input) = 68
  <2>1. SameBytes(input, E, 6, 2) /\ 6 \in Int
    BY <1>6, <1>7 DEF SameBytes
  <2> QED
    BY <2>1, <1>1, <1>2, FieldU16, ZenonT(30) DEF FrameLength
<1>9. Len(input) >= 68
  BY <1>6, <1>8
<1>10. \A i \in 1 .. 68 : input[i] = E[i]
  BY <1>7, <1>9
<1>11. /\ SameBytes(input, E, 8, 4) /\ SameBytes(input, E, 16, 8)
       /\ SameBytes(input, E, 28, 8) /\ SameBytes(input, E, 36, 8) /\ SameBytes(input, E, 44, 8)
       /\ SameBytes(input, E, 52, 8) /\ SameBytes(input, E, 60, 8)
       /\ 8 \in Int /\ 16 \in Int /\ 28 \in Int /\ 36 \in Int /\ 44 \in Int /\ 52 \in Int /\ 60 \in Int
  BY <1>10 DEF SameBytes
<1>12. Session(input) = r.session_id
  BY <1>11, <1>1, <1>2, FieldU32, ZenonT(30) DEF Session
<1>13. Sequence(input) = r.client_sequence
  BY <1>11, <1>1, <1>2, FieldU64, ZenonT(30) DEF Sequence
<1>14. /\ GetU64(input, 28) = e.order_id /\ GetU64(input, 36) = e.contra_order_id
       /\ GetU64(input, 52) = e.quantity /\ GetU64(input, 60) = e.sequence
  <2>1. GetU64(input, 28) = e.order_id
    BY <1>11, <1>1, <1>3, FieldU64, Zenon
  <2>2. GetU64(input, 36) = e.contra_order_id
    BY <1>11, <1>1, <1>3, FieldU64, Zenon
  <2>3. GetU64(input, 52) = e.quantity
    BY <1>11, <1>1, <1>3, FieldU64, Zenon
  <2>4. GetU64(input, 60) = e.sequence
    BY <1>11, <1>1, <1>3, FieldU64, ZenonT(30)
  <2> QED
    BY <2>1, <2>2, <2>3, <2>4
<1>15. Signed(GetU64(input, 44)) = e.price
  <2>1. GetU64(input, 44) = Unsigned(e.price)
    BY <1>11, <1>1, <1>4, FieldU64, ZenonT(30)
  <2> QED
    BY <2>1, <1>4
<1>16. /\ Name(EventType, input[25]) = e.type /\ Name(Side, input[26]) = e.aggressor_side
       /\ Name(RejectReason, input[27]) = e.reason
  <2>1. input[25] = E[25] /\ input[26] = E[26] /\ input[27] = E[27]
    BY <1>10
  <2>2. /\ Name(EventType, Code(EventType, e.type)) = e.type
        /\ Name(Side, Code(Side, e.aggressor_side)) = e.aggressor_side
        /\ Name(RejectReason, Code(RejectReason, e.reason)) = e.reason
    BY <1>3, EventTypeCodes, SideCodes, RejectReasonCodes, Zenon
  <2> QED
    BY <2>1, <2>2, <1>1, Zenon
<1>17. /\ HeaderSize + 1 = 25 /\ HeaderSize + 2 = 26 /\ HeaderSize + 3 = 27 /\ HeaderSize + 4 = 28
       /\ HeaderSize + 12 = 36 /\ HeaderSize + 20 = 44 /\ HeaderSize + 28 = 52 /\ HeaderSize + 36 = 60
  BY DEF HeaderSize
<1>18. DecodedResponse(input) =
         [session_id |-> r.session_id, client_sequence |-> r.client_sequence,
          event |-> [type |-> e.type, aggressor_side |-> e.aggressor_side, reason |-> e.reason,
                     order_id |-> e.order_id, contra_order_id |-> e.contra_order_id,
                     price |-> e.price, quantity |-> e.quantity, sequence |-> e.sequence]]
  BY <1>12, <1>13, <1>14, <1>15, <1>16, <1>17, Zenon DEF DecodedResponse
<1>19. e = [type |-> e.type, aggressor_side |-> e.aggressor_side, reason |-> e.reason,
            order_id |-> e.order_id, contra_order_id |-> e.contra_order_id,
            price |-> e.price, quantity |-> e.quantity, sequence |-> e.sequence]
  BY <1>2 DEF WireEvent
<1>20. r = [session_id |-> r.session_id, client_sequence |-> r.client_sequence, event |-> r.event]
  BY DEF WireResponse
<1> QED
  <2>1. DecodedResponse(input) = [session_id |-> r.session_id, client_sequence |-> r.client_sequence, event |-> e]
    BY <1>18, <1>19, Zenon
  <2>2. DecodedResponse(input) = r
    BY <2>1, <1>20, Zenon DEF e
  <2> QED
    BY <2>2, <1>8, <1>9

-----------------------------------------------------------------------------
(* Streams of strings of bytes. *)

(* Concatenation is associative. *)
LEMMA Regroup ==
  ASSUME NEW S, NEW v \in Seq(S), NEW w \in Seq(S), NEW x \in Seq(S),
         NEW y, NEW z, y = v \o w, z = w \o x
  PROVE  y \o x = v \o z
OBVIOUS

(* The fold by which FlattenSeq is defined. *)
IsFlat(f, s, n) == f = [i \in 1 .. n |-> IF i = 1 THEN s[i] ELSE f[i - 1] \o s[i]]

(* There is such a fold for every length. *)
LEMMA FlatExists ==
  ASSUME NEW s
  PROVE  \A n \in Nat : \E f : IsFlat(f, s, n)
<1> DEFINE P == {n \in Nat : \E f : IsFlat(f, s, n)}
<1>1. 0 \in P
  <2>1. IsFlat([i \in 1 .. 0 |-> s], s, 0)
    BY DEF IsFlat
  <2> QED
    BY <2>1
<1>2. ASSUME NEW n \in P PROVE n + 1 \in P
  <2>1. PICK f : IsFlat(f, s, n)
    OBVIOUS
  <2>0. n \in Nat
    OBVIOUS
  <2> DEFINE g == [i \in 1 .. n + 1 |-> IF i = 1 THEN s[i] ELSE f[i - 1] \o s[i]]
  <2>2. ASSUME NEW i \in 1 .. n PROVE g[i] = f[i]
    <3>1. f[i] = IF i = 1 THEN s[i] ELSE f[i - 1] \o s[i]
      BY <2>1 DEF IsFlat
    <3>2. g[i] = IF i = 1 THEN s[i] ELSE f[i - 1] \o s[i]
      BY <2>0
    <3> QED
      BY <3>1, <3>2
  <2>3. ASSUME NEW i \in 1 .. n + 1
        PROVE  (IF i = 1 THEN s[i] ELSE f[i - 1] \o s[i]) = (IF i = 1 THEN s[i] ELSE g[i - 1] \o s[i])
    <3>1. CASE i = 1
      BY <3>1
    <3>2. CASE i # 1
      <4>1. i - 1 \in 1 .. n
        BY <3>2, <2>0
      <4> HIDE DEF g
      <4>2. g[i - 1] = f[i - 1]
        BY <4>1, <2>2
      <4> QED
        BY <3>2, <4>2
    <3> QED
      BY <3>1, <3>2
  <2>4. g = [i \in 1 .. n + 1 |-> IF i = 1 THEN s[i] ELSE g[i - 1] \o s[i]]
    BY <2>3, Zenon
  <2> HIDE DEF g
  <2>5. IsFlat(g, s, n + 1)
    BY <2>4 DEF IsFlat
  <2> QED
    BY <2>5, <2>0
<1>3. P = Nat
  <2> HIDE DEF P
  <2>1. P \in SUBSET Nat
    BY DEF P
  <2> QED
    BY <1>1, <1>2, <2>1, NaturalInduction
<1> QED
  BY <1>3

(* The first k elements are the same. *)
Agree(s, t, k) == \A i \in 1 .. k : s[i] = t[i]

(* The fold depends on nothing but those. *)
LEMMA FlatSame ==
  ASSUME NEW f, NEW g, NEW s, NEW t, NEW n \in Nat, NEW m \in Nat, IsFlat(f, s, n), IsFlat(g, t, m),
         NEW k \in Nat, k <= n, k <= m, Agree(s, t, k)
  PROVE  Agree(f, g, k)
<1> DEFINE P == {i \in Nat : i + 1 <= k => f[i + 1] = g[i + 1]}
<1>1. ASSUME NEW i \in 1 .. k
      PROVE  /\ f[i] = IF i = 1 THEN s[i] ELSE f[i - 1] \o s[i]
             /\ g[i] = IF i = 1 THEN t[i] ELSE g[i - 1] \o t[i]
             /\ s[i] = t[i]
  <2>1. i \in 1 .. n /\ i \in 1 .. m
    OBVIOUS
  <2> QED
    BY <2>1 DEF IsFlat, Agree
<1>2. 0 \in P
  <2> SUFFICES ASSUME 1 <= k PROVE f[1] = g[1]
    OBVIOUS
  <2>1. 1 \in 1 .. k
    OBVIOUS
  <2> QED
    BY <2>1, <1>1
<1>3. ASSUME NEW i \in P PROVE i + 1 \in P
  <2> SUFFICES ASSUME (i + 1) + 1 <= k PROVE f[(i + 1) + 1] = g[(i + 1) + 1]
    OBVIOUS
  <2> DEFINE j == (i + 1) + 1
  <2>1. i \in Nat /\ j \in 1 .. k /\ j # 1 /\ j - 1 = i + 1 /\ i + 1 <= k
    OBVIOUS
  <2>2. f[j - 1] = g[j - 1]
    BY <2>1
  <2> HIDE DEF j
  <2>3. f[j] = g[j]
    BY <2>1, <2>2, <1>1
  <2> QED
    BY <2>3 DEF j
<1>4. P = Nat
  <2> HIDE DEF P
  <2>1. P \in SUBSET Nat
    BY DEF P
  <2> QED
    BY <1>2, <1>3, <2>1, NaturalInduction
<1> SUFFICES ASSUME NEW i \in 1 .. k PROVE f[i] = g[i]
  BY DEF Agree
<1>5. i - 1 \in P /\ (i - 1) + 1 = i /\ i <= k
  <2> HIDE DEF P
  <2> QED BY <1>4
<1> QED
  BY <1>5

(* The fold of FlattenSeq satisfies its equation. *)
LEMMA FlattenDefined ==
  ASSUME NEW s, Len(s) \in Nat
  PROVE  \E f : IsFlat(f, s, Len(s)) /\ (Len(s) # 0 => FlattenSeq(s) = f[Len(s)])
<1> DEFINE f == CHOOSE f : IsFlat(f, s, Len(s))
<1>1. IsFlat(f, s, Len(s))
  BY FlatExists
<1>2. Len(s) # 0 => FlattenSeq(s) = f[Len(s)]
  BY Zenon DEF FlattenSeq, IsFlat
<1> QED
  BY <1>1, <1>2

(* No strings, no bytes. *)
LEMMA FlatEmpty == FlattenSeq(<<>>) = <<>>
BY DEF FlattenSeq

(* One more string adds its bytes at the end. *)
LEMMA FlatAppend ==
  ASSUME NEW S, NEW s \in Seq(Seq(S)), NEW x \in Seq(S)
  PROVE  FlattenSeq(Append(s, x)) = IF s = <<>> THEN x ELSE FlattenSeq(s) \o x
<1> DEFINE t == Append(s, x)
           n == Len(s)
<1>1. t \in Seq(Seq(S)) /\ Len(t) = n + 1 /\ (\A i \in 1 .. n : t[i] = s[i]) /\ t[n + 1] = x
  BY AppendProperties
<1>2. n \in Nat /\ (s = <<>> <=> n = 0)
  BY EmptySeq, LenProperties
<1>3. PICK f : IsFlat(f, s, n) /\ (n # 0 => FlattenSeq(s) = f[n])
  BY <1>2, FlattenDefined
<1>4. PICK g : IsFlat(g, t, n + 1) /\ FlattenSeq(t) = g[n + 1]
  <2>1. Len(t) \in Nat /\ Len(t) # 0
    BY <1>1, <1>2
  <2> HIDE DEF t
  <2>2. PICK g : IsFlat(g, t, Len(t)) /\ FlattenSeq(t) = g[Len(t)]
    BY <2>1, FlattenDefined
  <2> QED
    BY <2>2, <1>1
<1> HIDE DEF t, n
<1>5. g[n + 1] = IF n + 1 = 1 THEN t[n + 1] ELSE g[(n + 1) - 1] \o t[n + 1]
  <2>1. n + 1 \in 1 .. n + 1
    BY <1>2
  <2> QED
    BY <2>1, <1>4 DEF IsFlat
<1>6. CASE n = 0
  BY <1>1, <1>2, <1>4, <1>5, <1>6 DEF t
<1>7. CASE n # 0
  <2>1. \A i \in 1 .. n : f[i] = g[i]
    <3> DEFINE m == n + 1
    <3>1. m \in Nat /\ n \in Nat /\ n <= n /\ n <= m /\ Agree(s, t, n)
      BY <1>1, <1>2 DEF Agree
    <3>2. IsFlat(f, s, n) /\ IsFlat(g, t, m)
      BY <1>3, <1>4
    <3> HIDE DEF m
    <3>3. Agree(f, g, n)
      BY <3>1, <3>2, FlatSame, Zenon
    <3> QED
      BY <3>3 DEF Agree
  <2>2. n \in 1 .. n /\ (n + 1) - 1 = n /\ n + 1 # 1
    BY <1>2, <1>7
  <2>3. g[n + 1] = g[n] \o x
    BY <2>2, <1>5, <1>1
  <2>4. g[n] = FlattenSeq(s)
    BY <2>1, <2>2, <1>3, <1>7
  <2> QED
    BY <2>3, <2>4, <1>2, <1>4, <1>7 DEF t
<1> QED
  BY <1>6, <1>7

(* The concatenation of strings over S is one. *)
LEMMA FlatTyped ==
  ASSUME NEW S
  PROVE  \A s \in Seq(Seq(S)) : FlattenSeq(s) \in Seq(S)
<1> DEFINE P == {n \in Nat : \A s \in Seq(Seq(S)) : Len(s) = n => FlattenSeq(s) \in Seq(S)}
<1>1. 0 \in P
  <2> SUFFICES ASSUME NEW s \in Seq(Seq(S)), Len(s) = 0 PROVE FlattenSeq(s) \in Seq(S)
    OBVIOUS
  <2>1. s = <<>> /\ <<>> \in Seq(S)
    BY EmptySeq
  <2> QED
    BY <2>1, FlatEmpty, Zenon
<1>2. ASSUME NEW n \in P PROVE n + 1 \in P
  <2>0. n \in Nat /\ \A t \in Seq(Seq(S)) : Len(t) = n => FlattenSeq(t) \in Seq(S)
    OBVIOUS
  <2> SUFFICES ASSUME NEW s \in Seq(Seq(S)), Len(s) = n + 1 PROVE FlattenSeq(s) \in Seq(S)
    BY <2>0
  <2>1. s # <<>>
    BY <2>0, EmptySeq
  <2>2. PICK t \in Seq(Seq(S)), x \in Seq(S) : s = Append(t, x)
    BY <2>1, SequenceEmptyOrAppend, Zenon
  <2>3. Len(s) = Len(t) + 1 /\ Len(t) \in Nat
    <3>1. Len(t) \in Nat
      BY LenProperties, Zenon
    <3>2. Len(Append(t, x)) = Len(t) + 1
      BY AppendProperties, Zenon
    <3> QED
      BY <3>1, <3>2, <2>2, Zenon
  <2>4. Len(t) = n
    BY <2>0, <2>3
  <2>5. FlattenSeq(t) \in Seq(S)
    BY <2>0, <2>4
  <2>6. FlattenSeq(s) = IF t = <<>> THEN x ELSE FlattenSeq(t) \o x
    BY <2>2, FlatAppend, Zenon
  <2>7. FlattenSeq(t) \o x \in Seq(S)
    BY <2>5, ConcatProperties, Zenon
  <2> QED
    BY <2>6, <2>7, Zenon
<1>3. P = Nat
  <2> HIDE DEF P
  <2>1. P \in SUBSET Nat
    BY DEF P
  <2> QED
    BY <1>1, <1>2, <2>1, NaturalInduction
<1> SUFFICES ASSUME NEW s \in Seq(Seq(S)) PROVE FlattenSeq(s) \in Seq(S)
  OBVIOUS
<1>4. Len(s) \in P
  <2> HIDE DEF P
  <2> QED BY <1>3, LenProperties
<1> QED
  BY <1>4

(* The concatenation of strings of bytes is one, and begins with the first. *)
LEMMA FlatHead ==
  ASSUME NEW S
  PROVE  \A s \in Seq(Seq(S)) :
           /\ FlattenSeq(s) \in Seq(S)
           /\ s # <<>> => FlattenSeq(s) = s[1] \o FlattenSeq(Tail(s))
<1> DEFINE Law(s) == /\ FlattenSeq(s) \in Seq(S)
                     /\ s # <<>> => FlattenSeq(s) = s[1] \o FlattenSeq(Tail(s))
           P == {n \in Nat : \A s \in Seq(Seq(S)) : Len(s) = n => Law(s)}
<1>1. 0 \in P
  <2> SUFFICES ASSUME NEW s \in Seq(Seq(S)), Len(s) = 0 PROVE Law(s)
    OBVIOUS
  <2>1. s = <<>>
    BY EmptySeq
  <2>2. <<>> \in Seq(S)
    BY EmptySeq
  <2> QED
    BY <2>1, <2>2, FlatEmpty, Zenon
<1>2. ASSUME NEW n \in P PROVE n + 1 \in P
  <2>0. n \in Nat /\ \A t \in Seq(Seq(S)) : Len(t) = n => Law(t)
    OBVIOUS
  <2> HIDE DEF Law
  <2> SUFFICES ASSUME NEW s \in Seq(Seq(S)), Len(s) = n + 1 PROVE Law(s)
    BY <2>0
  <2>1. s # <<>>
    BY <2>0, EmptySeq
  <2>2. PICK t \in Seq(Seq(S)), x \in Seq(S) : s = Append(t, x)
    BY <2>1, SequenceEmptyOrAppend, Zenon
  <2>3. /\ Len(s) = Len(t) + 1 /\ Len(t) \in Nat
        /\ \A i \in 1 .. Len(t) : s[i] = t[i]
        /\ s[Len(t) + 1] = x
    <3>1. Len(t) \in Nat
      BY LenProperties, Zenon
    <3>2. /\ Len(Append(t, x)) = Len(t) + 1
          /\ \A i \in 1 .. Len(t) : Append(t, x)[i] = t[i]
          /\ Append(t, x)[Len(t) + 1] = x
      BY AppendProperties
    <3> QED
      BY <3>1, <3>2, <2>2, Zenon
  <2>4. Len(t) = n
    BY <2>0, <2>3
  <2>5. Law(t)
    BY <2>0, <2>4
  <2>6. FlattenSeq(t) \in Seq(S) /\ (t # <<>> => FlattenSeq(t) = t[1] \o FlattenSeq(Tail(t)))
    BY <2>5 DEF Law
  <2>7. FlattenSeq(s) = IF t = <<>> THEN x ELSE FlattenSeq(t) \o x
    BY <2>2, FlatAppend, Zenon
  <2>8. Tail(s) = IF t = <<>> THEN <<>> ELSE Append(Tail(t), x)
    BY <2>2, HeadTailAppend, Zenon
  <2>9. CASE t = <<>>
    <3>1. s[1] = x
      <4>1. Len(t) + 1 = 1
        BY <2>9
      <4> QED
        BY <4>1, <2>3, Zenon
    <3>2. FlattenSeq(Tail(s)) = <<>>
      BY <2>8, <2>9, FlatEmpty, Zenon
    <3>3. x \o <<>> = x
      BY ConcatEmptySeq, Zenon
    <3> QED
      BY <3>1, <3>2, <3>3, <2>7, <2>9, Zenon DEF Law
  <2>10. CASE t # <<>>
    <3>1. 1 \in 1 .. Len(t)
      BY <2>10, EmptySeq
    <3>2. s[1] = t[1] /\ t[1] \in Seq(S)
      BY <3>1, <2>3, ElementOfSeq, Zenon
    <3>3. Tail(t) \in Seq(Seq(S)) /\ Len(Tail(t)) = Len(t) - 1
      BY <2>10, HeadTailProperties, Zenon
    <3>4. FlattenSeq(s) = FlattenSeq(t) \o x
      BY <2>7, <2>10, Zenon
    <3>5. FlattenSeq(s) \in Seq(S)
      BY <3>4, <2>6, ConcatProperties, Zenon
    <3>6. FlattenSeq(Tail(s)) = IF Tail(t) = <<>> THEN x ELSE FlattenSeq(Tail(t)) \o x
      BY <3>3, <2>8, <2>10, FlatAppend, Zenon
    <3>7. CASE Tail(t) = <<>>
      <4>1. FlattenSeq(t) = t[1]
        <5>1. t[1] \o <<>> = t[1]
          BY <3>2, ConcatEmptySeq, Zenon
        <5> QED
          BY <5>1, <3>7, <2>6, <2>10, FlatEmpty, Zenon
      <4> QED
        BY <4>1, <3>2, <3>4, <3>5, <3>6, <3>7, Zenon DEF Law
    <3>8. CASE Tail(t) # <<>>
      <4> DEFINE w == FlattenSeq(Tail(t))
                 v == t[1]
                 y == FlattenSeq(t)
                 z == FlattenSeq(Tail(s))
      <4>1. w \in Seq(S)
        BY <3>3, FlatTyped, Zenon
      <4>2. y = v \o w /\ z = w \o x
        BY <2>6, <2>10, <3>6, <3>8, Zenon
      <4>3. v \in Seq(S)
        BY <3>2
      <4> HIDE DEF v, w, y, z
      <4>4. y \o x = v \o z
        BY <4>1, <4>2, <4>3, Regroup, SMTT(30)
      <4> QED
        BY <4>4, <3>2, <3>4, <3>5, Zenon DEF Law, v, y, z
    <3> QED
      BY <3>7, <3>8
  <2> QED
    BY <2>9, <2>10
<1>3. P = Nat
  <2> HIDE DEF P
  <2>1. P \in SUBSET Nat
    BY DEF P
  <2> QED
    BY <1>1, <1>2, <2>1, NaturalInduction
<1> SUFFICES ASSUME NEW s \in Seq(Seq(S)) PROVE Law(s)
  OBVIOUS
<1>4. Len(s) \in P
  <2> HIDE DEF P
  <2> QED BY <1>3, LenProperties
<1> QED
  BY <1>4

Strings == Seq(Seq(Byte))

(* One more string. *)
LEMMA FlatGrows ==
  ASSUME NEW s \in Strings, NEW t \in Strings, Len(t) = Len(s) + 1, Agree(t, s, Len(s))
  PROVE  /\ FlattenSeq(s) \in Seq(Byte) /\ FlattenSeq(t) = FlattenSeq(s) \o t[Len(s) + 1]
<1> DEFINE n == Len(s)
           x == t[n + 1]
<1>1. n \in Nat
  BY LenProperties DEF Strings
<1>2. x \in Seq(Byte)
  <2>1. n + 1 \in 1 .. Len(t)
    BY <1>1
  <2> QED
    BY <2>1, ElementOfSeq, Zenon DEF Strings
<1> HIDE DEF x
<1>3. t = Append(s, x)
  <2>1. /\ Append(s, x) \in Strings /\ Len(Append(s, x)) = n + 1
        /\ (\A i \in 1 .. n : Append(s, x)[i] = s[i]) /\ Append(s, x)[n + 1] = x
    BY <1>2, AppendProperties DEF Strings
  <2> DEFINE a == Append(s, x)
  <2> HIDE DEF a
  <2>2. ASSUME NEW i \in 1 .. Len(t) PROVE t[i] = a[i]
    <3>1. CASE i \in 1 .. n
      BY <3>1, <2>1 DEF Agree, a
    <3>2. CASE i = n + 1
      BY <3>2, <2>1 DEF a, x
    <3> QED
      BY <3>1, <3>2, <1>1
  <2>3. a \in Seq(Seq(Byte)) /\ t \in Seq(Seq(Byte)) /\ Len(t) = Len(a)
    BY <2>1 DEF Strings, a
  <2>4. t = a
    BY <2>2, <2>3, SeqEqual, Zenon
  <2> QED
    BY <2>4 DEF a
<1>4. FlattenSeq(s) \in Seq(Byte)
  BY FlatTyped, Zenon DEF Strings
<1>5. FlattenSeq(t) = IF s = <<>> THEN x ELSE FlattenSeq(s) \o x
  BY <1>2, <1>3, FlatAppend, Zenon DEF Strings
<1>6. <<>> \o x = x
  BY <1>2, ConcatEmptySeq, Zenon
<1>7. FlattenSeq(t) = FlattenSeq(s) \o x
  BY <1>5, <1>6, FlatEmpty, Zenon
<1> QED
  BY <1>4, <1>7, Zenon DEF x

(* All strings but the first. *)
LEMMA FlatShrinks ==
  ASSUME NEW s \in Strings, NEW t \in Strings, Len(s) = Len(t) + 1,
         \A i \in 1 .. Len(t) : t[i] = s[i + 1]
  PROVE  /\ FlattenSeq(t) \in Seq(Byte) /\ s[1] \in Seq(Byte)
         /\ FlattenSeq(s) = s[1] \o FlattenSeq(t)
<1>1. Len(t) \in Nat /\ Len(s) \in Nat
  BY LenProperties DEF Strings
<1>2. s # <<>>
  BY <1>1
<1>3. /\ Tail(s) \in Seq(Seq(Byte)) /\ Len(Tail(s)) = Len(s) - 1
      /\ \A i \in 1 .. Len(Tail(s)) : Tail(s)[i] = s[i + 1]
  BY <1>2, HeadTailProperties, Zenon DEF Strings
<1> DEFINE a == Tail(s)
<1>4. a \in Seq(Seq(Byte)) /\ t \in Seq(Seq(Byte)) /\ Len(t) = Len(a)
  BY <1>1, <1>3 DEF Strings
<1>5. \A i \in 1 .. Len(t) : t[i] = a[i]
  BY <1>3, <1>4
<1> HIDE DEF a
<1>6. t = a
  BY <1>4, <1>5, SeqEqual, Zenon
<1>7. FlattenSeq(s) = s[1] \o FlattenSeq(t)
  BY <1>2, <1>6, FlatHead, Zenon DEF Strings, a
<1>8. FlattenSeq(t) \in Seq(Byte)
  BY FlatTyped, Zenon DEF Strings
<1>9. s[1] \in Seq(Byte)
  <2>1. 1 \in 1 .. Len(s)
    BY <1>1
  <2> QED
    BY <2>1, ElementOfSeq, Zenon DEF Strings
<1> QED
  BY <1>7, <1>8, <1>9

(* A queue, seen as what is left of a history behind the first k. *)
LEMMA RestOf ==
  ASSUME NEW X, NEW all \in Seq(X), NEW k \in 0 .. Len(all)
  PROVE  LET q == SubSeq(all, k + 1, Len(all)) IN
         /\ q \in Seq(X) /\ Len(q) = Len(all) - k /\ DOMAIN q = 1 .. Len(q)
         /\ \A i \in 1 .. Len(q) : q[i] = all[k + i] /\ q[i] \in X
<1>1. Len(all) \in Nat /\ \A i \in 1 .. Len(all) : all[i] \in X
  BY LenProperties, ElementOfSeq
<1> DEFINE q == SubSeq(all, k + 1, Len(all))
<1>2. /\ q \in Seq(X)
      /\ Len(q) = IF k + 1 <= Len(all) THEN Len(all) - (k + 1) + 1 ELSE 0
      /\ \A i \in 1 .. Len(all) - (k + 1) + 1 : q[i] = all[(k + 1) + i - 1]
  <2>1. k + 1 \in Int /\ Len(all) \in Int /\ \A i \in k + 1 .. Len(all) : all[i] \in X
    BY <1>1
  <2> QED
    BY <2>1, SubSeqProperties
<1> HIDE DEF q
<1>3. Len(q) = Len(all) - k
  BY <1>1, <1>2
<1>4. DOMAIN q = 1 .. Len(q)
  BY <1>2, LenProperties
<1>5. ASSUME NEW i \in 1 .. Len(q) PROVE q[i] = all[k + i] /\ q[i] \in X
  <2>1. i \in 1 .. Len(all) - (k + 1) + 1 /\ (k + 1) + i - 1 = k + i /\ k + i \in 1 .. Len(all)
    BY <1>1, <1>3
  <2> QED
    BY <2>1, <1>1, <1>2
<1> QED
  BY <1>2, <1>3, <1>4, <1>5 DEF q

(* The bytes of all strings but the first k. *)
Behind(s, k) == FlattenSeq(SubSeq(s, k + 1, Len(s)))

(* They are bytes, and none behind the last string. *)
LEMMA BehindTyped ==
  ASSUME NEW s \in Strings, NEW k \in 0 .. Len(s)
  PROVE  Behind(s, k) \in Seq(Byte) /\ (k = Len(s) => Behind(s, k) = <<>>)
<1>1. Len(s) \in Nat
  BY LenProperties DEF Strings
<1>2. SubSeq(s, k + 1, Len(s)) \in Seq(Seq(Byte))
  BY RestOf, ZenonT(60) DEF Strings
<1>3. k = Len(s) => SubSeq(s, k + 1, Len(s)) = <<>>
  BY <1>1, SubSeqEmpty
<1> QED
  BY <1>2, <1>3, FlatTyped, FlatEmpty, Zenon DEF Behind

(* They begin with the next string. *)
LEMMA BehindNext ==
  ASSUME NEW s \in Strings, NEW k \in 0 .. Len(s), k # Len(s)
  PROVE  /\ s[k + 1] \in Seq(Byte) /\ Behind(s, k + 1) \in Seq(Byte)
         /\ Behind(s, k) = s[k + 1] \o Behind(s, k + 1)
<1> DEFINE a == SubSeq(s, k + 1, Len(s))
           b == SubSeq(s, (k + 1) + 1, Len(s))
<1>1. Len(s) \in Nat /\ s \in Seq(Seq(Byte))
  BY LenProperties DEF Strings
<1>2. k + 1 \in 0 .. Len(s)
  BY <1>1
<1>3. a \in Strings /\ Len(a) = Len(s) - k /\ \A i \in 1 .. Len(a) : a[i] = s[k + i]
  BY <1>1, RestOf, ZenonT(60) DEF Strings
<1>4. b \in Strings /\ Len(b) = Len(s) - (k + 1) /\ \A i \in 1 .. Len(b) : b[i] = s[(k + 1) + i]
  BY <1>1, <1>2, RestOf, ZenonT(60) DEF Strings
<1> HIDE DEF a, b
<1>5. Len(a) = Len(b) + 1 /\ Len(b) \in Nat /\ 1 \in 1 .. Len(a)
  BY <1>1, <1>2, <1>3, <1>4
<1>6. \A i \in 1 .. Len(b) : b[i] = a[i + 1]
  <2> SUFFICES ASSUME NEW i \in 1 .. Len(b) PROVE b[i] = a[i + 1]
    OBVIOUS
  <2>1. i + 1 \in 1 .. Len(a) /\ k + (i + 1) = (k + 1) + i
    BY <1>5
  <2> QED
    BY <2>1, <1>3, <1>4
<1>7. FlattenSeq(b) \in Seq(Byte) /\ a[1] \in Seq(Byte) /\ FlattenSeq(a) = a[1] \o FlattenSeq(b)
  BY <1>3, <1>4, <1>5, <1>6, FlatShrinks
<1>8. a[1] = s[k + 1]
  BY <1>3, <1>5
<1> QED
  BY <1>7, <1>8, Zenon DEF Behind, a, b

(* One more string adds its bytes behind them. *)
LEMMA BehindGrows ==
  ASSUME NEW s \in Strings, NEW k \in 0 .. Len(s), NEW x \in Seq(Byte)
  PROVE  /\ Append(s, x) \in Strings /\ k \in 0 .. Len(Append(s, x))
         /\ Behind(Append(s, x), k) = Behind(s, k) \o x
<1> DEFINE t == Append(s, x)
           a == SubSeq(s, k + 1, Len(s))
           b == SubSeq(t, k + 1, Len(t))
<1>1. Len(s) \in Nat /\ s \in Seq(Seq(Byte))
  BY LenProperties DEF Strings
<1>2. /\ t \in Seq(Seq(Byte)) /\ Len(t) = Len(s) + 1
      /\ (\A i \in 1 .. Len(s) : t[i] = s[i]) /\ t[Len(s) + 1] = x
  BY <1>1, AppendProperties
<1> HIDE DEF t
<1>3. k \in 0 .. Len(t)
  <2>1. Len(s) \in Nat /\ Len(t) = Len(s) + 1
    BY <1>1, <1>2, Zenon
  <2> QED
    BY <2>1
<1>4. a \in Strings /\ Len(a) = Len(s) - k /\ \A i \in 1 .. Len(a) : a[i] = s[k + i]
  BY <1>1, RestOf, ZenonT(60) DEF Strings
<1>5. b \in Strings /\ Len(b) = Len(t) - k /\ \A i \in 1 .. Len(b) : b[i] = t[k + i]
  <2>1. t \in Seq(Seq(Byte))
    BY <1>2
  <2> QED
    BY <2>1, <1>3, RestOf, ZenonT(60) DEF Strings
<1> HIDE DEF a, b
<1>6. Len(b) = Len(a) + 1 /\ Len(a) \in Nat
  BY <1>1, <1>2, <1>4, <1>5
<1>7. Agree(b, a, Len(a))
  <2> SUFFICES ASSUME NEW i \in 1 .. Len(a) PROVE b[i] = a[i]
    BY DEF Agree
  <2>1. i \in 1 .. Len(b) /\ k + i \in 1 .. Len(s)
    BY <1>1, <1>4, <1>6
  <2> QED
    BY <2>1, <1>2, <1>4, <1>5
<1>8. b[Len(a) + 1] = x
  <2>1. Len(a) + 1 \in 1 .. Len(b) /\ k + (Len(a) + 1) = Len(s) + 1
    BY <1>1, <1>4, <1>6
  <2> QED
    BY <2>1, <1>2, <1>5
<1>9. FlattenSeq(b) = FlattenSeq(a) \o b[Len(a) + 1]
  BY <1>4, <1>5, <1>6, <1>7, FlatGrows
<1>10. Behind(t, k) = Behind(s, k) \o x
  BY <1>8, <1>9, Zenon DEF Behind, a, b
<1>11. t \in Strings
  BY <1>2 DEF Strings
<1> QED
  BY <1>3, <1>10, <1>11 DEF t

-----------------------------------------------------------------------------
(* The frames of this connection and their streams. *)

(* What a client can send: an encodable request, intact or changed as its type may be. *)
Frames ==
  {frame \in [request : {Request(command, n) : command \in Commands, n \in 1 .. MaxFrames},
              damage : {Undamaged} \cup Damages \cup Paddings] :
     /\ Encodable(frame.request)
     /\ frame.damage # Undamaged => frame.damage.type = frame.request.command.type}

(* Its request is one the protocol can carry. *)
LEMMA FrameRequest ==
  ASSUME NEW frame \in Frames
  PROVE  /\ frame.request \in WireRequest
         /\ \E command \in Commands, n \in 1 .. MaxFrames : frame.request = Request(command, n)
         /\ frame = [request |-> frame.request, damage |-> frame.damage]
<1>1. PICK command \in Commands, n \in 1 .. MaxFrames : frame.request = Request(command, n)
  BY DEF Frames
<1>2. Encodable(frame.request)
  BY DEF Frames
<1>3. SessionId # 0 /\ n # 0 /\ command.order_id # 0
  BY <1>1, <1>2 DEF Encodable, Request
<1>4. n \in 1 .. U64 - 1 /\ SessionId \in 1 .. U32 - 1
  BY <1>3, FramingAssumption, Bases
<1>5. command \in WireCommand
  <2>1. command \in
       [type : {"New", "Cancel", "Replace"}, sequence : 0 .. U64 - 1, side : {"Buy", "Sell"},
        order_type : {"Limit", "Market", "ImmediateOrCancel", "FillOrKill"},
        order_id : 0 .. U64 - 1, price : -(U64 \div 2) .. U64 \div 2 - 1, quantity : 0 .. U64 - 1]
    BY FramingAssumption
  <2>2. command.order_id \in 1 .. U64 - 1
    BY <2>1, <1>3, Bases
  <2> QED
    BY <2>1, <2>2 DEF WireCommand
<1>6. Request(command, n) \in WireRequest
  BY <1>4, <1>5 DEF Request, WireRequest
<1>7. frame = [request |-> frame.request, damage |-> frame.damage]
  BY DEF Frames
<1> QED
  BY <1>1, <1>6, <1>7

(* What a client's frame looks like: as long as its type says, right in every byte
   that is not reserved or else malformed. *)
LEMMA FrameBytes ==
  ASSUME NEW frame \in Frames
  PROVE  LET type == frame.request.command.type IN
         /\ Bytes(frame) \in Seq(Byte) /\ Len(Bytes(frame)) = RequestFrameSize(type)
         /\ type \in {"New", "Cancel", "Replace"} /\ RequestFrameSize(type) \in 32 .. 52
         /\ frame.damage \notin Damages =>
              \A i \in 1 .. RequestFrameSize(type) :
                i \notin Reserved(type) => Bytes(frame)[i] = EncodeRequest(frame.request)[i]
         /\ frame.damage \in Damages => Malformed(Bytes(frame))
<1> DEFINE r == frame.request
           d == frame.damage
           type == r.command.type
           clean == EncodeRequest(r)
           bytes == Bytes(frame)
           at == d.at
           w == d.bytes
<1>1. r \in WireRequest /\ type \in {"New", "Cancel", "Replace"}
  BY FrameRequest DEF WireRequest, WireCommand
<1>2. RequestFrameSize(type) \in 32 .. 52
  BY <1>1, FrameSizes, Zenon
<1>3. clean \in Seq(Byte) /\ Len(clean) = RequestFrameSize(type)
  BY <1>1, RequestLayout, Zenon
<1>4. /\ clean \in [1 .. Len(clean) -> Byte] /\ DOMAIN clean = 1 .. Len(clean) /\ Len(clean) \in Nat
  BY <1>3, LenProperties, Zenon
<1>5. d \in {Undamaged} \cup Damages \cup Paddings /\ (d # Undamaged => d.type = type)
  BY DEF Frames
<1>6. CASE d = Undamaged
  <2>1. bytes = clean
    BY <1>6 DEF Bytes
  <2>2. d \notin Damages
    BY <1>6, DamageAssumption
  <2> QED
    BY <2>1, <2>2, <1>1, <1>2, <1>3, Zenon
<1>7. CASE d # Undamaged
  <2>1. bytes = [i \in DOMAIN clean |-> IF i - at \in DOMAIN w THEN w[i - at] ELSE clean[i]]
    BY <1>7 DEF Bytes
  <2>2. d \in Damages \cup Paddings
    BY <1>5, <1>7
  <2>3. at \in Nat /\ w \in Seq(Byte)
    BY <2>2, DamageAssumption DEF Byte
  <2>4. w \in [1 .. Len(w) -> Byte] /\ DOMAIN w = 1 .. Len(w)
    BY <2>3, LenProperties, Zenon
  <2>5. d \in Paddings => \A i \in DOMAIN w : at + i \in Reserved(type)
    BY <2>2, <1>5, <1>7, DamageAssumption
  <2>6. d \in Damages => Malformed(bytes)
    <3> SUFFICES ASSUME d \in Damages PROVE Malformed(bytes)
      OBVIOUS
    <3>1. PICK command \in Commands, n \in 1 .. MaxFrames : r = Request(command, n)
      BY FrameRequest
    <3>2. frame = [request |-> Request(command, n), damage |-> d]
      BY <3>1, FrameRequest
    <3>3. Encodable(Request(command, n)) /\ command.type = type
      BY <3>1 DEF Frames, Request
    <3>4. d.type = command.type
      BY <3>3, <1>5, <1>7
    <3>5. Malformed(Bytes([request |-> Request(command, n), damage |-> d]))
      BY <3>3, <3>4, DamageAssumption
    <3> QED
      BY <3>2, <3>5
  <2> HIDE DEF at, w, clean, bytes
  <2>7. bytes \in [1 .. Len(clean) -> Byte]
    <3> SUFFICES ASSUME NEW i \in 1 .. Len(clean)
                 PROVE  (IF i - at \in DOMAIN w THEN w[i - at] ELSE clean[i]) \in Byte
      BY <2>1, <1>4
    <3> QED
      BY <2>4, <1>4
  <2>8. bytes \in Seq(Byte) /\ Len(bytes) = Len(clean)
    BY <2>7, <1>4
  <2>9. ASSUME d \notin Damages, NEW i \in 1 .. Len(clean), i \notin Reserved(type)
        PROVE  bytes[i] = clean[i]
    <3>1. i - at \notin DOMAIN w
      <4> SUFFICES ASSUME i - at \in DOMAIN w PROVE FALSE
        OBVIOUS
      <4>1. at + (i - at) \in Reserved(type)
        BY <2>2, <2>5, <2>9
      <4>2. at + (i - at) = i
        BY <2>3
      <4> QED
        BY <4>1, <4>2, <2>9
    <3> QED
      BY <3>1, <2>1, <1>4
  <2>10. \A i \in 1 .. Len(clean) : d \notin Damages /\ i \notin Reserved(type) => bytes[i] = clean[i]
    BY <2>9
  <2> QED
    BY <2>6, <2>8, <2>10, <1>1, <1>2, <1>3, Zenon DEF clean, bytes
<1> QED
  BY <1>6, <1>7

(* The bytes of the frames offered and of the responses queued, one string each. *)
FrameStrings(frames) == [i \in 1 .. Len(frames) |-> Bytes(frames[i])]
ReplyStrings(responses) == [i \in 1 .. Len(responses) |-> EncodeResponse(responses[i])]
Replies(responses) == FlattenSeq([i \in DOMAIN responses |-> EncodeResponse(responses[i])])

(* Every frame has its bytes. *)
LEMMA FrameStringsTyped ==
  ASSUME NEW all \in Seq(Frames)
  PROVE  FrameStrings(all) \in Strings /\ Len(FrameStrings(all)) = Len(all)
<1>1. Len(all) \in Nat /\ \A i \in 1 .. Len(all) : all[i] \in Frames
  BY LenProperties, ElementOfSeq
<1>2. \A i \in 1 .. Len(all) : Bytes(all[i]) \in Seq(Byte)
  BY <1>1, FrameBytes, Zenon
<1>3. FrameStrings(all) \in [1 .. Len(all) -> Seq(Byte)]
  BY <1>2 DEF FrameStrings
<1> QED
  BY <1>1, <1>3 DEF Strings

(* What RequestsIntact calls Encoded, as the bytes behind the decoded frames. *)
LEMMA FramesBehind ==
  ASSUME NEW all \in Seq(Frames), NEW k \in 0 .. Len(all)
  PROVE  Encoded(SubSeq(all, k + 1, Len(all))) = Behind(FrameStrings(all), k)
<1> DEFINE q == SubSeq(all, k + 1, Len(all))
           s == FrameStrings(all)
           a == [i \in DOMAIN q |-> Bytes(q[i])]
           b == SubSeq(s, k + 1, Len(s))
<1>1. Len(all) \in Nat
  BY LenProperties
<1>2. s \in Seq(Seq(Byte)) /\ Len(s) = Len(all)
  BY FrameStringsTyped DEF Strings
<1>3. q \in Seq(Frames) /\ Len(q) = Len(all) - k /\ DOMAIN q = 1 .. Len(q)
      /\ \A i \in 1 .. Len(q) : q[i] = all[k + i] /\ q[i] \in Frames
  BY RestOf, ZenonT(60)
<1>4. b \in Seq(Seq(Byte)) /\ Len(b) = Len(s) - k /\ \A i \in 1 .. Len(b) : b[i] = s[k + i]
  <2>1. k \in 0 .. Len(s) /\ s \in Seq(Seq(Byte))
    BY <1>2
  <2> HIDE DEF s
  <2> QED
    BY <2>1, RestOf, ZenonT(60)
<1>5. \A i \in 1 .. Len(all) : s[i] = Bytes(all[i])
  BY DEF FrameStrings
<1> HIDE DEF q, s, b
<1>6. Len(q) \in Nat /\ Len(b) = Len(q)
  BY <1>1, <1>2, <1>3, <1>4
<1>7. a \in Seq(Seq(Byte)) /\ Len(a) = Len(q) /\ \A i \in 1 .. Len(q) : a[i] = Bytes(q[i])
  <2>1. \A i \in 1 .. Len(q) : Bytes(q[i]) \in Seq(Byte)
    BY <1>3, FrameBytes, Zenon
  <2>2. a \in [1 .. Len(q) -> Seq(Byte)]
    BY <2>1, <1>3
  <2> QED
    BY <2>2, <1>3, <1>6
<1> HIDE DEF a
<1>8. \A i \in 1 .. Len(a) : a[i] = b[i]
  <2> SUFFICES ASSUME NEW i \in 1 .. Len(q) PROVE a[i] = b[i]
    BY <1>7
  <2>1. k + i \in 1 .. Len(all)
    BY <1>1, <1>3
  <2> QED
    BY <2>1, <1>3, <1>4, <1>5, <1>6, <1>7
<1>9. a = b
  <2>1. a \in Seq(Seq(Byte)) /\ b \in Seq(Seq(Byte)) /\ Len(a) = Len(b)
    BY <1>4, <1>6, <1>7
  <2> QED
    BY <2>1, <1>8, SeqEqual
<1>10. FlattenSeq(a) = FlattenSeq(b)
  BY <1>9
<1> QED
  BY <1>10 DEF Encoded, Behind, a, b, q, s

(* A frame sent adds its bytes. *)
LEMMA FrameStringsGrow ==
  ASSUME NEW all \in Seq(Frames), NEW frame \in Frames
  PROVE  FrameStrings(Append(all, frame)) = Append(FrameStrings(all), Bytes(frame))
<1> DEFINE t == Append(all, frame)
           x == Bytes(frame)
           s == FrameStrings(all)
           u == FrameStrings(t)
           v == Append(s, x)
           n == Len(all)
<1>1. n \in Nat
  BY LenProperties
<1>2. t \in Seq(Frames) /\ Len(t) = n + 1 /\ (\A i \in 1 .. n : t[i] = all[i]) /\ t[n + 1] = frame
  BY AppendProperties
<1>3. x \in Seq(Byte)
  BY FrameBytes, Zenon
<1>4. s \in Seq(Seq(Byte)) /\ Len(s) = n /\ \A i \in 1 .. n : s[i] = Bytes(all[i])
  BY FrameStringsTyped DEF Strings, FrameStrings
<1> HIDE DEF t, n
<1>5. u \in Seq(Seq(Byte)) /\ Len(u) = n + 1 /\ \A i \in 1 .. n + 1 : u[i] = Bytes(t[i])
  <2>1. u \in Strings /\ Len(u) = Len(t)
    BY <1>2, FrameStringsTyped
  <2>2. \A i \in 1 .. Len(t) : u[i] = Bytes(t[i])
    BY DEF FrameStrings
  <2> HIDE DEF u
  <2> QED
    BY <2>1, <2>2, <1>2 DEF Strings
<1> HIDE DEF s, x, u
<1>6. v \in Seq(Seq(Byte)) /\ Len(v) = n + 1 /\ (\A i \in 1 .. n : v[i] = s[i]) /\ v[n + 1] = x
  BY <1>3, <1>4, AppendProperties
<1> HIDE DEF v
<1>7. \A i \in 1 .. Len(u) : u[i] = v[i]
  <2> SUFFICES ASSUME NEW i \in 1 .. n + 1 PROVE u[i] = v[i]
    BY <1>5
  <2>1. CASE i \in 1 .. n
    BY <2>1, <1>2, <1>4, <1>5, <1>6
  <2>2. CASE i = n + 1
    BY <2>2, <1>2, <1>5, <1>6 DEF x
  <2> QED
    BY <2>1, <2>2, <1>1
<1>8. Len(u) = Len(v)
  BY <1>5, <1>6
<1>9. u = v
  BY <1>5, <1>6, <1>7, <1>8, SeqEqual
<1> QED
  BY <1>9 DEF u, v, s, x, t

(* Every response has its bytes. *)
LEMMA ReplyStringsTyped ==
  ASSUME NEW all \in Seq(WireResponse)
  PROVE  ReplyStrings(all) \in Strings /\ Len(ReplyStrings(all)) = Len(all)
<1>1. Len(all) \in Nat /\ \A i \in 1 .. Len(all) : all[i] \in WireResponse
  BY LenProperties, ElementOfSeq
<1>2. \A i \in 1 .. Len(all) : EncodeResponse(all[i]) \in Seq(Byte)
  BY <1>1, ResponseLayout, Zenon
<1>3. ReplyStrings(all) \in [1 .. Len(all) -> Seq(Byte)]
  BY <1>2 DEF ReplyStrings
<1> QED
  BY <1>1, <1>3 DEF Strings

(* The bytes of the unseen responses, as the bytes behind the ones seen. *)
LEMMA RepliesBehind ==
  ASSUME NEW all \in Seq(WireResponse), NEW k \in 0 .. Len(all)
  PROVE  Replies(SubSeq(all, k + 1, Len(all))) = Behind(ReplyStrings(all), k)
<1> DEFINE q == SubSeq(all, k + 1, Len(all))
           s == ReplyStrings(all)
           a == [i \in DOMAIN q |-> EncodeResponse(q[i])]
           b == SubSeq(s, k + 1, Len(s))
<1>1. Len(all) \in Nat
  BY LenProperties
<1>2. s \in Seq(Seq(Byte)) /\ Len(s) = Len(all)
  BY ReplyStringsTyped DEF Strings
<1>3. q \in Seq(WireResponse) /\ Len(q) = Len(all) - k /\ DOMAIN q = 1 .. Len(q)
      /\ \A i \in 1 .. Len(q) : q[i] = all[k + i] /\ q[i] \in WireResponse
  BY RestOf, ZenonT(60)
<1>4. b \in Seq(Seq(Byte)) /\ Len(b) = Len(s) - k /\ \A i \in 1 .. Len(b) : b[i] = s[k + i]
  <2>1. k \in 0 .. Len(s) /\ s \in Seq(Seq(Byte))
    BY <1>2
  <2> HIDE DEF s
  <2> QED
    BY <2>1, RestOf, ZenonT(60)
<1>5. \A i \in 1 .. Len(all) : s[i] = EncodeResponse(all[i])
  BY DEF ReplyStrings
<1> HIDE DEF q, s, b
<1>6. Len(q) \in Nat /\ Len(b) = Len(q)
  BY <1>1, <1>2, <1>3, <1>4
<1>7. a \in Seq(Seq(Byte)) /\ Len(a) = Len(q) /\ \A i \in 1 .. Len(q) : a[i] = EncodeResponse(q[i])
  <2>1. \A i \in 1 .. Len(q) : EncodeResponse(q[i]) \in Seq(Byte)
    BY <1>3, ResponseLayout, Zenon
  <2>2. a \in [1 .. Len(q) -> Seq(Byte)]
    BY <2>1, <1>3
  <2> QED
    BY <2>2, <1>3, <1>6
<1> HIDE DEF a
<1>8. \A i \in 1 .. Len(a) : a[i] = b[i]
  <2> SUFFICES ASSUME NEW i \in 1 .. Len(q) PROVE a[i] = b[i]
    BY <1>7
  <2>1. k + i \in 1 .. Len(all)
    BY <1>1, <1>3
  <2> QED
    BY <2>1, <1>3, <1>4, <1>5, <1>6, <1>7
<1>9. a = b
  <2>1. a \in Seq(Seq(Byte)) /\ b \in Seq(Seq(Byte)) /\ Len(a) = Len(b)
    BY <1>4, <1>6, <1>7
  <2> QED
    BY <2>1, <1>8, SeqEqual
<1>10. FlattenSeq(a) = FlattenSeq(b)
  BY <1>9
<1> QED
  BY <1>10 DEF Replies, Behind, a, b, q, s

(* A response queued adds its bytes. *)
LEMMA ReplyStringsGrow ==
  ASSUME NEW all \in Seq(WireResponse), NEW response \in WireResponse
  PROVE  ReplyStrings(Append(all, response)) = Append(ReplyStrings(all), EncodeResponse(response))
<1> DEFINE t == Append(all, response)
           x == EncodeResponse(response)
           s == ReplyStrings(all)
           u == ReplyStrings(t)
           v == Append(s, x)
           n == Len(all)
<1>1. n \in Nat
  BY LenProperties
<1>2. t \in Seq(WireResponse) /\ Len(t) = n + 1 /\ (\A i \in 1 .. n : t[i] = all[i]) /\ t[n + 1] = response
  BY AppendProperties
<1>3. x \in Seq(Byte)
  BY ResponseLayout, Zenon
<1>4. s \in Seq(Seq(Byte)) /\ Len(s) = n /\ \A i \in 1 .. n : s[i] = EncodeResponse(all[i])
  BY ReplyStringsTyped DEF Strings, ReplyStrings
<1> HIDE DEF t, n
<1>5. u \in Seq(Seq(Byte)) /\ Len(u) = n + 1 /\ \A i \in 1 .. n + 1 : u[i] = EncodeResponse(t[i])
  <2>1. u \in Strings /\ Len(u) = Len(t)
    BY <1>2, ReplyStringsTyped
  <2>2. \A i \in 1 .. Len(t) : u[i] = EncodeResponse(t[i])
    BY DEF ReplyStrings
  <2> HIDE DEF u
  <2> QED
    BY <2>1, <2>2, <1>2 DEF Strings
<1> HIDE DEF s, x, u
<1>6. v \in Seq(Seq(Byte)) /\ Len(v) = n + 1 /\ (\A i \in 1 .. n : v[i] = s[i]) /\ v[n + 1] = x
  BY <1>3, <1>4, AppendProperties
<1> HIDE DEF v
<1>7. \A i \in 1 .. Len(u) : u[i] = v[i]
  <2> SUFFICES ASSUME NEW i \in 1 .. n + 1 PROVE u[i] = v[i]
    BY <1>5
  <2>1. CASE i \in 1 .. n
    BY <2>1, <1>2, <1>4, <1>5, <1>6
  <2>2. CASE i = n + 1
    BY <2>2, <1>2, <1>5, <1>6 DEF x
  <2> QED
    BY <2>1, <2>2, <1>1
<1>8. Len(u) = Len(v)
  BY <1>5, <1>6
<1>9. u = v
  BY <1>5, <1>6, <1>7, <1>8, SeqEqual
<1> QED
  BY <1>9 DEF u, v, s, x, t

-----------------------------------------------------------------------------
(* Buffers as prefixes and suffixes of a stream. *)

(* Two streams that are equal: how the buffered part of one relates to the first
   string of the other. *)
LEMMA StreamHead ==
  ASSUME NEW input \in Seq(Byte), NEW up \in Seq(Byte), NEW first \in Seq(Byte), NEW rest \in Seq(Byte),
         input \o up = first \o rest
  PROVE  /\ \A i \in 1 .. Len(input) : i <= Len(first) => input[i] = first[i]
         /\ Len(input) >= Len(first) => SubSeq(input, Len(first) + 1, Len(input)) \o up = rest
<1> DEFINE n == Len(input)
           m == Len(first)
<1>1. n \in Nat /\ m \in Nat /\ Len(up) \in Nat /\ Len(rest) \in Nat
  BY LenProperties
<1>2. /\ Len(input \o up) = n + Len(up)
      /\ \A i \in 1 .. n + Len(up) : (input \o up)[i] = IF i <= n THEN input[i] ELSE up[i - n]
  BY ConcatProperties
<1>3. /\ Len(first \o rest) = m + Len(rest)
      /\ \A i \in 1 .. m + Len(rest) : (first \o rest)[i] = IF i <= m THEN first[i] ELSE rest[i - m]
  BY ConcatProperties
<1> DEFINE w == input \o up
<1>4. w = first \o rest
  OBVIOUS
<1> HIDE DEF n, m, w
<1>5. /\ n + Len(up) = m + Len(rest)
      /\ \A i \in 1 .. n + Len(up) : w[i] = IF i <= n THEN input[i] ELSE up[i - n]
      /\ \A i \in 1 .. n + Len(up) : w[i] = IF i <= m THEN first[i] ELSE rest[i - m]
  <2>1. Len(w) = n + Len(up) /\ \A i \in 1 .. n + Len(up) : w[i] = IF i <= n THEN input[i] ELSE up[i - n]
    BY <1>2 DEF w
  <2>2. Len(w) = m + Len(rest) /\ \A i \in 1 .. m + Len(rest) : w[i] = IF i <= m THEN first[i] ELSE rest[i - m]
    BY <1>3, <1>4, Zenon
  <2> QED
    BY <2>1, <2>2
<1>6. ASSUME NEW i \in 1 .. n, i <= m PROVE input[i] = first[i]
  <2>1. i \in 1 .. n + Len(up) /\ i <= n
    BY <1>1
  <2> QED
    BY <2>1, <1>5, <1>6
<1>7. ASSUME n >= m PROVE SubSeq(input, m + 1, n) \o up = rest
  <2> DEFINE a == SubSeq(input, m + 1, n)
             b == a \o up
  <2>1. /\ a \in Seq(Byte) /\ Len(a) = n - m /\ \A i \in 1 .. Len(a) : a[i] = input[m + i]
    <3>1. m \in 0 .. Len(input)
      BY <1>1, <1>7 DEF n
    <3> QED
      BY <3>1, RestOf, ZenonT(60) DEF n
  <2> HIDE DEF a
  <2>2. /\ b \in Seq(Byte) /\ Len(b) = Len(a) + Len(up)
        /\ \A i \in 1 .. Len(a) + Len(up) : b[i] = IF i <= Len(a) THEN a[i] ELSE up[i - Len(a)]
    BY <2>1, ConcatProperties
  <2> HIDE DEF b
  <2>3. Len(b) = Len(rest)
    BY <2>1, <2>2, <1>1, <1>5
  <2>4. ASSUME NEW i \in 1 .. Len(rest) PROVE b[i] = rest[i]
    <3>1. m + i \in 1 .. n + Len(up) /\ ~(m + i <= m) /\ (m + i) - m = i
      BY <1>1, <1>5
    <3>2. w[m + i] = rest[i]
      BY <3>1, <1>5
    <3>3. i \in 1 .. Len(a) + Len(up)
      BY <2>2, <2>3
    <3>4. CASE i <= Len(a)
      <4>1. m + i <= n /\ i \in 1 .. Len(a)
        BY <3>4, <2>1, <1>1, <1>7
      <4> QED
        BY <4>1, <3>1, <3>2, <3>3, <2>1, <2>2, <1>5, <3>4
    <3>5. CASE ~(i <= Len(a))
      <4>1. ~(m + i <= n) /\ (m + i) - n = i - Len(a)
        BY <3>5, <2>1, <1>1, <1>7
      <4> QED
        BY <4>1, <3>1, <3>2, <3>3, <2>2, <1>5, <3>5
    <3> QED
      BY <3>4, <3>5
  <2>5. b = rest
    BY <2>2, <2>3, <2>4, SeqEqual
  <2> QED
    BY <2>5 DEF a, b
<1> QED
  BY <1>6, <1>7 DEF n, m

(* The unsent part of a buffer to whose end bytes are added. *)
LEMMA SuffixGrows ==
  ASSUME NEW s \in Seq(Byte), NEW t \in Seq(Byte), NEW b \in 0 .. Len(s)
  PROVE  /\ s \o t \in Seq(Byte) /\ b \in 0 .. Len(s \o t)
         /\ SubSeq(s, b + 1, Len(s)) \in Seq(Byte)
         /\ SubSeq(s \o t, b + 1, Len(s \o t)) = SubSeq(s, b + 1, Len(s)) \o t
<1> DEFINE u == s \o t
           a == SubSeq(s, b + 1, Len(s))
           c == SubSeq(u, b + 1, Len(u))
           d == a \o t
<1>1. Len(s) \in Nat /\ Len(t) \in Nat
  BY LenProperties
<1>2. /\ u \in Seq(Byte) /\ Len(u) = Len(s) + Len(t)
      /\ \A i \in 1 .. Len(s) + Len(t) : u[i] = IF i <= Len(s) THEN s[i] ELSE t[i - Len(s)]
  BY ConcatProperties
<1> HIDE DEF u
<1>3. a \in Seq(Byte) /\ Len(a) = Len(s) - b /\ \A i \in 1 .. Len(a) : a[i] = s[b + i]
  BY RestOf, ZenonT(60)
<1>4. b \in 0 .. Len(u)
  BY <1>1, <1>2
<1>5. c \in Seq(Byte) /\ Len(c) = Len(u) - b /\ \A i \in 1 .. Len(c) : c[i] = u[b + i]
  <2>1. u \in Seq(Byte)
    BY <1>2
  <2> QED
    BY <2>1, <1>4, RestOf, ZenonT(60)
<1> HIDE DEF a, c
<1>6. /\ d \in Seq(Byte) /\ Len(d) = Len(a) + Len(t)
      /\ \A i \in 1 .. Len(a) + Len(t) : d[i] = IF i <= Len(a) THEN a[i] ELSE t[i - Len(a)]
  BY <1>3, ConcatProperties
<1> HIDE DEF d
<1>7. Len(c) = Len(d)
  BY <1>1, <1>2, <1>3, <1>5, <1>6
<1>8. ASSUME NEW i \in 1 .. Len(c) PROVE c[i] = d[i]
  <2>0. Len(c) = (Len(s) + Len(t)) - b /\ Len(c) = Len(a) + Len(t)
    BY <1>1, <1>2, <1>5, <1>6, <1>7
  <2>1. c[i] = u[b + i] /\ b + i \in 1 .. Len(s) + Len(t) /\ i \in 1 .. Len(a) + Len(t)
    <3>1. c[i] = u[b + i]
      BY <1>5, Zenon
    <3>2. b + i \in 1 .. Len(s) + Len(t)
      BY <2>0, <1>1
    <3>3. i \in 1 .. Len(a) + Len(t)
      BY <2>0
    <3> QED
      BY <3>1, <3>2, <3>3
  <2>2. CASE i <= Len(a)
    <3>1. b + i <= Len(s) /\ i \in 1 .. Len(a)
      BY <2>2, <1>1, <1>3
    <3>2. u[b + i] = s[b + i]
      BY <3>1, <2>1, <1>2
    <3>3. d[i] = a[i] /\ a[i] = s[b + i]
      BY <3>1, <2>1, <2>2, <1>3, <1>6
    <3> QED
      BY <2>1, <3>2, <3>3
  <2>3. CASE ~(i <= Len(a))
    <3>1. ~(b + i <= Len(s)) /\ (b + i) - Len(s) = i - Len(a)
      BY <2>3, <1>1, <1>3
    <3> QED
      BY <3>1, <2>1, <2>3, <1>2, <1>6
  <2> QED
    BY <2>2, <2>3
<1>9. c = d
  BY <1>5, <1>6, <1>7, <1>8, SeqEqual
<1> QED
  BY <1>2, <1>3, <1>4, <1>9 DEF u, a, c, d

(* What is left of a buffer behind its first b bytes. *)
Suffix(s, b) == SubSeq(s, b + 1, Len(s))

(* Its length and its bytes. *)
LEMMA SuffixTyped ==
  ASSUME NEW s \in Seq(Byte), NEW b \in 0 .. Len(s)
  PROVE  /\ Suffix(s, b) \in Seq(Byte) /\ Len(Suffix(s, b)) = Len(s) - b
         /\ \A i \in 1 .. Len(s) - b : Suffix(s, b)[i] = s[b + i]
<1> DEFINE q == SubSeq(s, b + 1, Len(s))
<1>1. q \in Seq(Byte) /\ Len(q) = Len(s) - b /\ \A i \in 1 .. Len(q) : q[i] = s[b + i]
  BY RestOf, ZenonT(60)
<1> HIDE DEF q
<1>2. q \in Seq(Byte) /\ Len(q) = Len(s) - b /\ \A i \in 1 .. Len(s) - b : q[i] = s[b + i]
  BY <1>1
<1> QED
  BY <1>2 DEF q, Suffix

(* Nothing taken leaves all, all taken leaves nothing. *)
LEMMA SuffixEnds ==
  ASSUME NEW s \in Seq(Byte)
  PROVE  Suffix(s, 0) = s /\ Suffix(s, Len(s)) = <<>> /\ Suffix(<<>>, 0) = <<>>
<1>1. Len(s) \in Nat /\ Len(<<>>) = 0
  BY LenProperties
<1>2. SubSeq(s, 1, Len(s)) = s
  BY SubSeqFull
<1>3. SubSeq(s, Len(s) + 1, Len(s)) = <<>>
  BY <1>1, SubSeqEmpty
<1>4. SubSeq(<<>>, 1, 0) = <<>>
  BY SubSeqEmpty
<1> QED
  BY <1>1, <1>2, <1>3, <1>4 DEF Suffix

(* Taking b bytes and then n is taking b + n. *)
LEMMA SuffixOfSuffix ==
  ASSUME NEW s \in Seq(Byte), NEW b \in 0 .. Len(s), NEW n \in 0 .. Len(s) - b
  PROVE  b + n \in 0 .. Len(s) /\ Suffix(s, b + n) = Suffix(Suffix(s, b), n)
<1> DEFINE t == Suffix(s, b)
           u == Suffix(s, b + n)
           v == Suffix(t, n)
<1>1. Len(s) \in Nat
  BY LenProperties
<1>2. b + n \in 0 .. Len(s)
  BY <1>1
<1>3. t \in Seq(Byte) /\ Len(t) = Len(s) - b /\ \A i \in 1 .. Len(s) - b : t[i] = s[b + i]
  BY SuffixTyped, Zenon
<1>4. u \in Seq(Byte) /\ Len(u) = Len(s) - (b + n) /\ \A i \in 1 .. Len(s) - (b + n) : u[i] = s[(b + n) + i]
  BY <1>2, SuffixTyped, Zenon
<1> HIDE DEF t, u
<1>5. v \in Seq(Byte) /\ Len(v) = Len(t) - n /\ \A i \in 1 .. Len(t) - n : v[i] = t[n + i]
  <2>1. n \in 0 .. Len(t) /\ t \in Seq(Byte)
    BY <1>3
  <2> QED
    BY <2>1, SuffixTyped, Zenon
<1> HIDE DEF v
<1>6. Len(u) = Len(v)
  BY <1>1, <1>3, <1>4, <1>5
<1>7. ASSUME NEW i \in 1 .. Len(u) PROVE u[i] = v[i]
  <2>1. i \in 1 .. Len(s) - (b + n) /\ i \in 1 .. Len(t) - n
        /\ n + i \in 1 .. Len(s) - b /\ (b + n) + i = b + (n + i)
    BY <1>1, <1>3, <1>4
  <2>2. u[i] = s[(b + n) + i]
    BY <2>1, <1>4
  <2>3. v[i] = t[n + i]
    BY <2>1, <1>5
  <2>4. t[n + i] = s[b + (n + i)]
    BY <2>1, <1>3
  <2> QED
    BY <2>1, <2>2, <2>3, <2>4
<1>8. u = v
  BY <1>4, <1>5, <1>6, <1>7, SeqEqual
<1> QED
  BY <1>2, <1>8 DEF u, v, t

(* Cutting a stream behind its first n bytes. *)
LEMMA Cut ==
  ASSUME NEW s \in Seq(Byte), NEW n \in 0 .. Len(s)
  PROVE  /\ SubSeq(s, 1, n) \in Seq(Byte) /\ Len(SubSeq(s, 1, n)) = n /\ Suffix(s, n) \in Seq(Byte)
         /\ SubSeq(s, 1, n) \o Suffix(s, n) = s
<1>1. Len(s) \in Nat /\ \A i \in 1 .. Len(s) : s[i] \in Byte
  BY LenProperties, ElementOfSeq
<1>2. \A i \in 1 .. n : s[i] \in Byte
  BY <1>1
<1>3. 1 \in Int /\ n \in Int
  BY <1>1
<1>4. /\ SubSeq(s, 1, n) \in Seq(Byte)
      /\ Len(SubSeq(s, 1, n)) = IF 1 <= n THEN n - 1 + 1 ELSE 0
  BY <1>2, <1>3, SubSeqProperties
<1>5. Len(SubSeq(s, 1, n)) = n
  BY <1>1, <1>4
<1>6. Suffix(s, n) \in Seq(Byte)
  BY SuffixTyped, Zenon
<1>7. SubSeq(s, 1, n) \o SubSeq(s, n + 1, Len(s)) = SubSeq(s, 1, Len(s))
  <2>1. 1 \in 1 .. Len(s) + 1 /\ n \in 1 - 1 .. Len(s) /\ Len(s) \in n .. Len(s)
    BY <1>1
  <2> QED
    BY <2>1, ConcatAdjacentSubSeq, Zenon
<1>8. SubSeq(s, 1, Len(s)) = s
  BY SubSeqFull, Zenon
<1>9. SubSeq(s, 1, n) \o Suffix(s, n) = s
  BY <1>7, <1>8, Zenon DEF Suffix
<1> QED
  BY <1>4, <1>5, <1>6, <1>9, Zenon

-----------------------------------------------------------------------------
(* The invariant. *)

(* What a frame carries is a request the protocol can carry. *)
LEMMA CarriedTyped ==
  ASSUME NEW r \in WireRequest
  PROVE  Carried(r) \in WireRequest
<1> DEFINE c == r.command
           x == [type |-> c.type, sequence |-> 0,
                 side |-> IF c.type = "New" THEN c.side ELSE "Buy",
                 order_type |-> IF c.type = "New" THEN c.order_type ELSE "Limit",
                 order_id |-> c.order_id,
                 price |-> IF c.type = "Cancel" THEN 0 ELSE c.price,
                 quantity |-> IF c.type = "Cancel" THEN 0 ELSE c.quantity]
<1>1. c \in WireCommand /\ r.session_id \in 1 .. U32 - 1 /\ r.client_sequence \in 1 .. U64 - 1
  BY DEF WireRequest
<1>2. Carried(r) = [session_id |-> r.session_id, client_sequence |-> r.client_sequence, command |-> x]
  BY CarriedFields, Zenon
<1>3. U64 \in Nat /\ U64 >= 2
  BY Bases
<1>4. /\ c.type \in {"New", "Cancel", "Replace"} /\ c.side \in {"Buy", "Sell"}
      /\ c.order_type \in {"Limit", "Market", "ImmediateOrCancel", "FillOrKill"}
      /\ c.order_id \in 1 .. U64 - 1 /\ c.price \in -(U64 \div 2) .. U64 \div 2 - 1 /\ c.quantity \in 0 .. U64 - 1
  BY <1>1 DEF WireCommand
<1>5. 0 \in 0 .. U64 - 1 /\ 0 \in -(U64 \div 2) .. U64 \div 2 - 1
  BY <1>3
<1>6. x \in WireCommand
  <2>1. /\ (IF c.type = "New" THEN c.side ELSE "Buy") \in {"Buy", "Sell"}
        /\ (IF c.type = "New" THEN c.order_type ELSE "Limit") \in {"Limit", "Market", "ImmediateOrCancel", "FillOrKill"}
        /\ (IF c.type = "Cancel" THEN 0 ELSE c.price) \in -(U64 \div 2) .. U64 \div 2 - 1
        /\ (IF c.type = "Cancel" THEN 0 ELSE c.quantity) \in 0 .. U64 - 1
    BY <1>4, <1>5
  <2> QED
    BY <2>1, <1>4, <1>5 DEF WireCommand
<1> HIDE DEF x
<1> QED
  BY <1>1, <1>2, <1>6 DEF WireRequest

(* gateway_rejection yields a response the protocol can carry. *)
LEMMA RejectionTyped ==
  ASSUME NEW r \in WireRequest
  PROVE  Rejection(r, "RiskLimit") \in WireResponse
<1>1. r.command \in WireCommand /\ r.session_id \in 1 .. U32 - 1 /\ r.client_sequence \in 1 .. U64 - 1
  BY DEF WireRequest
<1>2. U64 \in Nat /\ U64 >= 2
  BY Bases
<1>3. 0 \in 0 .. U64 - 1 /\ \A x \in 1 .. U64 - 1 : x \in 0 .. U64 - 1
  BY <1>2
<1>4. /\ r.command.side \in {"Buy", "Sell"} /\ r.command.order_id \in 1 .. U64 - 1
      /\ r.command.price \in -(U64 \div 2) .. U64 \div 2 - 1 /\ r.command.quantity \in 0 .. U64 - 1
  BY <1>1 DEF WireCommand
<1>5. "Rejected" \in EventTypes /\ "RiskLimit" \in Rejections
  BY DEF EventTypes, Rejections
<1>6. r.command.order_id \in 0 .. U64 - 1
  BY <1>3, <1>4
<1> QED
  BY <1>1, <1>3, <1>4, <1>5, <1>6 DEF Rejection, WireResponse, WireEvent

(* So does the engine, while the counter of its events has not wrapped. *)
LEMMA EngineEventTyped ==
  ASSUME NEW r \in WireRequest, Len(answers) \in Nat, Len(answers) + 1 < U64
  PROVE  EngineEvent(r) \in WireResponse
<1>1. r.command \in WireCommand /\ r.session_id \in 1 .. U32 - 1 /\ r.client_sequence \in 1 .. U64 - 1
  BY DEF WireRequest
<1>2. U64 \in Nat /\ U64 >= 2
  BY Bases
<1>4. /\ r.command.side \in {"Buy", "Sell"} /\ r.command.order_id \in 1 .. U64 - 1
      /\ r.command.price \in -(U64 \div 2) .. U64 \div 2 - 1 /\ r.command.quantity \in 0 .. U64 - 1
  BY <1>1 DEF WireCommand
<1>5. "Trade" \in EventTypes /\ "None" \in Rejections
  BY DEF EventTypes, Rejections
<1>6. r.command.order_id \in 0 .. U64 - 1 /\ U64 - r.command.order_id \in 0 .. U64 - 1
      /\ Len(answers) + 1 \in 0 .. U64 - 1
  BY <1>2, <1>4, SMTT(30)
<1> QED
  BY <1>1, <1>4, <1>5, <1>6 DEF EngineEvent, WireResponse, WireEvent

(* The buffers hold bytes, and their marks lie within them: outside read_requests
   the receive buffer begins with a frame that is not decoded. *)
Wires ==
  /\ upstream \in Seq(Byte) /\ receive \in Seq(Byte)
  /\ transmit \in Seq(Byte) /\ downstream \in Seq(Byte)
  /\ consumed \in 0 .. Len(receive) /\ begin \in 0 .. Len(transmit)
  /\ open /\ pc = "wait" => consumed = 0

(* The histories, none of them longer than what it answers. *)
Histories ==
  /\ engine \in Seq(WireRequest) /\ decoded \in Seq(WireRequest)
  /\ answers \in Seq(WireResponse) /\ seen \in Seq(WireResponse)
  /\ offered \in Seq(Frames) /\ Len(offered) <= MaxFrames
  /\ Len(answers) + Len(engine) <= Len(decoded)

(* The type invariant. *)
Typed == pc \in {"wait", "decode"} /\ open \in BOOLEAN /\ Wires /\ Histories

(* RequestsIntact, as a statement about one stream: behind the frames decoded come,
   in this order, the bytes buffered and the bytes on their way. *)
Requests ==
  /\ Len(decoded) <= Len(offered)
  /\ \A i \in 1 .. Len(decoded) :
       offered[i].damage \notin Damages /\ decoded[i] = Carried(offered[i].request)
  /\ open => Suffix(receive, consumed) \o upstream = Behind(FrameStrings(offered), Len(decoded))

(* ResponsesIntact, likewise: behind the responses seen come the bytes at the client
   and the unsent part of the transmit buffer. *)
Responses ==
  /\ Len(seen) <= Len(answers)
  /\ \A i \in 1 .. Len(seen) : seen[i] = answers[i]
  /\ downstream \o Suffix(transmit, begin) = Behind(ReplyStrings(answers), Len(seen))

(* The inductive invariant. *)
IndInv == Typed /\ Requests /\ Responses /\ ClosedOnlyForCause

(* The stream of the requests gives RequestsIntact. *)
LEMMA RequestsRestated ==
  ASSUME Typed, Requests
  PROVE  RequestsIntact
<1>1. decoded \in Seq(WireRequest) /\ offered \in Seq(Frames)
  BY DEF Typed, Histories
<1>2. DOMAIN decoded = 1 .. Len(decoded) /\ Len(decoded) \in Nat /\ Len(offered) \in Nat
  BY <1>1, LenProperties
<1>3. Len(decoded) \in 0 .. Len(offered)
  BY <1>2 DEF Requests
<1>4. Encoded(SubSeq(offered, Len(decoded) + 1, Len(offered))) = Behind(FrameStrings(offered), Len(decoded))
  BY <1>1, <1>3, FramesBehind, Zenon
<1>5. Input = Suffix(receive, consumed)
  BY DEF Input, Suffix
<1>6. open => Input \o upstream = Encoded(SubSeq(offered, Len(decoded) + 1, Len(offered)))
  BY <1>4, <1>5, Zenon DEF Requests
<1>7. \A i \in DOMAIN decoded :
        offered[i].damage \notin Damages /\ decoded[i] = Carried(offered[i].request)
  BY <1>2, Zenon DEF Requests
<1> QED
  BY <1>6, <1>7, Zenon DEF RequestsIntact, Requests

(* The stream of the responses gives ResponsesIntact. *)
LEMMA ResponsesRestated ==
  ASSUME Typed, Responses
  PROVE  ResponsesIntact
<1>1. answers \in Seq(WireResponse) /\ seen \in Seq(WireResponse)
  BY DEF Typed, Histories
<1>2. Len(answers) \in Nat /\ Len(seen) \in Nat
  BY <1>1, LenProperties
<1>3. Len(seen) \in 0 .. Len(answers)
  BY <1>2 DEF Responses
<1> DEFINE unseen == SubSeq(answers, Len(seen) + 1, Len(answers))
<1>4. Replies(unseen) = Behind(ReplyStrings(answers), Len(seen))
  BY <1>1, <1>3, RepliesBehind, Zenon
<1>5. downstream \o SubSeq(transmit, begin + 1, Len(transmit))
        = FlattenSeq([i \in DOMAIN unseen |-> EncodeResponse(unseen[i])])
  BY <1>4, Zenon DEF Replies, Suffix, Responses
<1>6. SubSeq(seen, 1, Len(seen)) = SubSeq(answers, 1, Len(seen))
  <2> DEFINE n == Len(seen)
             p == SubSeq(answers, 1, n)
  <2>1. \A i \in 1 .. n : answers[i] \in WireResponse
    BY <1>1, <1>2, <1>3, ElementOfSeq
  <2>2. 1 \in Int /\ n \in Int
    BY <1>2
  <2>3. /\ p \in Seq(WireResponse)
        /\ Len(p) = IF 1 <= n THEN n - 1 + 1 ELSE 0
        /\ \A i \in 1 .. n - 1 + 1 : p[i] = answers[1 + i - 1]
    BY <2>1, <2>2, SubSeqProperties
  <2> HIDE DEF p
  <2>4. Len(seen) = Len(p) /\ \A i \in 1 .. Len(seen) : seen[i] = p[i]
    <3>1. Len(p) = n
      BY <2>3, <1>2
    <3>2. ASSUME NEW i \in 1 .. n PROVE seen[i] = p[i]
      <4>1. i \in 1 .. n - 1 + 1 /\ 1 + i - 1 = i
        BY <1>2
      <4>2. p[i] = answers[i]
        BY <4>1, <2>3
      <4> QED
        BY <4>2 DEF Responses
    <3> QED
      BY <3>1, <3>2
  <2>5. seen = p
    BY <2>3, <2>4, <1>1, SeqEqual
  <2>6. SubSeq(seen, 1, Len(seen)) = seen
    BY <1>1, SubSeqFull
  <2> QED
    BY <2>5, <2>6 DEF p
<1>7. IsPrefix(seen, answers)
  BY <1>6 DEF IsPrefix, Responses
<1> QED
  BY <1>5, <1>7, Zenon DEF ResponsesIntact

-----------------------------------------------------------------------------
(* What the front of each stream decodes to. *)

(* The bytes of the buffer and the next frame. *)
LEMMA NextFrame ==
  ASSUME Typed, Requests, open, consumed < Len(receive)
  PROVE  /\ Len(decoded) < Len(offered)
         /\ offered[Len(decoded) + 1] \in Frames
         /\ \A input, frame, size :
              input = Suffix(receive, consumed) /\ frame = offered[Len(decoded) + 1]
              /\ size = RequestFrameSize(frame.request.command.type) =>
              /\ size \in 32 .. 52
              /\ \A i \in 1 .. Len(input) : i <= size => input[i] = Bytes(frame)[i]
              /\ Len(input) >= size =>
                   Suffix(input, size) \o upstream = Behind(FrameStrings(offered), Len(decoded) + 1)
<1> DEFINE k == Len(decoded)
           in == Suffix(receive, consumed)
           s == FrameStrings(offered)
           f == offered[k + 1]
<1>1. decoded \in Seq(WireRequest) /\ offered \in Seq(Frames)
  BY DEF Typed, Histories
<1>2. k \in Nat /\ Len(offered) \in Nat /\ k <= Len(offered)
  BY <1>1, LenProperties DEF Requests
<1>3. receive \in Seq(Byte) /\ upstream \in Seq(Byte) /\ consumed \in 0 .. Len(receive)
  BY DEF Typed, Wires
<1>4. in \in Seq(Byte) /\ Len(in) = Len(receive) - consumed
  BY <1>3, SuffixTyped, Zenon
<1>5. Len(receive) \in Nat /\ Len(upstream) \in Nat
  BY <1>3, LenProperties
<1>6. s \in Strings /\ Len(s) = Len(offered)
  BY <1>1, FrameStringsTyped, Zenon
<1>7. in \o upstream = Behind(s, k)
  BY Zenon DEF Requests
<1> HIDE DEF in, s
<1>8. Len(in) \in Nat \ {0}
  BY <1>3, <1>4, <1>5
<1>9. k # Len(s)
  <2> SUFFICES ASSUME k = Len(s) PROVE FALSE
    OBVIOUS
  <2>1. k \in 0 .. Len(s)
    BY <1>2, <1>6
  <2>2. Behind(s, k) = <<>>
    BY <2>1, <1>6, BehindTyped, Zenon
  <2>3. Len(in \o upstream) = Len(in) + Len(upstream)
    BY <1>3, <1>4, ConcatProperties
  <2>4. Len(in \o upstream) = 0
    BY <2>2, <1>7
  <2> QED
    BY <2>3, <2>4, <1>5, <1>8
<1>10. k < Len(offered) /\ k \in 0 .. Len(s) /\ k + 1 \in 1 .. Len(offered)
  BY <1>2, <1>6, <1>9
<1>11. f \in Frames
  BY <1>1, <1>10, ElementOfSeq
<1>12. s[k + 1] = Bytes(f)
  BY <1>10 DEF s, FrameStrings
<1>13. /\ s[k + 1] \in Seq(Byte) /\ Behind(s, k + 1) \in Seq(Byte)
       /\ Behind(s, k) = s[k + 1] \o Behind(s, k + 1)
  BY <1>6, <1>9, <1>10, BehindNext, Zenon
<1> DEFINE size == RequestFrameSize(f.request.command.type)
           b == Bytes(f)
           rest == Behind(s, k + 1)
<1>14. b \in Seq(Byte) /\ Len(b) = size /\ size \in 32 .. 52
  BY <1>11, FrameBytes, Zenon
<1>15. in \o upstream = b \o rest
  BY <1>7, <1>12, <1>13, Zenon
<1> HIDE DEF b, rest, size, f
<1>16. /\ \A i \in 1 .. Len(in) : i <= Len(b) => in[i] = b[i]
       /\ Len(in) >= Len(b) => SubSeq(in, Len(b) + 1, Len(in)) \o upstream = rest
  <2>1. rest \in Seq(Byte)
    BY <1>13 DEF rest
  <2> QED
    BY <2>1, <1>3, <1>4, <1>14, <1>15, StreamHead, Zenon
<1>17. /\ \A i \in 1 .. Len(in) : i <= size => in[i] = b[i]
       /\ Len(in) >= size => Suffix(in, size) \o upstream = rest
  BY <1>14, <1>16 DEF Suffix
<1> QED
  BY <1>10, <1>11, <1>14, <1>17, Zenon DEF in, f, size, b, rest, s, k

(* What decode_request says of the buffer. *)
LEMMA FrameDecoded ==
  ASSUME Typed, Requests, open, consumed < Len(receive)
  PROVE  LET frame == offered[Len(decoded) + 1]
             size == RequestFrameSize(frame.request.command.type) IN
         /\ size \in 32 .. 52 /\ frame.request \in WireRequest
         /\ frame.damage \in Damages => RequestStatus(Input) # "Ok"
         /\ frame.damage \notin Damages =>
              /\ RequestStatus(Input) = IF Len(Input) < size THEN "NeedMoreData" ELSE "Ok"
              /\ Len(Input) >= size =>
                   FrameLength(Input) = size /\ DecodedRequest(Input) = Carried(frame.request)
<1> DEFINE f == offered[Len(decoded) + 1]
           type == f.request.command.type
           size == RequestFrameSize(type)
           in == Suffix(receive, consumed)
<1>1. Input = in
  BY DEF Input, Suffix
<1>2. f \in Frames
  BY NextFrame, Zenon
<1>3. size \in 32 .. 52 /\ \A i \in 1 .. Len(in) : i <= size => in[i] = Bytes(f)[i]
  BY NextFrame, Zenon
<1>4. in \in Seq(Byte)
  BY SuffixTyped, Zenon DEF Typed, Wires
<1>5. Len(in) \in Nat
  BY <1>4, LenProperties
<1>6. f.request \in WireRequest
  BY <1>2, FrameRequest, Zenon
<1>7. /\ Bytes(f) \in Seq(Byte) /\ Len(Bytes(f)) = size
      /\ f.damage \notin Damages =>
           \A i \in 1 .. size : i \notin Reserved(type) => Bytes(f)[i] = EncodeRequest(f.request)[i]
      /\ f.damage \in Damages => Malformed(Bytes(f))
  BY <1>2, FrameBytes, Zenon
<1> HIDE DEF in
<1>8. ASSUME f.damage \in Damages PROVE RequestStatus(in) # "Ok"
  <2> DEFINE b == Bytes(f)
  <2>1. b \in Seq(Byte) /\ Len(b) = size /\ Malformed(b)
    BY <1>7, <1>8, Zenon
  <2> HIDE DEF b
  <2>2. Len(b) >= 24 /\ BeginsWith(in, b)
    <3> HIDE DEF size, f
    <3> QED
      BY <2>1, <1>3 DEF b, BeginsWith
  <2> QED
    BY <2>1, <2>2, <1>5, RefusesMalformed, Zenon
<1>9. ASSUME f.damage \notin Damages
      PROVE  /\ RequestStatus(in) = IF Len(in) < size THEN "NeedMoreData" ELSE "Ok"
             /\ Len(in) >= size => FrameLength(in) = size /\ DecodedRequest(in) = Carried(f.request)
  <2>1. \A i \in 1 .. size : i \notin Reserved(type) => Bytes(f)[i] = EncodeRequest(f.request)[i]
    BY <1>7, <1>9, Zenon
  <2>2. \A i \in 1 .. Len(in) : i <= size /\ i \notin Reserved(type) => in[i] = EncodeRequest(f.request)[i]
    <3> HIDE DEF size, type, f
    <3> TAKE i \in 1 .. Len(in)
    <3> SUFFICES ASSUME i <= size, i \notin Reserved(type) PROVE in[i] = EncodeRequest(f.request)[i]
      OBVIOUS
    <3>1. i \in 1 .. size
      BY <1>3, <1>5
    <3>2. in[i] = Bytes(f)[i]
      BY <1>3
    <3> QED
      BY <2>1, <3>1, <3>2, Zenon
  <2>3. Intact(in, f.request)
    BY <2>2, Zenon DEF Intact
  <2> QED
    BY <2>3, <1>5, <1>6, DecodesIntact, Zenon
<1> QED
  BY <1>1, <1>3, <1>6, <1>8, <1>9, Zenon

(* The bytes at the client and the next response. *)
LEMMA NextReply ==
  ASSUME Typed, Responses, downstream # <<>>, ResponseStatus(downstream) = "Ok"
  PROVE  /\ Len(seen) < Len(answers)
         /\ Len(downstream) >= 68 /\ FrameLength(downstream) = 68
         /\ DecodedResponse(downstream) = answers[Len(seen) + 1]
         /\ Suffix(downstream, 68) \o Suffix(transmit, begin)
              = Behind(ReplyStrings(answers), Len(seen) + 1)
<1> DEFINE k == Len(seen)
           in == downstream
           up == Suffix(transmit, begin)
           s == ReplyStrings(answers)
           r == answers[k + 1]
<1>1. seen \in Seq(WireResponse) /\ answers \in Seq(WireResponse)
  BY DEF Typed, Histories
<1>2. k \in Nat /\ Len(answers) \in Nat /\ k <= Len(answers)
  BY <1>1, LenProperties DEF Responses
<1>3. in \in Seq(Byte) /\ up \in Seq(Byte)
  BY SuffixTyped, Zenon DEF Typed, Wires
<1>4. Len(in) \in Nat \ {0}
  BY <1>3, EmptySeq
<1>5. Len(up) \in Nat
  BY <1>3, LenProperties
<1>6. s \in Strings /\ Len(s) = Len(answers)
  BY <1>1, ReplyStringsTyped, Zenon
<1>7. in \o up = Behind(s, k)
  BY Zenon DEF Responses
<1> HIDE DEF up, s
<1>9. k # Len(s)
  <2> SUFFICES ASSUME k = Len(s) PROVE FALSE
    OBVIOUS
  <2>1. k \in 0 .. Len(s)
    BY <1>2, <1>6
  <2>2. Behind(s, k) = <<>>
    BY <2>1, <1>6, BehindTyped, Zenon
  <2>3. Len(in \o up) = Len(in) + Len(up)
    BY <1>3, ConcatProperties
  <2>4. Len(in \o up) = 0
    BY <2>2, <1>7
  <2> QED
    BY <2>3, <2>4, <1>4, <1>5
<1>10. k < Len(answers) /\ k \in 0 .. Len(s) /\ k + 1 \in 1 .. Len(answers)
  BY <1>2, <1>6, <1>9
<1>11. r \in WireResponse
  BY <1>1, <1>10, ElementOfSeq
<1>12. s[k + 1] = EncodeResponse(r)
  BY <1>10 DEF s, ReplyStrings
<1>13. /\ s[k + 1] \in Seq(Byte) /\ Behind(s, k + 1) \in Seq(Byte)
       /\ Behind(s, k) = s[k + 1] \o Behind(s, k + 1)
  BY <1>6, <1>9, <1>10, BehindNext, Zenon
<1> DEFINE b == EncodeResponse(r)
           rest == Behind(s, k + 1)
<1>14. b \in Seq(Byte) /\ Len(b) = 68
  BY <1>11, ResponseLayout, Zenon
<1>15. in \o up = b \o rest
  BY <1>7, <1>12, <1>13, Zenon
<1> HIDE DEF b, rest, r
<1>16. /\ \A i \in 1 .. Len(in) : i <= Len(b) => in[i] = b[i]
       /\ Len(in) >= Len(b) => SubSeq(in, Len(b) + 1, Len(in)) \o up = rest
  <2>1. rest \in Seq(Byte)
    BY <1>13 DEF rest
  <2>2. b \in Seq(Byte)
    BY <1>14
  <2> QED
    BY <2>1, <2>2, <1>3, <1>15, StreamHead, Zenon
<1>17. /\ \A i \in 1 .. Len(in) : i <= 68 => in[i] = b[i]
       /\ Len(in) >= 68 => Suffix(in, 68) \o up = rest
  BY <1>14, <1>16 DEF Suffix
<1>18. Len(in) >= 68 /\ FrameLength(in) = 68 /\ DecodedResponse(in) = r
  <2>1. Len(in) \in Nat
    BY <1>4
  <2>2. \A i \in 1 .. Len(in) : i <= 68 => in[i] = EncodeResponse(r)[i]
    BY <1>17 DEF b
  <2> QED
    BY <2>1, <2>2, <1>11, DecodesResponse, Zenon
<1> QED
  BY <1>10, <1>17, <1>18, Zenon DEF r, up, s, rest

(* queue_response: whether or not it compacts, the unsent bytes only grow. *)
LEMMA CompactedUnsent ==
  ASSUME Typed
  PROVE  /\ Compacted.transmit \in Seq(Byte) /\ Compacted.begin \in 0 .. Len(Compacted.transmit)
         /\ Suffix(Compacted.transmit, Compacted.begin) = Suffix(transmit, begin)
         /\ MustCompact => Len(Compacted.transmit) = Len(transmit) - begin
         /\ ~MustCompact => Compacted.transmit = transmit
<1>1. transmit \in Seq(Byte) /\ begin \in 0 .. Len(transmit)
  BY DEF Typed, Wires
<1> DEFINE u == Suffix(transmit, begin)
<1>2. u \in Seq(Byte) /\ Len(u) = Len(transmit) - begin
  BY <1>1, SuffixTyped, Zenon
<1>3. CASE MustCompact
  <2>1. Compacted.transmit = u /\ Compacted.begin = 0
    BY <1>3 DEF Compacted, Moved, Suffix
  <2> HIDE DEF u
  <2>2. Suffix(u, 0) = u /\ Len(u) \in Nat
    BY <1>2, SuffixEnds, LenProperties
  <2> QED
    BY <2>1, <2>2, <1>2, <1>3 DEF u
<1>4. CASE ~MustCompact
  <2>1. Compacted.transmit = transmit /\ Compacted.begin = begin
    BY <1>4 DEF Compacted
  <2> QED
    BY <2>1, <1>1, <1>4
<1> QED
  BY <1>3, <1>4

(* A response that queue_response refuses finds the buffer full of unsent bytes. *)
LEMMA NoRoom ==
  ASSUME Typed, NEW response \in WireResponse, ~HasRoom(response)
  PROVE  Len(transmit) - begin > TransmitCapacity - ResponseFrameSize
<1>1. transmit \in Seq(Byte) /\ begin \in 0 .. Len(transmit) /\ TransmitCapacity \in Nat
  BY FramingAssumption DEF Typed, Wires
<1>2. Len(transmit) \in Nat
  BY <1>1, LenProperties
<1>3. response.session_id # 0 /\ response.client_sequence # 0
  BY DEF WireResponse
<1>4. ~(TransmitCapacity - Len(Compacted.transmit) >= 68)
  BY <1>3 DEF HasRoom, ResponseFits, ResponseFrameSize
<1>5. CASE MustCompact
  BY <1>1, <1>2, <1>4, <1>5, CompactedUnsent DEF ResponseFrameSize
<1>6. CASE ~MustCompact
  BY <1>1, <1>2, <1>4, <1>6, CompactedUnsent DEF ResponseFrameSize, MustCompact
<1> QED
  BY <1>5, <1>6

-----------------------------------------------------------------------------
(* The steps. *)

(* A step that leaves the way of the requests alone keeps their stream. *)
LEMMA SameRequests ==
  ASSUME Requests, UNCHANGED <<receive, consumed, upstream, offered, decoded>>, open' => open
  PROVE  Requests'
<1>1. receive' = receive /\ consumed' = consumed /\ upstream' = upstream /\ offered' = offered /\ decoded' = decoded
  OBVIOUS
<1> QED
  BY <1>1, Zenon DEF Requests

(* A step that leaves the way of the responses alone keeps theirs. *)
LEMMA SameResponses ==
  ASSUME Responses, UNCHANGED <<downstream, transmit, begin, answers, seen>>
  PROVE  Responses'
<1>1. downstream' = downstream /\ transmit' = transmit /\ begin' = begin /\ answers' = answers /\ seen' = seen
  OBVIOUS
<1> QED
  BY <1>1, Zenon DEF Responses

(* queue_response adds the response at the end of the stream. *)
LEMMA Queued ==
  ASSUME Typed, Responses, NEW response \in WireResponse, QueueResponse(response),
         downstream' = downstream, seen' = seen
  PROVE  /\ transmit' \in Seq(Byte) /\ begin' \in 0 .. Len(transmit')
         /\ answers' \in Seq(WireResponse) /\ Len(answers') = Len(answers) + 1
         /\ Responses'
<1> DEFINE t == Compacted.transmit
           b == Compacted.begin
           e == EncodeResponse(response)
           u == Suffix(transmit, begin)
           s == ReplyStrings(answers)
           k == Len(seen)
<1>1. t \in Seq(Byte) /\ b \in 0 .. Len(t) /\ Suffix(t, b) = u
  BY CompactedUnsent, Zenon
<1>2. e \in Seq(Byte)
  BY ResponseLayout, Zenon
<1>3. transmit' = t \o e /\ begin' = b /\ answers' = Append(answers, response)
  BY DEF QueueResponse
<1>4. answers \in Seq(WireResponse) /\ seen \in Seq(WireResponse) /\ downstream \in Seq(Byte)
  BY DEF Typed, Histories, Wires
<1>5. u \in Seq(Byte)
  BY SuffixTyped, Zenon DEF Typed, Wires
<1>6. /\ answers' \in Seq(WireResponse) /\ Len(answers') = Len(answers) + 1
      /\ \A i \in 1 .. Len(answers) : answers'[i] = answers[i]
  BY <1>3, <1>4, AppendProperties
<1>7. s \in Strings /\ Len(s) = Len(answers)
  BY <1>4, ReplyStringsTyped, Zenon
<1>8. ReplyStrings(answers') = Append(s, e)
  <2>1. ReplyStrings(Append(answers, response)) = Append(s, e)
    BY <1>4, ReplyStringsGrow, Zenon
  <2> QED
    BY <2>1, <1>3, Zenon
<1>9. k \in Nat /\ Len(answers) \in Nat /\ k <= Len(answers)
  BY <1>4, LenProperties DEF Responses
<1>10. downstream \o u = Behind(s, k)
  BY Zenon DEF Responses
<1> HIDE DEF t, b, e, u, s
<1>11. /\ t \o e \in Seq(Byte) /\ b \in 0 .. Len(t \o e) /\ Suffix(t \o e, b) = Suffix(t, b) \o e
  BY <1>1, <1>2, SuffixGrows, Zenon DEF Suffix
<1>12. transmit' \in Seq(Byte) /\ begin' \in 0 .. Len(transmit') /\ Suffix(transmit', begin') = u \o e
  BY <1>1, <1>3, <1>11, Zenon
<1>13. Behind(Append(s, e), k) = Behind(s, k) \o e
  <2>1. k \in 0 .. Len(s)
    BY <1>7, <1>9
  <2> QED
    BY <2>1, <1>2, <1>7, BehindGrows, Zenon
<1>14. downstream' \o Suffix(transmit', begin') = Behind(ReplyStrings(answers'), Len(seen'))
  <2> DEFINE d == downstream
             y == d \o u
             z == u \o e
  <2>1. d \in Seq(Byte) /\ u \in Seq(Byte) /\ e \in Seq(Byte) /\ y = d \o u /\ z = u \o e
    BY <1>2, <1>4, <1>5
  <2> HIDE DEF d, y, z
  <2>2. y \o e = d \o z
    BY <2>1, Regroup, SMTT(30)
  <2>3. downstream' = d /\ Suffix(transmit', begin') = z /\ y = Behind(s, k)
    BY <1>10, <1>12 DEF d, y, z
  <2> QED
    BY <2>2, <2>3, <1>8, <1>13, Zenon
<1>15. Len(seen') <= Len(answers') /\ \A i \in 1 .. Len(seen') : seen'[i] = answers'[i]
  <2>1. \A i \in 1 .. Len(seen) : i \in 1 .. Len(answers)
    BY <1>9
  <2>2. Len(seen) <= Len(answers')
    BY <1>6, <1>9
  <2> QED
    BY <2>1, <2>2, <1>6 DEF Responses
<1> QED
  BY <1>6, <1>12, <1>14, <1>15, Zenon DEF Responses

(* The inductive invariant holds of an accepted connection. *)
LEMMA IndStart == Init => IndInv
<1> SUFFICES ASSUME Init PROVE IndInv
  OBVIOUS
<1>0. Len(<<>>) = 0 /\ \A S : <<>> \in Seq(S)
  BY EmptySeq
<1>1. Wires
  <2>1. <<>> \in Seq(Byte)
    BY <1>0
  <2> QED
    BY <2>1, <1>0 DEF Init, Wires
<1>2. Histories
  <2>1. <<>> \in Seq(WireRequest) /\ <<>> \in Seq(WireResponse) /\ <<>> \in Seq(Frames)
    BY <1>0
  <2>2. 0 <= MaxFrames
    BY FramingAssumption, Bases
  <2> QED
    BY <2>1, <2>2, <1>0 DEF Init, Histories
<1>3. Typed
  BY <1>1, <1>2, Zenon DEF Init, Typed
<1>4. <<>> \in Seq(Byte)
  BY <1>0
<1>5. Suffix(<<>>, 0) = <<>> /\ <<>> \o <<>> = <<>>
  <2>1. Suffix(<<>>, 0) = <<>>
    BY <1>4, SuffixEnds, Zenon
  <2>2. <<>> \o <<>> = <<>>
    BY <1>4, ConcatEmptySeq
  <2> QED
    BY <2>1, <2>2
<1>6. Behind(FrameStrings(<<>>), 0) = <<>>
  <2> DEFINE s == FrameStrings(<<>>)
  <2>1. <<>> \in Seq(Frames)
    BY <1>0
  <2>2. s \in Strings /\ Len(s) = 0
    <3>1. s \in Strings /\ Len(s) = Len(<<>>)
      BY <2>1, FrameStringsTyped, Zenon
    <3> QED
      BY <3>1, <1>0
  <2> HIDE DEF s
  <2>3. 0 \in 0 .. Len(s) /\ 0 = Len(s)
    BY <2>2
  <2> QED
    BY <2>2, <2>3, BehindTyped, Zenon DEF s
<1>7. Behind(ReplyStrings(<<>>), 0) = <<>>
  <2> DEFINE s == ReplyStrings(<<>>)
  <2>1. <<>> \in Seq(WireResponse)
    BY <1>0
  <2>2. s \in Strings /\ Len(s) = 0
    <3>1. s \in Strings /\ Len(s) = Len(<<>>)
      BY <2>1, ReplyStringsTyped, Zenon
    <3> QED
      BY <3>1, <1>0
  <2> HIDE DEF s
  <2>3. 0 \in 0 .. Len(s) /\ 0 = Len(s)
    BY <2>2
  <2> QED
    BY <2>2, <2>3, BehindTyped, Zenon DEF s
<1>8. Requests
  BY <1>0, <1>5, <1>6 DEF Init, Requests
<1>9. Responses
  BY <1>0, <1>5, <1>7 DEF Init, Responses
<1>10. ClosedOnlyForCause
  BY DEF Init, ClosedOnlyForCause
<1> QED
  BY <1>3, <1>8, <1>9, <1>10 DEF IndInv

(* A step that leaves the cause of the closing alone keeps it. *)
LEMMA StillClosed ==
  ASSUME ClosedOnlyForCause, UNCHANGED <<open, offered, decoded, transmit, begin>>
  PROVE  ClosedOnlyForCause'
<1>1. open' = open /\ offered' = offered /\ decoded' = decoded /\ transmit' = transmit /\ begin' = begin
  OBVIOUS
<1> QED
  BY <1>1 DEF ClosedOnlyForCause

(* A frame sent extends the stream of the requests. *)
LEMMA SendKeeps ==
  ASSUME IndInv, NEW command \in Commands, NEW damage \in {Undamaged} \cup Damages \cup Paddings,
         Send(command, damage)
  PROVE  IndInv'
<1> DEFINE n == Len(offered) + 1
           request == Request(command, n)
           frame == [request |-> request, damage |-> damage]
           s == FrameStrings(offered)
           k == Len(decoded)
           in == Suffix(receive, consumed)
           x == Bytes(frame)
<1>1. Typed /\ Requests /\ Responses
  BY DEF IndInv
<1>2. /\ open /\ Len(offered) < MaxFrames /\ Encodable(request)
      /\ damage # Undamaged => damage.type = command.type
      /\ offered' = Append(offered, frame) /\ upstream' = upstream \o x
      /\ UNCHANGED <<pc, open, receive, consumed, transmit, begin, downstream, engine, decoded, answers, seen>>
  BY DEF Send, transmitVars
<1>3. offered \in Seq(Frames) /\ decoded \in Seq(WireRequest)
  BY <1>1 DEF Typed, Histories
<1>4. Len(offered) \in Nat /\ k \in Nat /\ k <= Len(offered) /\ MaxFrames \in Nat
  BY <1>1, <1>3, LenProperties, FramingAssumption, Bases DEF Requests
<1>5. frame \in Frames
  <2>1. n \in 1 .. MaxFrames
    BY <1>2, <1>4
  <2>2. request.command = command
    BY DEF Request
  <2> HIDE DEF n
  <2>3. frame \in [request : {Request(c, m) : c \in Commands, m \in 1 .. MaxFrames},
                   damage : {Undamaged} \cup Damages \cup Paddings]
    BY <2>1
  <2> QED
    BY <2>2, <2>3, <1>2 DEF Frames
<1> HIDE DEF frame
<1>6. x \in Seq(Byte)
  BY <1>5, FrameBytes, Zenon
<1>7. s \in Strings /\ Len(s) = Len(offered)
  BY <1>3, FrameStringsTyped, Zenon
<1>8. FrameStrings(offered') = Append(s, x)
  <2>1. FrameStrings(Append(offered, frame)) = Append(s, x)
    BY <1>3, <1>5, FrameStringsGrow, Zenon
  <2> QED
    BY <2>1, <1>2, Zenon
<1>9. upstream \in Seq(Byte) /\ in \in Seq(Byte)
  BY <1>1, SuffixTyped, Zenon DEF Typed, Wires
<1>10. in \o upstream = Behind(s, k)
  BY <1>1, <1>2, Zenon DEF Requests
<1>11. /\ offered' \in Seq(Frames) /\ Len(offered') = Len(offered) + 1
       /\ \A i \in 1 .. Len(offered) : offered'[i] = offered[i]
  BY <1>2, <1>3, <1>5, AppendProperties
<1> HIDE DEF x, s, in
<1>12. Behind(Append(s, x), k) = Behind(s, k) \o x
  <2>1. k \in 0 .. Len(s)
    BY <1>4, <1>7
  <2> QED
    BY <2>1, <1>6, <1>7, BehindGrows, Zenon
<1>13. upstream' \in Seq(Byte)
  BY <1>2, <1>6, <1>9, ConcatProperties
<1>14. Suffix(receive', consumed') \o upstream' = Behind(FrameStrings(offered'), Len(decoded'))
  <2> DEFINE up == upstream
             y == in \o up
             z == up \o x
  <2>1. in \in Seq(Byte) /\ up \in Seq(Byte) /\ x \in Seq(Byte) /\ y = in \o up /\ z = up \o x
    BY <1>6, <1>9
  <2>2. upstream' = z /\ y = Behind(s, k)
    BY <1>2, <1>10
  <2> HIDE DEF up, y, z
  <2>3. y \o x = in \o z
    BY <2>1, Regroup, SMTT(30)
  <2>4. Suffix(receive', consumed') = in /\ Len(decoded') = k
    BY <1>2 DEF in
  <2> QED
    BY <2>2, <2>3, <2>4, <1>8, <1>12, Zenon
<1>15. Typed'
  <2>1. Wires'
    BY <1>1, <1>2, <1>13 DEF Typed, Wires
  <2>2. Histories'
    <3>1. Len(offered') <= MaxFrames
      BY <1>2, <1>4, <1>11
    <3> QED
      BY <3>1, <1>1, <1>2, <1>11 DEF Typed, Histories
  <2> QED
    BY <2>1, <2>2, <1>1, <1>2 DEF Typed
<1>16. Requests'
  <2>1. decoded' = decoded
    BY <1>2
  <2>2. Len(decoded) <= Len(offered')
    BY <1>4, <1>11
  <2>3. ASSUME NEW i \in 1 .. Len(decoded)
        PROVE  offered'[i].damage \notin Damages /\ decoded[i] = Carried(offered'[i].request)
    <3>1. i \in 1 .. Len(offered)
      BY <1>4
    <3>2. offered'[i] = offered[i]
      BY <3>1, <1>11
    <3> QED
      BY <3>2, <1>1, Zenon DEF Requests
  <2> QED
    BY <2>1, <2>2, <2>3, <1>14, Zenon DEF Requests
<1>17. Responses'
  BY <1>1, <1>2, SameResponses
<1>18. ClosedOnlyForCause'
  BY <1>2 DEF ClosedOnlyForCause
<1> QED
  BY <1>15, <1>16, <1>17, <1>18 DEF IndInv

(* recv moves bytes from the wire to the end of the receive buffer. *)
LEMMA ReceiveKeeps ==
  ASSUME IndInv, NEW n, Receive(n)
  PROVE  IndInv'
<1> DEFINE p == SubSeq(upstream, 1, n)
           q == Suffix(upstream, n)
<1>1. Typed /\ Requests /\ Responses
  BY DEF IndInv
<1>2. /\ open /\ pc = "wait" /\ n \in 1 .. Len(upstream)
      /\ receive' = receive \o p /\ upstream' = q /\ consumed' = 0 /\ pc' = "decode"
      /\ UNCHANGED <<open, transmit, begin, downstream, engine, offered, decoded, answers, seen>>
  BY DEF Receive, transmitVars, history, Suffix
<1>3. consumed = 0 /\ upstream \in Seq(Byte) /\ receive \in Seq(Byte)
  BY <1>1, <1>2 DEF Typed, Wires
<1>4. p \in Seq(Byte) /\ q \in Seq(Byte) /\ p \o q = upstream
  <2>1. n \in 0 .. Len(upstream)
    BY <1>2
  <2> QED
    BY <2>1, <1>3, Cut, Zenon
<1> HIDE DEF p, q
<1>5. receive' \in Seq(Byte)
  BY <1>2, <1>3, <1>4, ConcatProperties
<1>6. Suffix(receive, 0) = receive /\ Suffix(receive', 0) = receive'
  BY <1>3, <1>5, SuffixEnds, Zenon
<1>7. receive' \o upstream' = receive \o upstream
  <2> DEFINE r == receive
             y == r \o p
             z == p \o q
  <2>1. r \in Seq(Byte) /\ p \in Seq(Byte) /\ q \in Seq(Byte) /\ y = r \o p /\ z = p \o q
    BY <1>3, <1>4
  <2>2. receive' = y /\ z = upstream
    BY <1>2, <1>4
  <2> HIDE DEF r, y, z
  <2>3. y \o q = r \o z
    BY <2>1, Regroup, SMTT(30)
  <2> QED
    BY <2>2, <2>3, <1>2, Zenon DEF r
<1>8. Len(receive') \in Nat
  BY <1>5, LenProperties
<1>9. Wires'
  BY <1>1, <1>2, <1>4, <1>5, <1>8 DEF Typed, Wires
<1>10. Histories'
  BY <1>1, <1>2 DEF Typed, Histories
<1>11. Typed'
  BY <1>1, <1>2, <1>9, <1>10 DEF Typed
<1>12. Requests'
  <2>1. Suffix(receive', consumed') \o upstream' = Suffix(receive, consumed) \o upstream
    BY <1>2, <1>3, <1>6, <1>7
  <2>2. offered' = offered /\ decoded' = decoded
    BY <1>2
  <2> QED
    BY <2>1, <2>2, <1>1, <1>2, Zenon DEF Requests
<1>13. Responses'
  BY <1>1, <1>2, SameResponses
<1>14. ClosedOnlyForCause'
  BY <1>2 DEF ClosedOnlyForCause
<1> QED
  BY <1>11, <1>12, <1>13, <1>14 DEF IndInv

(* One more request is decoded, whatever becomes of it. *)
LEMMA Decoded ==
  ASSUME IndInv, Decoding("Ok")
  PROVE  /\ DecodedRequest(Input) \in WireRequest
         /\ consumed + FrameLength(Input) \in 0 .. Len(receive)
         /\ Append(decoded, DecodedRequest(Input)) \in Seq(WireRequest)
         /\ Len(Append(decoded, DecodedRequest(Input))) = Len(decoded) + 1
         /\ decoded' = Append(decoded, DecodedRequest(Input)) /\ offered' = offered
            /\ (open' => UNCHANGED <<receive, upstream>> /\ consumed' = consumed + FrameLength(Input))
              => Requests'
<1> DEFINE f == offered[Len(decoded) + 1]
           r == DecodedRequest(Input)
           size == RequestFrameSize(f.request.command.type)
           k == Len(decoded)
           in == Suffix(receive, consumed)
           new == Append(decoded, r)
<1>1. Typed /\ Requests
  BY DEF IndInv
<1>2. open /\ consumed < Len(receive) /\ RequestStatus(Input) = "Ok"
  BY DEF Decoding
<1>3. /\ size \in 32 .. 52 /\ f.request \in WireRequest
      /\ f.damage \in Damages => RequestStatus(Input) # "Ok"
      /\ f.damage \notin Damages =>
           /\ RequestStatus(Input) = IF Len(Input) < size THEN "NeedMoreData" ELSE "Ok"
           /\ Len(Input) >= size => FrameLength(Input) = size /\ r = Carried(f.request)
  BY <1>1, <1>2, FrameDecoded, Zenon
<1>4. Input = in
  BY DEF Input, Suffix
<1>5. receive \in Seq(Byte) /\ consumed \in 0 .. Len(receive) /\ upstream \in Seq(Byte)
      /\ decoded \in Seq(WireRequest) /\ offered \in Seq(Frames)
  BY <1>1 DEF Typed, Wires, Histories
<1>6. in \in Seq(Byte) /\ Len(in) = Len(receive) - consumed
  BY <1>5, SuffixTyped, Zenon
<1>7. Len(receive) \in Nat /\ k \in Nat /\ Len(offered) \in Nat
  BY <1>5, LenProperties
<1> HIDE DEF size, f, r, in
<1>8. f.damage \notin Damages /\ Len(Input) >= size
  <2>1. f.damage \notin Damages
    BY <1>2, <1>3
  <2>2. ~(Len(Input) < size)
    BY <2>1, <1>2, <1>3
  <2> QED
    BY <2>1, <2>2, <1>3, <1>4, <1>6, <1>7
<1>9. FrameLength(Input) = size /\ r = Carried(f.request)
  BY <1>3, <1>8
<1>10. r \in WireRequest
  BY <1>3, <1>9, CarriedTyped, Zenon
<1>11. size \in 0 .. Len(receive) - consumed
  BY <1>3, <1>4, <1>5, <1>6, <1>7, <1>8
<1>12. consumed + size \in 0 .. Len(receive) /\ Suffix(receive, consumed + size) = Suffix(in, size)
  BY <1>5, <1>11, SuffixOfSuffix, Zenon DEF in
<1>13. /\ k < Len(offered)
       /\ Len(in) >= size => Suffix(in, size) \o upstream = Behind(FrameStrings(offered), k + 1)
  BY <1>1, <1>2, NextFrame, Zenon DEF in, f, size
<1>14. Suffix(in, size) \o upstream = Behind(FrameStrings(offered), k + 1)
  BY <1>4, <1>8, <1>13
<1>15. new \in Seq(WireRequest) /\ Len(new) = k + 1 /\ (\A i \in 1 .. k : new[i] = decoded[i]) /\ new[k + 1] = r
  BY <1>5, <1>10, AppendProperties
<1>16. ASSUME decoded' = new, offered' = offered,
              open' => UNCHANGED <<receive, upstream>> /\ consumed' = consumed + FrameLength(Input)
       PROVE  Requests'
  <2> HIDE DEF new
  <2>1. k + 1 <= Len(offered)
    BY <1>7, <1>13
  <2>2. ASSUME NEW i \in 1 .. k + 1
        PROVE  offered[i].damage \notin Damages /\ new[i] = Carried(offered[i].request)
    <3>1. CASE i \in 1 .. k
      <4>1. offered[i].damage \notin Damages /\ decoded[i] = Carried(offered[i].request)
        BY <3>1, <1>1, Zenon DEF Requests
      <4>2. new[i] = decoded[i]
        BY <3>1, <1>15
      <4> QED
        BY <4>1, <4>2
    <3>2. CASE i = k + 1
      BY <3>2, <1>8, <1>9, <1>15 DEF f
    <3> QED
      BY <3>1, <3>2, <1>7
  <2>3. Len(decoded') = k + 1
    BY <1>15, <1>16
  <2>4. open' => Suffix(receive', consumed') \o upstream' = Behind(FrameStrings(offered'), Len(decoded'))
    <3> SUFFICES ASSUME open'
                 PROVE  Suffix(receive', consumed') \o upstream' = Behind(FrameStrings(offered'), Len(decoded'))
      OBVIOUS
    <3>1. receive' = receive /\ upstream' = upstream /\ consumed' = consumed + size
      BY <1>9, <1>16
    <3> QED
      BY <3>1, <2>3, <1>12, <1>14, <1>16, Zenon
  <2>5. \A i \in 1 .. Len(decoded') :
          offered'[i].damage \notin Damages /\ decoded'[i] = Carried(offered'[i].request)
    BY <2>2, <2>3, <1>16, Zenon
  <2>6. Len(decoded') <= Len(offered')
    BY <2>1, <2>3, <1>16
  <2> QED
    BY <2>4, <2>5, <2>6, Zenon DEF Requests
<1> QED
  BY <1>9, <1>10, <1>12, <1>15, <1>16, Zenon DEF r

(* A decoded frame leaves the stream; its rejection, if any, enters the other. *)
LEMMA DecodeRequestKeeps ==
  ASSUME IndInv, NEW reason \in Reasons, DecodeRequest(reason)
  PROVE  IndInv'
<1>0. PICK r : r = DecodedRequest(Input)
  OBVIOUS
<1>1. Typed /\ Requests /\ Responses /\ ClosedOnlyForCause
  BY DEF IndInv
<1>2. /\ Decoding("Ok") /\ decoded' = Append(decoded, r)
      /\ consumed' = consumed + FrameLength(Input)
      /\ UNCHANGED <<pc, open, upstream, receive, downstream, offered, seen>>
  BY <1>0 DEF DecodeRequest
<1>3. /\ r \in WireRequest /\ consumed' \in 0 .. Len(receive)
      /\ decoded' \in Seq(WireRequest) /\ Len(decoded') = Len(decoded) + 1
  BY <1>0, <1>2, Decoded, Zenon
<1>4. Requests'
  <2>1. open' => UNCHANGED <<receive, upstream>> /\ consumed' = consumed + FrameLength(Input)
    BY <1>2
  <2>2. offered' = offered
    BY <1>2
  <2> QED
    BY <2>1, <2>2, <1>0, <1>2, Decoded, Zenon
<1>5. open /\ pc = "decode"
  BY <1>2 DEF Decoding
<1>6. engine \in Seq(WireRequest) /\ answers \in Seq(WireResponse) /\ decoded \in Seq(WireRequest)
  BY <1>1 DEF Typed, Histories
<1>7. Len(engine) \in Nat /\ Len(answers) \in Nat /\ Len(decoded) \in Nat
      /\ Len(answers) + Len(engine) <= Len(decoded)
  BY <1>1, <1>6, LenProperties DEF Typed, Histories
<1>8. CASE reason = "None" /\ engine' = Append(engine, r) /\ UNCHANGED <<transmit, begin, answers>>
  <2>1. engine' \in Seq(WireRequest) /\ Len(engine') = Len(engine) + 1
    BY <1>3, <1>6, <1>8, AppendProperties
  <2>2. Responses'
    BY <1>1, <1>2, <1>8, SameResponses
  <2>3. Len(answers') + Len(engine') <= Len(decoded')
    BY <2>1, <1>3, <1>7, <1>8
  <2>4. Wires'
    BY <1>1, <1>2, <1>3, <1>5, <1>8 DEF Typed, Wires
  <2>5. Histories'
    BY <2>1, <2>3, <1>1, <1>2, <1>3, <1>8 DEF Typed, Histories
  <2> QED
    BY <2>2, <2>4, <2>5, <1>1, <1>2, <1>4, <1>5 DEF IndInv, Typed, ClosedOnlyForCause
<1>9. CASE reason # "None" /\ QueueResponse(Rejection(r, reason)) /\ UNCHANGED engine
  <2>1. reason = "RiskLimit"
    BY <1>9 DEF Reasons
  <2>2. PICK x \in WireResponse : x = Rejection(r, reason)
    BY <2>1, <1>3, RejectionTyped, Zenon
  <2>3. QueueResponse(x) /\ downstream' = downstream /\ seen' = seen
    BY <2>2, <1>2, <1>9
  <2>4. /\ transmit' \in Seq(Byte) /\ begin' \in 0 .. Len(transmit')
        /\ answers' \in Seq(WireResponse) /\ Len(answers') = Len(answers) + 1
        /\ Responses'
    BY <2>3, <1>1, Queued, Zenon
  <2>5. Len(answers') + Len(engine') <= Len(decoded')
    BY <2>4, <1>3, <1>7, <1>9
  <2>6. Wires'
    BY <2>4, <1>1, <1>2, <1>3, <1>5 DEF Typed, Wires
  <2>7. Histories'
    BY <2>4, <2>5, <1>1, <1>2, <1>3, <1>9 DEF Typed, Histories
  <2> QED
    BY <2>4, <2>6, <2>7, <1>1, <1>2, <1>4, <1>5 DEF IndInv, Typed, ClosedOnlyForCause
<1> QED
  BY <1>0, <1>8, <1>9 DEF DecodeRequest

(* A rejection that finds no room closes the connection for that cause. *)
LEMMA DecodeNoRoomKeeps ==
  ASSUME IndInv, NEW reason \in Reasons \ {"None"}, DecodeNoRoom(reason)
  PROVE  IndInv'
<1>0. PICK r : r = DecodedRequest(Input)
  OBVIOUS
<1>1. Typed /\ Responses
  BY DEF IndInv
<1>2. /\ Decoding("Ok") /\ ~HasRoom(Rejection(r, reason)) /\ decoded' = Append(decoded, r)
      /\ open' = FALSE /\ pc' = "wait"
      /\ UNCHANGED <<upstream, receive, consumed, transmit, begin, downstream, engine,
                     offered, answers, seen>>
  BY <1>0 DEF DecodeNoRoom, CloseConnection, receiveVars, transmitVars
<1>3. r \in WireRequest /\ decoded' \in Seq(WireRequest) /\ Len(decoded') = Len(decoded) + 1
  BY <1>0, <1>2, Decoded, Zenon
<1>4. Requests'
  <2>1. ~open' /\ offered' = offered
    BY <1>2
  <2> QED
    BY <2>1, <1>0, <1>2, Decoded, Zenon
<1>5. Rejection(r, reason) \in WireResponse
  <2>1. reason = "RiskLimit"
    BY DEF Reasons
  <2> QED
    BY <2>1, <1>3, RejectionTyped, Zenon
<1>6. Len(transmit) - begin > TransmitCapacity - ResponseFrameSize
  BY <1>1, <1>2, <1>5, NoRoom, Zenon
<1>7. ClosedOnlyForCause'
  BY <1>2, <1>6 DEF ClosedOnlyForCause
<1>8. Wires'
  BY <1>1, <1>2 DEF Typed, Wires
<1>9. Histories'
  <2>1. engine \in Seq(WireRequest) /\ answers \in Seq(WireResponse) /\ decoded \in Seq(WireRequest)
    BY <1>1 DEF Typed, Histories
  <2>2. Len(engine) \in Nat /\ Len(answers) \in Nat /\ Len(decoded) \in Nat
        /\ Len(answers) + Len(engine) <= Len(decoded)
    BY <1>1, <2>1, LenProperties DEF Typed, Histories
  <2>3. Len(answers') + Len(engine') <= Len(decoded')
    BY <2>2, <1>2, <1>3
  <2> QED
    BY <2>3, <1>1, <1>2, <1>3 DEF Typed, Histories
<1>10. Responses'
  BY <1>1, <1>2, SameResponses
<1> QED
  BY <1>2, <1>4, <1>7, <1>8, <1>9, <1>10 DEF IndInv, Typed

(* Only a malformed frame is refused, so the connection closes for that cause. *)
LEMMA DecodeMalformedKeeps ==
  ASSUME IndInv, DecodeMalformed
  PROVE  IndInv'
<1> DEFINE f == offered[Len(decoded) + 1]
           size == RequestFrameSize(f.request.command.type)
<1>1. Typed /\ Requests /\ Responses
  BY DEF IndInv
<1>2. /\ open' = FALSE /\ pc' = "wait"
      /\ UNCHANGED <<upstream, receive, consumed, transmit, begin, downstream, engine,
                     offered, decoded, answers, seen>>
  BY DEF DecodeMalformed, CloseConnection, receiveVars, transmitVars
<1>3. /\ open /\ consumed < Len(receive)
      /\ RequestStatus(Input) # "Ok" /\ RequestStatus(Input) # "NeedMoreData"
  BY DEF DecodeMalformed, Decoding
<1>4. f.damage \notin Damages => RequestStatus(Input) = IF Len(Input) < size THEN "NeedMoreData" ELSE "Ok"
  BY <1>1, <1>3, FrameDecoded, Zenon
<1>5. Len(decoded) < Len(offered)
  BY <1>1, <1>3, NextFrame, Zenon
<1> HIDE DEF size
<1>6. f.damage \in Damages
  BY <1>3, <1>4
<1>7. ClosedOnlyForCause'
  <2> HIDE DEF f
  <2>1. Len(decoded') < Len(offered') /\ offered'[Len(decoded') + 1].damage \in Damages
    BY <1>2, <1>5, <1>6 DEF f
  <2> QED
    BY <2>1, Zenon DEF ClosedOnlyForCause
<1>8. Wires'
  BY <1>1, <1>2 DEF Typed, Wires
<1>9. Histories'
  BY <1>1, <1>2 DEF Typed, Histories
<1>10. Requests'
  BY <1>1, <1>2, SameRequests
<1>11. Responses'
  BY <1>1, <1>2, SameResponses
<1> QED
  BY <1>2, <1>7, <1>8, <1>9, <1>10, <1>11 DEF IndInv, Typed

(* The rest moves to the front; a full buffer holds a whole frame, so one that
   cannot be decoded from it is malformed. *)
LEMMA DecodeEndsKeeps ==
  ASSUME IndInv, DecodeEnds
  PROVE  IndInv'
<1> DEFINE in == Suffix(receive, consumed)
           f == offered[Len(decoded) + 1]
           size == RequestFrameSize(f.request.command.type)
<1>1. Typed /\ Requests /\ Responses
  BY DEF IndInv
<1>2. /\ open /\ receive' = in /\ consumed' = 0 /\ open' = ~BufferFull /\ pc' = "wait"
      /\ UNCHANGED <<upstream, transmit, begin, downstream, engine, offered, decoded, answers, seen>>
  BY DEF DecodeEnds, Decoding, Remaining, Input, Suffix, transmitVars, history
<1>3. receive \in Seq(Byte) /\ consumed \in 0 .. Len(receive)
  BY <1>1 DEF Typed, Wires
<1>4. in \in Seq(Byte) /\ Len(in) = Len(receive) - consumed
  BY <1>3, SuffixTyped, Zenon
<1>5. Suffix(in, 0) = in /\ Len(in) \in Nat /\ Len(receive) \in Nat
  BY <1>3, <1>4, SuffixEnds, LenProperties
<1>6. Wires'
  <2> HIDE DEF in
  <2> QED
    BY <1>1, <1>2, <1>4, <1>5 DEF Typed, Wires
<1>7. Histories'
  BY <1>1, <1>2 DEF Typed, Histories
<1>8. Requests'
  <2>1. Suffix(receive', consumed') \o upstream' = Suffix(receive, consumed) \o upstream
    BY <1>2, <1>5
  <2>2. offered' = offered /\ decoded' = decoded
    BY <1>2
  <2> QED
    BY <2>1, <2>2, <1>1, <1>2, Zenon DEF Requests
<1>9. Responses'
  BY <1>1, <1>2, SameResponses
<1>10. ClosedOnlyForCause'
  <2> SUFFICES ASSUME BufferFull PROVE ClosedOnlyForCause'
    BY <1>2 DEF ClosedOnlyForCause
  <2>1. Len(in) >= 80 /\ Input = in
    BY FramingAssumption DEF BufferFull, Remaining, Input, Suffix, MaximumFrameSize
  <2>2. consumed < Len(receive)
    <3> HIDE DEF in
    <3> QED
      BY <2>1, <1>3, <1>4, <1>5
  <2>3. RequestStatus(Input) = "NeedMoreData"
    <3>1. consumed # Len(receive)
      BY <2>2, <1>3, <1>5
    <3> QED
      BY <3>1 DEF DecodeEnds, Decoding
  <2>4. /\ size \in 32 .. 52
        /\ f.damage \notin Damages => RequestStatus(Input) = IF Len(Input) < size THEN "NeedMoreData" ELSE "Ok"
    BY <2>2, <1>1, <1>2, FrameDecoded, Zenon
  <2>5. Len(decoded) < Len(offered)
    BY <2>2, <1>1, <1>2, NextFrame, Zenon
  <2> HIDE DEF size, in
  <2>6. f.damage \in Damages
    <3>1. ~(Len(Input) < size)
      BY <2>1, <2>4, <1>5
    <3> HIDE DEF f
    <3> QED
      BY <3>1, <2>3, <2>4
  <2> HIDE DEF f
  <2>7. Len(decoded') < Len(offered') /\ offered'[Len(decoded') + 1].damage \in Damages
    BY <2>5, <2>6, <1>2 DEF f
  <2> QED
    BY <2>7, Zenon DEF ClosedOnlyForCause
<1>11. open' \in BOOLEAN
  BY <1>2 DEF BufferFull
<1> QED
  BY <1>2, <1>6, <1>7, <1>8, <1>9, <1>10, <1>11 DEF IndInv, Typed

(* The engine's answer enters the stream of the responses, or finds no room. *)
LEMMA DrainResponseKeeps ==
  ASSUME IndInv, DrainResponse
  PROVE  IndInv'
<1>1. Typed /\ Requests /\ Responses /\ ClosedOnlyForCause
  BY DEF IndInv
<1>2. open /\ pc = "wait" /\ engine # <<>>
  BY DEF DrainResponse
<1>3. engine \in Seq(WireRequest) /\ answers \in Seq(WireResponse) /\ decoded \in Seq(WireRequest)
      /\ offered \in Seq(Frames)
  BY <1>1 DEF Typed, Histories
<1>4. Head(engine) \in WireRequest /\ Tail(engine) \in Seq(WireRequest) /\ Len(Tail(engine)) = Len(engine) - 1
  BY <1>2, <1>3, HeadTailProperties
<1>5. Len(engine) \in Nat \ {0} /\ Len(answers) \in Nat /\ Len(decoded) \in Nat /\ Len(offered) \in Nat
  BY <1>2, <1>3, EmptySeq, LenProperties
<1>6. Len(answers) + Len(engine) <= Len(decoded) /\ Len(decoded) <= Len(offered) /\ Len(offered) <= MaxFrames
  BY <1>1 DEF Typed, Histories, Requests
<1>7. Len(answers) + 1 < U64
  BY <1>5, <1>6, FramingAssumption, Bases
<1>8. PICK x \in WireResponse : x = EngineEvent(Head(engine))
  BY <1>4, <1>5, <1>7, EngineEventTyped, Zenon
<1>9. CASE /\ QueueResponse(x) /\ engine' = Tail(engine)
           /\ UNCHANGED <<pc, open, upstream, receive, consumed, downstream, offered, decoded, seen>>
  <2>1. downstream' = downstream /\ seen' = seen
    BY <1>9
  <2>2. /\ transmit' \in Seq(Byte) /\ begin' \in 0 .. Len(transmit')
        /\ answers' \in Seq(WireResponse) /\ Len(answers') = Len(answers) + 1
        /\ Responses'
    BY <2>1, <1>1, <1>9, Queued, Zenon
  <2>3. Len(answers') + Len(engine') <= Len(decoded')
    BY <2>2, <1>4, <1>5, <1>6, <1>9
  <2>4. Wires'
    BY <2>2, <1>1, <1>9 DEF Typed, Wires
  <2>5. Histories'
    BY <2>2, <2>3, <1>1, <1>4, <1>9 DEF Typed, Histories
  <2>6. Requests'
    BY <1>1, <1>9, SameRequests
  <2> QED
    BY <2>2, <2>4, <2>5, <2>6, <1>1, <1>2, <1>9 DEF IndInv, Typed, ClosedOnlyForCause
<1>10. CASE ~HasRoom(x) /\ CloseConnection /\ UNCHANGED decoded
  <2>1. /\ open' = FALSE /\ pc' = "wait"
        /\ UNCHANGED <<upstream, receive, consumed, transmit, begin, downstream, engine,
                     offered, decoded, answers, seen>>
    BY <1>10 DEF CloseConnection, receiveVars, transmitVars
  <2>2. Len(transmit) - begin > TransmitCapacity - ResponseFrameSize
    BY <1>1, <1>10, NoRoom, Zenon
  <2>3. ClosedOnlyForCause'
    BY <2>1, <2>2 DEF ClosedOnlyForCause
  <2>4. Wires'
    BY <2>1, <1>1 DEF Typed, Wires
  <2>5. Histories'
    BY <2>1, <1>1 DEF Typed, Histories
  <2>6. Requests'
    BY <2>1, <1>1, SameRequests
  <2>7. Responses'
    BY <2>1, <1>1, SameResponses
  <2> QED
    BY <2>1, <2>3, <2>4, <2>5, <2>6, <2>7 DEF IndInv, Typed
<1> QED
  BY <1>8, <1>9, <1>10 DEF DrainResponse, receiveVars

(* send moves bytes from the transmit buffer to the wire. *)
LEMMA FlushKeeps ==
  ASSUME IndInv, NEW n, Flush(n)
  PROVE  IndInv'
<1> DEFINE u == Suffix(transmit, begin)
           p == SubSeq(u, 1, n)
           q == Suffix(u, n)
<1>1. Typed /\ Requests /\ Responses
  BY DEF IndInv
<1>2. /\ open /\ pc = "wait" /\ n \in 1 .. Len(u)
      /\ downstream' = downstream \o p
      /\ transmit' = (IF n = Len(u) THEN <<>> ELSE transmit)
      /\ begin' = (IF n = Len(u) THEN 0 ELSE begin + n)
      /\ UNCHANGED <<pc, open, upstream, receive, consumed, engine, offered, decoded, answers, seen>>
  BY DEF Flush, Suffix, receiveVars, history
<1>3. transmit \in Seq(Byte) /\ begin \in 0 .. Len(transmit) /\ downstream \in Seq(Byte)
  BY <1>1 DEF Typed, Wires
<1>4. u \in Seq(Byte) /\ Len(u) = Len(transmit) - begin
  BY <1>3, SuffixTyped, Zenon
<1>5. Len(transmit) \in Nat /\ Len(u) \in Nat
  BY <1>3, <1>4, LenProperties
<1>6. n \in 0 .. Len(transmit) - begin /\ n \in 0 .. Len(u)
  BY <1>2, <1>4, <1>5
<1>7. begin + n \in 0 .. Len(transmit) /\ Suffix(transmit, begin + n) = q
  BY <1>3, <1>6, SuffixOfSuffix, Zenon
<1> HIDE DEF u
<1>8. p \in Seq(Byte) /\ q \in Seq(Byte) /\ p \o q = u
  BY <1>4, <1>6, Cut, Zenon
<1>9. transmit' \in Seq(Byte) /\ begin' \in 0 .. Len(transmit') /\ Suffix(transmit', begin') = q
  <2>1. CASE n = Len(u)
    <3>1. transmit' = <<>> /\ begin' = 0
      BY <2>1, <1>2
    <3>2. <<>> \in Seq(Byte) /\ Len(<<>>) = 0
      BY EmptySeq
    <3>3. Suffix(<<>>, 0) = <<>> /\ Suffix(u, Len(u)) = <<>>
      BY <1>4, SuffixEnds, Zenon
    <3>4. q = <<>>
      BY <3>3, <2>1
    <3>5. 0 \in 0 .. Len(<<>>)
      BY <3>2
    <3> QED
      BY <3>1, <3>2, <3>3, <3>4, <3>5, Zenon
  <2>2. CASE n # Len(u)
    BY <2>2, <1>2, <1>3, <1>7
  <2> QED
    BY <2>1, <2>2
<1> HIDE DEF p, q
<1>10. downstream' \in Seq(Byte)
  BY <1>2, <1>3, <1>8, ConcatProperties
<1>11. downstream' \o Suffix(transmit', begin') = downstream \o Suffix(transmit, begin)
  <2> DEFINE d == downstream
             y == d \o p
             z == p \o q
  <2>1. d \in Seq(Byte) /\ p \in Seq(Byte) /\ q \in Seq(Byte) /\ y = d \o p /\ z = p \o q
    BY <1>3, <1>8
  <2>2. downstream' = y /\ z = u
    BY <1>2, <1>8
  <2> HIDE DEF d, y, z
  <2>3. y \o q = d \o z
    BY <2>1, Regroup, SMTT(30)
  <2> QED
    BY <2>2, <2>3, <1>9, Zenon DEF d, u
<1>12. Wires'
  BY <1>1, <1>2, <1>9, <1>10 DEF Typed, Wires
<1>13. Histories'
  BY <1>1, <1>2 DEF Typed, Histories
<1>14. Requests'
  BY <1>1, <1>2, SameRequests
<1>15. Responses'
  <2>1. answers' = answers /\ seen' = seen
    BY <1>2
  <2> QED
    BY <2>1, <1>1, <1>11, Zenon DEF Responses
<1> QED
  BY <1>1, <1>2, <1>12, <1>13, <1>14, <1>15 DEF IndInv, Typed, ClosedOnlyForCause

(* The client takes the next response off the stream. *)
LEMMA ClientDecodeKeeps ==
  ASSUME IndInv, ClientDecode
  PROVE  IndInv'
<1> DEFINE k == Len(seen)
           r == answers[k + 1]
           q == Suffix(downstream, 68)
<1>1. Typed /\ Requests /\ Responses
  BY DEF IndInv
<1>2. /\ downstream # <<>> /\ ResponseStatus(downstream) = "Ok"
      /\ seen' = Append(seen, DecodedResponse(downstream))
      /\ downstream' = SubSeq(downstream, FrameLength(downstream) + 1, Len(downstream))
      /\ UNCHANGED <<pc, open, upstream, receive, consumed, transmit, begin, engine, offered, decoded, answers>>
  BY DEF ClientDecode, receiveVars
<1>3. /\ k < Len(answers) /\ Len(downstream) >= 68 /\ FrameLength(downstream) = 68
      /\ DecodedResponse(downstream) = r
      /\ q \o Suffix(transmit, begin) = Behind(ReplyStrings(answers), k + 1)
  BY <1>1, <1>2, NextReply, Zenon
<1>4. seen' = Append(seen, r) /\ downstream' = q
  <2>1. SubSeq(downstream, FrameLength(downstream) + 1, Len(downstream)) = q
    BY <1>3, Zenon DEF Suffix
  <2> QED
    BY <2>1, <1>2, <1>3, Zenon
<1>5. seen \in Seq(WireResponse) /\ answers \in Seq(WireResponse) /\ downstream \in Seq(Byte)
  BY <1>1 DEF Typed, Histories, Wires
<1>6. k \in Nat /\ Len(answers) \in Nat /\ Len(downstream) \in Nat
  BY <1>5, LenProperties
<1>7. r \in WireResponse
  <2>1. k + 1 \in 1 .. Len(answers)
    BY <1>3, <1>6
  <2> QED
    BY <2>1, <1>5, ElementOfSeq
<1>8. q \in Seq(Byte)
  <2>1. 68 \in 0 .. Len(downstream)
    BY <1>3, <1>6
  <2> QED
    BY <2>1, <1>5, SuffixTyped, Zenon
<1> HIDE DEF q
<1>9. seen' \in Seq(WireResponse) /\ Len(seen') = k + 1 /\ (\A i \in 1 .. k : seen'[i] = seen[i]) /\ seen'[k + 1] = r
  BY <1>4, <1>5, <1>7, AppendProperties
<1>10. Wires'
  BY <1>1, <1>2, <1>4, <1>8 DEF Typed, Wires
<1>11. Histories'
  BY <1>1, <1>2, <1>9 DEF Typed, Histories
<1>12. Requests'
  BY <1>1, <1>2, SameRequests
<1>13. Responses'
  <2>1. answers' = answers /\ transmit' = transmit /\ begin' = begin
    BY <1>2
  <2>2. Len(seen') <= Len(answers)
    BY <1>3, <1>6, <1>9
  <2>3. \A i \in 1 .. Len(seen') : seen'[i] = answers[i]
    <3> SUFFICES ASSUME NEW i \in 1 .. k + 1 PROVE seen'[i] = answers[i]
      BY <1>9
    <3>1. CASE i \in 1 .. k
      <4>1. seen[i] = answers[i]
        BY <3>1, <1>1, Zenon DEF Responses
      <4> QED
        BY <3>1, <4>1, <1>9
    <3>2. CASE i = k + 1
      BY <3>2, <1>9
    <3> QED
      BY <3>1, <3>2, <1>6
  <2>4. downstream' \o Suffix(transmit', begin') = Behind(ReplyStrings(answers'), Len(seen'))
    BY <2>1, <1>3, <1>4, <1>9, Zenon
  <2> QED
    BY <2>1, <2>2, <2>3, <2>4, Zenon DEF Responses
<1>14. ClosedOnlyForCause'
  <2>1. ClosedOnlyForCause
    BY DEF IndInv
  <2> QED
    BY <2>1, <1>2, StillClosed
<1> QED
  BY <1>1, <1>2, <1>10, <1>11, <1>12, <1>13, <1>14 DEF IndInv, Typed

(* Every step keeps the inductive invariant. *)
LEMMA IndStep == IndInv /\ [Next]_vars => IndInv'
<1> SUFFICES ASSUME IndInv, [Next]_vars PROVE IndInv'
  OBVIOUS
<1>1. ASSUME NEW command \in Commands, NEW damage \in {Undamaged} \cup Damages \cup Paddings,
             Send(command, damage)
      PROVE  IndInv'
  BY <1>1, SendKeeps
<1>2. CASE ReceiveSome
  BY <1>2, ReceiveKeeps DEF ReceiveSome
<1>3. CASE Decode
  <2>1. CASE \E reason \in Reasons : DecodeRequest(reason)
    BY <2>1, DecodeRequestKeeps
  <2>2. CASE \E reason \in Reasons \ {"None"} : DecodeNoRoom(reason)
    BY <2>2, DecodeNoRoomKeeps
  <2>3. CASE DecodeMalformed
    BY <2>3, DecodeMalformedKeeps
  <2>4. CASE DecodeEnds
    BY <2>4, DecodeEndsKeeps
  <2> QED
    BY <1>3, <2>1, <2>2, <2>3, <2>4 DEF Decode
<1>4. CASE DrainResponse
  BY <1>4, DrainResponseKeeps
<1>5. CASE FlushSome
  BY <1>5, FlushKeeps DEF FlushSome
<1>6. CASE ClientDecode
  BY <1>6, ClientDecodeKeeps
<1>7. CASE UNCHANGED vars
  <2>1. UNCHANGED <<pc, open, upstream, receive, consumed, transmit, begin, downstream, engine,
                  offered, decoded, answers, seen>>
    BY <1>7 DEF vars, receiveVars, transmitVars, history
  <2>2. Wires' /\ Histories'
    BY <2>1 DEF IndInv, Typed, Wires, Histories
  <2>3. Requests' /\ Responses' /\ ClosedOnlyForCause'
    BY <2>1, SameRequests, SameResponses, StillClosed DEF IndInv
  <2> QED
    BY <2>1, <2>2, <2>3 DEF IndInv, Typed
<1> QED
  BY <1>1, <1>2, <1>3, <1>4, <1>5, <1>6, <1>7 DEF Next

(* The inductive invariant holds always, for every capacity, piece length, set of
   commands and of damages that the assumptions admit. *)
THEOREM FramingInvariant == Spec => []IndInv
<1>1. Init => IndInv
  BY IndStart
<1>2. IndInv /\ [Next]_vars => IndInv'
  BY IndStep
<1> QED
  BY <1>1, <1>2, PTL DEF Spec

(* read_requests decodes exactly the requests that were sent, each once, in order,
   with every field, however TCP cuts or joins the bytes. *)
THEOREM RequestsAlways == Spec => []RequestsIntact
<1>1. IndInv => RequestsIntact
  BY RequestsRestated DEF IndInv
<1> QED
  BY <1>1, FramingInvariant, PTL

(* The client decodes exactly the responses that queue_response accepted, however
   flush_output's sends are cut and whenever the buffer is compacted. *)
THEOREM ResponsesAlways == Spec => []ResponsesIntact
<1>1. IndInv => ResponsesIntact
  BY ResponsesRestated DEF IndInv
<1> QED
  BY <1>1, FramingInvariant, PTL

(* The gateway closes a connection only for a malformed frame or for want of room
   in the transmit buffer, never for a full receive buffer. *)
THEOREM ClosedAlways == Spec => []ClosedOnlyForCause
<1>1. IndInv => ClosedOnlyForCause
  BY DEF IndInv
<1> QED
  BY <1>1, FramingInvariant, PTL
==============================================================================
