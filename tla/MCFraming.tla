------------------------------ MODULE MCFraming ------------------------------
(***************************************************************************)
(* Framing with one command of each type and one damage of each kind that  *)
(* decoding must notice.  Bytes hold 14 values: a field of eight then      *)
(* still fits TLC's integers.                                              *)
(***************************************************************************)
EXTENDS Framing

MCCommands ==
  {[type |-> "New", sequence |-> 0, side |-> "Sell", order_type |-> "FillOrKill",
    order_id |-> ByteBase ^ 7 + 3, price |-> -5, quantity |-> 200],
   [type |-> "Cancel", sequence |-> 0, side |-> "Buy", order_type |-> "Limit",
    order_id |-> 2, price |-> 0, quantity |-> 0],
   [type |-> "Replace", sequence |-> 7, side |-> "Sell", order_type |-> "Market",
    order_id |-> ByteBase, price |-> U64 \div 2 - 1, quantity |-> U64 - 1]}

Damage(type, at, bytes) == [type |-> type, at |-> at, bytes |-> bytes]

(* Magic, version, message type, lengths too short, too long and of another
   type, session, client sequence, side, order type and order identifier. *)
MCDamages ==
  {Damage("New", 3, <<0>>), Damage("Cancel", 4, <<2>>), Damage("Cancel", 5, <<0>>),
   Damage("Cancel", 6, PutU16(23)), Damage("New", 6, PutU16(81)),
   Damage("New", 6, PutU16(48)), Damage("Replace", 6, PutU16(52)),
   Damage("Replace", 8, PutU32(0)), Damage("Cancel", 16, PutU64(0)),
   Damage("New", 24, <<2>>), Damage("New", 25, <<4>>), Damage("New", 28, PutU64(0))}

MCPaddings == {Damage("Cancel", 12, <<1, 2, 3, 4>>), Damage("New", 26, <<1, 2>>)}
==============================================================================
