--------------------------- MODULE SessionValidator ---------------------------
(***************************************************************************)
(* SessionValidator: the checks the gateway makes of a decoded request     *)
(* before the engine sees it, the session and client sequence first and    *)
(* the risk limits after.                                                  *)
(***************************************************************************)
EXTENDS Integers

CONSTANTS
  MaximumQuantity, MaximumPrice, MaximumNotional,  \* RiskLimits
  WordMod                                          \* 2^64 in the code

ASSUME LimitsAssumption ==
  /\ WordMod \in Nat \ {0}
  /\ MaximumQuantity \in 0 .. WordMod - 1
  /\ MaximumPrice \in 0 .. WordMod - 1
  /\ MaximumNotional \in 0 .. WordMod - 1

(* Only new market orders have no price of their own. *)
Unpriced(c) == c.type = "New" /\ c.order_type = "Market"

(* Mutant: the notional is only compared after the multiplication. *)
FaultyViolatesRisk(c) ==
  /\ c.type # "Cancel"
  /\ \/ c.quantity = 0 \/ c.quantity > MaximumQuantity
     \/ /\ ~Unpriced(c)
        /\ \/ c.price <= 0 \/ c.price > MaximumPrice
           \/ (c.price * c.quantity) % WordMod > MaximumNotional

ViolatesRisk(c) ==
  /\ c.type # "Cancel"
  /\ \/ c.quantity = 0 \/ c.quantity > MaximumQuantity
     \/ /\ ~Unpriced(c)
        /\ \/ c.price <= 0 \/ c.price > MaximumPrice
           \/ c.quantity > MaximumNotional \div c.price
           \/ (c.price * c.quantity) % WordMod > MaximumNotional

(* Mutant: any client sequence will do. *)
FaultyInSession(v, request) == request.session = v.session

InSession(v, request) == request.session = v.session /\ request.sequence = v.next

(* validate_and_advance of a validator v: the reason, and v afterwards. *)
Reason(v, request) ==
  IF ~InSession(v, request) THEN "InvalidSessionSequence"
  ELSE IF ViolatesRisk(request.command) THEN "RiskLimit"
  ELSE "None"

Advanced(v, request) == IF InSession(v, request) THEN [v EXCEPT !.next = @ + 1] ELSE v
==============================================================================
