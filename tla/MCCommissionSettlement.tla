----------------------- MODULE MCCommissionSettlement -----------------------
(* Instances of CommissionSettlement for TLC. *)
EXTENDS CommissionSettlement

\* Two settlements at a time, and each of the other operations beside a settlement.
TwoSettlers ==
  [a \in Actors |-> IF a = "a1" THEN {"create", "settle", "put"} ELSE {"settle", "delete", "recalc"}]
=============================================================================
