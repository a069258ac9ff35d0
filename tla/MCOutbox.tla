------------------------------ MODULE MCOutbox ------------------------------
(* Instances of Outbox for TLC. *)
EXTENDS Outbox, TLC

TickSymmetry == Permutations(Ticks)
=============================================================================
