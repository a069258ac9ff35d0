--------------------------- MODULE MCOutboxTimers ---------------------------
(* Instances of OutboxTimers for TLC. *)
EXTENDS OutboxTimers, TLC

TickSymmetry == Permutations(Ticks)
=============================================================================
