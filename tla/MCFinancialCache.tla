-------------------------- MODULE MCFinancialCache --------------------------
(* Instances of FinancialCache for TLC; the processes are model values. *)
EXTENDS FinancialCache, TLC

Symmetry == Permutations(Syncs) \cup Permutations(Refreshers)
=============================================================================
