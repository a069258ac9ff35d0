--------------------------- MODULE OutboxDelivery ---------------------------
(***************************************************************************)
(* What the outbox promises for each message: it is queued, attempted and  *)
(* either sent or, after more than MaxRetry failed attempts, cancelled.    *)
(* Both verdicts are final: only a purge follows them.  Each failure adds  *)
(* exactly one to tries.                                                   *)
(***************************************************************************)
EXTENDS Naturals

CONSTANTS Msgs, MaxRetry

VARIABLES phase, tries

vars == <<phase, tries>>

Init ==
  /\ phase = [m \in Msgs |-> "none"]
  /\ tries = [m \in Msgs |-> 0]

Submit(m) ==
  /\ phase[m] = "none"
  /\ phase' = [phase EXCEPT ![m] = "queued"]
  /\ UNCHANGED tries

Attempt(m) ==
  /\ phase[m] = "queued"
  /\ phase' = [phase EXCEPT ![m] = "attempting"]
  /\ UNCHANGED tries

Deliver(m) ==
  /\ phase[m] = "attempting"
  /\ phase' = [phase EXCEPT ![m] = "sent"]
  /\ UNCHANGED tries

\* An attempt may already fail while the row is being claimed.
Fail(m) ==
  /\ phase[m] \in {"queued", "attempting"}
  /\ tries' = [tries EXCEPT ![m] = @ + 1]
  /\ phase' = [phase EXCEPT ![m] = IF tries'[m] > MaxRetry THEN "cancelled" ELSE "queued"]

Purge(S) ==
  /\ \A m \in S : phase[m] \in {"sent", "cancelled"}
  /\ phase' = [m \in Msgs |-> IF m \in S THEN "purged" ELSE phase[m]]
  /\ UNCHANGED tries

Next ==
  \/ \E m \in Msgs : Submit(m) \/ Attempt(m) \/ Deliver(m) \/ Fail(m)
  \/ \E S \in SUBSET Msgs : Purge(S)

Spec == Init /\ [][Next]_vars
=============================================================================
