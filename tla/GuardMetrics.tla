---------------------------- MODULE GuardMetrics ----------------------------
(***************************************************************************)
(* The events that refused allocations leave behind, beside the ledger:    *)
(* allocatePartial records every violation of its guards, whether it goes  *)
(* on or rolls back; GuardMetricsPersistenceService keeps the events in a  *)
(* queue and stores them in batches, one INSERT at a time, from a timer    *)
(* and whenever the queue is full.                                         *)
(* Events are numbered in the order in which they are recorded.  A restart *)
(* forgets the queue; the flag guard_metrics_persistence is 'shadow' after *)
(* one, and the service stores again.                                      *)
(***************************************************************************)
EXTENDS AllocationLedger

CONSTANT MaxBatch \* maxBatch

ASSUME GuardAssumption == MaxBatch \in Nat \ {0}

VARIABLES
  recorded, \* number of events so far
  queue,
  flushing,
  batch,    \* what the INSERT in progress stores
  stored,   \* guard_metrics_events, in the order of the rows
  lost      \* history: events of batches whose INSERT failed, or in memory at a restart

guardVars == <<recorded, queue, flushing, batch, stored, lost>>

GuardInit ==
  /\ Init
  /\ recorded = 0 /\ queue = <<>> /\ flushing = FALSE /\ batch = <<>> /\ stored = <<>>
  /\ lost = {}
-----------------------------------------------------------------------------
\* validateAllocations: the sum, the payment, and every line.
Violations(a) ==
  (IF Total(req[a]) <= 0 THEN 1 ELSE 0)
    + (IF Total(req[a]) > PayAmount[req[a].pay] - SeenPay(a) THEN 1 ELSE 0)
    + Cardinality({k \in DOMAIN req[a].lines :
                     LET l == req[a].lines[k] IN
                     l.inv \notin invRows \/ l.amt <= 0 \/ l.amt > InvAmount[l.inv] - SeenInv(a, l.inv)})

\* flush() up to its await, with queue q: the oldest events leave it.
Flush(q) ==
  LET n == IF Len(q) < MaxBatch THEN Len(q) ELSE MaxBatch IN
  /\ flushing' = TRUE
  /\ batch' = SubSeq(q, 1, n) /\ queue' = SubSeq(q, n + 1, Len(q))

\* n calls of enqueue(); the first that finds the queue full starts a flush, unless one is running.
Record(n) ==
  LET q == queue \o [i \in 1..n |-> recorded + i] IN
  /\ recorded' = recorded + n
  /\ IF n > 0 /\ ~flushing /\ Len(q) >= MaxBatch THEN Flush(q)
     ELSE queue' = q /\ UNCHANGED <<flushing, batch>>
  /\ UNCHANGED <<stored, lost>>

\* The guards of allocatePartial; a request that they block is one more event.  A payment that
\* is not found is an error before them.
Check(a) ==
  LET n == IF PayThere(a) THEN Violations(a) ELSE 0 IN
  /\ PartialSnapshot(a)
  /\ Record(IF n > 0 /\ Guards = "enforce" THEN n + 1 ELSE n)

\* Mutant: a flush that is running does not keep the timer from starting another.
FlushTimer_Overlaps ==
  /\ queue # <<>>
  /\ Flush(queue)
  /\ UNCHANGED <<vars, recorded, stored, lost>>

FlushTimer ==
  /\ ~flushing /\ queue # <<>>
  /\ Flush(queue)
  /\ UNCHANGED <<vars, recorded, stored, lost>>

\* The INSERT ends; what it did not store is not taken back into the queue.
FlushEnd ==
  /\ flushing
  /\ \/ stored' = stored \o batch /\ UNCHANGED lost
     \/ lost' = lost \cup Range(batch) /\ UNCHANGED stored
  /\ flushing' = FALSE /\ batch' = <<>>
  /\ UNCHANGED <<vars, recorded, queue>>

\* The INSERT in progress may have come through or not.
GuardRestart ==
  /\ Restart
  /\ \/ stored' = stored \o batch /\ lost' = lost \cup Range(queue)
     \/ lost' = lost \cup Range(batch) \cup Range(queue) /\ UNCHANGED stored
  /\ queue' = <<>> /\ flushing' = FALSE /\ batch' = <<>>
  /\ UNCHANGED recorded

Other(a) == pc[a] # "pSnap" /\ Step(a) /\ UNCHANGED guardVars

GuardedNext ==
  \/ \E a \in Actors : Check(a) \/ Other(a)
  \/ Deletion /\ UNCHANGED guardVars
  \/ FlushTimer \/ FlushEnd \/ GuardRestart

GuardedSpec == GuardInit /\ [][GuardedNext]_<<vars, guardVars>>
-----------------------------------------------------------------------------
Events == stored \o batch \o queue

(* Every event is stored once and in order, or waits, or its INSERT failed *)
(* or it was in memory at a restart: neither the requests that record      *)
(* while a batch is being stored nor the timer and the full queue, which   *)
(* both start flushes, nor a restart that meets an INSERT, lose or repeat  *)
(* one otherwise.                                                          *)
EventsOnce ==
  /\ Range(Events) = (1..recorded) \ lost
  /\ \A i, j \in DOMAIN Events : i < j => Events[i] < Events[j]

\* The flushes are steps beside the ledger, and the records are part of its steps.
ImplementsLedger == Spec
=============================================================================
