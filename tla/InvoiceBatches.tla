--------------------------- MODULE InvoiceBatches ---------------------------
(***************************************************************************)
(* POST /api/invoices/generate-standard beside the repairs of the debts:   *)
(* the file becomes one invoice for each representative in it, an optional *)
(* batch groups them, and every invoice updates the stored debt twice,     *)
(* inside createInvoice and after it.  POST /invoice-batches/:id/complete  *)
(* recounts a batch and answers before it has done so.                     *)
(* A file is the set of its representatives (they exist); an invoice is an *)
(* unused member of Invoices, which knows its representative.  The totals  *)
(* of the sales partners, updated after the loop, are left out.            *)
(***************************************************************************)
EXTENDS DebtRepair, FiniteSets

CONSTANTS Batches

ASSUME BatchAssumption == "none" \notin Batches

VARIABLES
  used,     \* invoices ever created
  batchOf,  \* the batch of an invoice, or "none"
  batch,    \* rows of invoice_batches
  gen,      \* per request: its batch, the invoices it counts and the update it is at
  doubtful, \* history: batches that met a fault, an exit, a deletion or two requests at once
  lost      \* history: batches whose generation could not create or complete them, or ended
            \* with the process

batchHistory == <<doubtful, lost>>
batchVars == <<used, batchOf, batch, batchHistory>>
vars == <<debtVars, batchVars, gen>>

NoBatch == [status |-> "none", total |-> 0]
NoGen == [batch |-> "none", count |-> 0, round |-> 0]

Init ==
  /\ DebtInit
  /\ used = InitialInvoices /\ batchOf = [i \in Invoices |-> "none"]
  /\ batch = [b \in Batches |-> NoBatch]
  /\ gen = [a \in Jobs |-> NoGen]
  /\ doubtful = {} /\ lost = {}

Issued(b) == {i \in used : batchOf[i] = b}
Unused(r) == {i \in Invoices \ used : RepOf[i] = r}
Workers(b) == {a \in Jobs : gen[a].batch = b}
Generating(b) == \E a \in Workers(b) : job[a].op = "generate"
Doubt(b) == doubtful' = doubtful \cup ({b} \ {"none"})
Leave(a) == Becomes(a, Idle) /\ gen' = [gen EXCEPT ![a] = NoGen]
-----------------------------------------------------------------------------
\* A file without valid records is refused: there is somebody in it.
GenerateArrive(a) ==
  /\ \E rs \in SUBSET {r \in Reps : Unused(r) # {}} \ {{}} : Start(a, "generate", "batch", rs)
  /\ UNCHANGED <<batchVars, gen>>

\* With a name and a period in the request there is a batch.
GenerateBatch(a) ==
  /\ At(a, {"generate"}, "batch")
  /\ Becomes(a, [job[a] EXCEPT !.pc = "create"])
  /\ \/ \E b \in Batches :
          /\ batch[b] = NoBatch
          /\ batch' = [batch EXCEPT ![b].status = "processing"]
          /\ gen' = [gen EXCEPT ![a].batch = b]
     \/ UNCHANGED <<batch, gen>>
  /\ UNCHANGED <<ledgerVars, stored, cache, jobs, history, used, batchOf, batchHistory>>

\* The log entry of a new batch fails and the second attempt meets its code: 500.
GenerateBatchFault(a) ==
  /\ Faults /\ At(a, {"generate"}, "batch")
  /\ \/ \E b \in Batches :
          /\ batch[b] = NoBatch
          /\ batch' = [batch EXCEPT ![b].status = "processing"]
          /\ Doubt(b) /\ lost' = lost \cup {b}
     \/ UNCHANGED <<batch, batchHistory>>
  /\ Leave(a)
  /\ UNCHANGED <<ledgerVars, stored, cache, jobs, history, used, batchOf>>

\* createInvoice inserts; the next steps are its update of the debt.
GenerateInsert(a) ==
  /\ At(a, {"generate"}, "create")
  /\ \E r \in job[a].todo : \E i \in Unused(r) :
       /\ live' = live \cup {i} /\ used' = used \cup {i}
       /\ batchOf' = [batchOf EXCEPT ![i] = gen[a].batch]
       /\ job' = Disturbing(a, [job[a] EXCEPT !.todo = @ \ {r}, !.rep = r, !.pc = "update"], {r})
       /\ Unsettle({r}) /\ current' = current \ {r}
  /\ gen' = [gen EXCEPT ![a].round = 1]
  /\ UNCHANGED <<alloc, stored, cache, jobs, batch, batchHistory>>

\* A lookup or the insert fails: the loop goes on.
GenerateRefused(a) ==
  /\ Faults /\ At(a, {"generate"}, "create")
  /\ \E r \in job[a].todo : Becomes(a, [job[a] EXCEPT !.todo = @ \ {r}])
  /\ UNCHANGED <<ledgerVars, stored, cache, jobs, history, batchVars, gen>>

\* updateRepresentativeFinancials: invalidate, then ReadSales, ReadPaid and SyncWrite.
GenerateUpdate(a) ==
  /\ At(a, {"generate"}, "update")
  /\ cache' = Without(cache, {job[a].rep})
  /\ Becomes(a, [Clean(job[a], job[a].rep) EXCEPT !.pc = "sales"])
  /\ UNCHANGED <<ledgerVars, stored, jobs, history, batchVars, gen>>

NextInvoice(a) == Becomes(a, [Next1(job[a]) EXCEPT !.pc = "create"])

\* Mutant: every update counts the invoice.
GenerateUpdated_CountsTwice(a) ==
  /\ At(a, {"generate"}, "after")
  /\ cache' = Without(cache, {job[a].rep})
  /\ IF gen[a].round = 1
       THEN /\ Becomes(a, [job[a] EXCEPT !.pc = "update"])
            /\ gen' = [gen EXCEPT ![a].round = 2, ![a].count = @ + 1]
       ELSE NextInvoice(a) /\ gen' = [gen EXCEPT ![a].round = 0, ![a].count = @ + 1]
  /\ UNCHANGED <<ledgerVars, stored, jobs, history, batchVars>>

\* Invalidate again.  After the first update createInvoice returns, the invoice counts, and
\* the route updates the debt once more.
GenerateUpdated(a) ==
  /\ At(a, {"generate"}, "after")
  /\ cache' = Without(cache, {job[a].rep})
  /\ IF gen[a].round = 1
       THEN /\ Becomes(a, [job[a] EXCEPT !.pc = "update"])
            /\ gen' = [gen EXCEPT ![a].round = 2, ![a].count = @ + 1]
       ELSE NextInvoice(a) /\ gen' = [gen EXCEPT ![a].round = 0]
  /\ UNCHANGED <<ledgerVars, stored, jobs, history, batchVars>>

\* executeWithRetry begins the update again, or gives up; then the invoice is skipped, which
\* it was not created by the count if this was the update of createInvoice (or its log entry).
GenerateFault(a) ==
  /\ Faults /\ job[a].op = "generate" /\ job[a].pc \in {"sales", "paid", "write", "after"}
  /\ \/ /\ job[a].pc # "after"
        /\ Becomes(a, [job[a] EXCEPT !.pc = "update"]) /\ UNCHANGED <<doubtful, gen>>
     \/ /\ job[a].pc # "after" \/ gen[a].round = 1
        /\ NextInvoice(a) /\ Doubt(gen[a].batch) /\ gen' = [gen EXCEPT ![a].round = 0]
  /\ UNCHANGED <<ledgerVars, stored, cache, jobs, history, used, batchOf, batch, lost>>

\* Mutant: a batch without invoices is left as it is.
GenerateEnd_OnlyIfAny(a) ==
  /\ At(a, {"generate"}, "create") /\ job[a].todo = {}
  /\ LET b == gen[a].batch IN
       batch' = IF b \in Batches /\ gen[a].count > 0
                  THEN [batch EXCEPT ![b] = [status |-> "completed", total |-> gen[a].count]]
                  ELSE batch
  /\ Leave(a)
  /\ UNCHANGED <<ledgerVars, stored, cache, jobs, history, used, batchOf, batchHistory>>

\* The batch is completed with what the request has counted.
GenerateEnd(a) ==
  /\ At(a, {"generate"}, "create") /\ job[a].todo = {}
  /\ LET b == gen[a].batch IN
       batch' = IF b \in Batches
                  THEN [batch EXCEPT ![b] = [status |-> "completed", total |-> gen[a].count]]
                  ELSE batch
  /\ Leave(a)
  /\ UNCHANGED <<ledgerVars, stored, cache, jobs, history, used, batchOf, batchHistory>>

GenerateEndFault(a) ==
  /\ Faults /\ At(a, {"generate"}, "create") /\ job[a].todo = {}
  /\ Doubt(gen[a].batch) /\ lost' = lost \cup ({gen[a].batch} \ {"none"}) /\ Leave(a)
  /\ UNCHANGED <<ledgerVars, stored, cache, jobs, history, used, batchOf, batch>>
-----------------------------------------------------------------------------
(* completeBatch *)
CompleteArrive(a, b) ==
  /\ batch[b] # NoBatch
  /\ Start(a, "complete", "count", {})
  /\ gen' = [gen EXCEPT ![a].batch = b]
  /\ doubtful' = doubtful \cup {c \in {b} : Workers(c) # {}}
  /\ UNCHANGED <<used, batchOf, batch, lost>>

CompleteCount(a) ==
  /\ At(a, {"complete"}, "count")
  /\ gen' = [gen EXCEPT ![a].count = Cardinality(Issued(gen[a].batch) \cap live)]
  /\ Becomes(a, [job[a] EXCEPT !.pc = "total"])
  /\ UNCHANGED <<ledgerVars, stored, cache, jobs, history, batchVars>>

\* After the update the batch is read for the log entry; if that fails, it begins again.
CompleteTotal(a) ==
  /\ At(a, {"complete"}, "total")
  /\ batch' = [batch EXCEPT ![gen[a].batch] = [status |-> "completed", total |-> gen[a].count]]
  /\ \/ Leave(a)
     \/ Faults /\ Becomes(a, [job[a] EXCEPT !.pc = "count"]) /\ UNCHANGED gen
  /\ UNCHANGED <<ledgerVars, stored, cache, jobs, history, used, batchOf, batchHistory>>

\* The update fails and executeWithRetry begins again (attempts are not counted).
CompleteRetry(a) ==
  /\ Faults /\ At(a, {"complete"}, "total")
  /\ Becomes(a, [job[a] EXCEPT !.pc = "count"])
  /\ UNCHANGED <<ledgerVars, stored, cache, jobs, history, batchVars, gen>>

\* The process ends: every request with it, and the cache.
Exit ==
  /\ job' = [a \in Jobs |-> Idle] /\ gen' = [a \in Jobs |-> NoGen]
  /\ cache' = Nothing
  /\ doubtful' = doubtful \cup {b \in Batches : Workers(b) # {}}
  /\ lost' = lost \cup {b \in Batches : Generating(b)}
  /\ UNCHANGED <<ledgerVars, stored, jobs, history, used, batchOf, batch>>

\* All attempts fail, which nobody waits for: the rejection is unhandled and ends the process.
CompleteFault(a) ==
  /\ Faults /\ At(a, {"complete"}, "count")
  /\ Exit
-----------------------------------------------------------------------------
\* A deletion leaves the totals of the batch.
Repairs ==
  /\ DebtNext
  /\ doubtful' = doubtful \cup {b \in Batches : \E i \in live \ live' : batchOf[i] = b}
  /\ UNCHANGED <<used, batchOf, batch, gen, lost>>

GenerateStep(a) ==
  \/ GenerateArrive(a) \/ GenerateBatch(a) \/ GenerateBatchFault(a) \/ GenerateInsert(a)
  \/ GenerateRefused(a) \/ GenerateUpdate(a) \/ GenerateUpdated(a) \/ GenerateFault(a)
  \/ GenerateEnd(a) \/ GenerateEndFault(a)

CompleteStep(a) ==
  \/ \E b \in Batches : CompleteArrive(a, b)
  \/ CompleteCount(a) \/ CompleteTotal(a) \/ CompleteRetry(a) \/ CompleteFault(a)

Next == Repairs \/ (\E a \in Jobs : GenerateStep(a) \/ CompleteStep(a)) \/ Exit
Spec == Init /\ [][Next]_vars
-----------------------------------------------------------------------------
\* A batch in 'processing' is being generated, unless the statement that creates or completes it
\* has failed or the process ended meanwhile: whoever else completes it, whatever invoices fail
\* or are deleted, and whichever other batches are generated and completed beside it.
ProcessingIsWorkedAt ==
  \A b \in Batches : batch[b].status = "processing" => Generating(b) \/ b \in lost

\* A completed batch never counts an invoice that was not created, whatever failed and
\* whoever completed it; and it counts all its invoices if nothing failed in its generation,
\* none of them was deleted, the process lasted and nobody else worked at it at the same time.
BatchCountsInvoices ==
  \A b \in Batches :
    /\ batch[b].total <= Cardinality(Issued(b))
    /\ batch[b].status = "completed" /\ b \notin doubtful =>
         batch[b].total = Cardinality(Issued(b) \cap live)
=============================================================================
