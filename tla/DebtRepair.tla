----------------------------- MODULE DebtRepair -----------------------------
(***************************************************************************)
(* Four ways to repair representatives.total_debt, beside each other and   *)
(* beside allocations that do not update it:                               *)
(*   sync       syncRepresentativeDebt for a list of representatives       *)
(*              (debt-verification-routes.ts, storage.ts)                  *)
(*   correct    FinancialConsistencyEngine.performSystemCorrection, also   *)
(*              after the validation by the monitoring service             *)
(*   reconcile  ActiveReconciliationEngine.runActiveReconciliation         *)
(*   rollback   BatchInvoiceRollbackEngine.rollbackInvoicesByDate, which   *)
(*              ends with a correction                                     *)
(* All but reconcile calculate with the cached calculateRepresentative,    *)
(* whose time stamps are the subject of FinancialCache: here an entry that *)
(* is there may be used or may have expired.  A calculation is two         *)
(* queries, sales and then paid.                                           *)
(* Loops over the rows of a query take them in any order.                  *)
(***************************************************************************)
EXTENDS Integers, FiniteSetsExt, Functions

CONSTANTS
  Jobs,               \* requests that may be in progress
  Reps, ActiveReps,
  Invoices,           \* ids of rows
  RepOf, Amount,      \* of an invoice
  Dated,              \* invoices with the issue date that is rolled back
  Linked,             \* a payment names the invoice: DELETE is refused
  InitialInvoices,
  Tolerance,          \* "100": differences below it are consistent
  MaxAdjust,          \* MAX_ADJUSTMENT_AMOUNT
  MaxJobs,            \* bound: requests ever made
  MaxAllocated,       \* bound: allocated in all
  Payable,            \* bound: invoices and whose payments are allocated to them
  Faults              \* a statement may fail

ASSUME DebtAssumption ==
  /\ ActiveReps \subseteq Reps /\ InitialInvoices \subseteq Invoices
  /\ RepOf \in [Invoices -> Reps] /\ Amount \in [Invoices -> Nat \ {0}]
  /\ Dated \subseteq Invoices /\ Linked \subseteq Invoices
  /\ Tolerance \in Nat \ {0} /\ MaxAdjust \in Nat /\ MaxJobs \in Nat /\ MaxAllocated \in Nat
  /\ Payable \subseteq Invoices \X Reps /\ Faults \in BOOLEAN
  /\ IsFiniteSet(Invoices) /\ IsFiniteSet(Reps) /\ "none" \notin Reps /\ "env" \notin Jobs

VARIABLES
  live,    \* invoices in the table
  alloc,   \* amount allocated to an invoice, by the representative whose payment it is from
  stored,  \* representatives.total_debt
  cache,   \* queryCache: the debt of the representatives in its domain
  job,     \* per request: where it is and what it knows
  jobs,    \* requests so far
  settled, \* history: the last write of this debt was an undisturbed repair, which counted
           \* the allocations to invoices ("engine") or those from payments ("ledger")
  current  \* history: representatives whose last calculation nothing has overtaken

ledgerVars == <<live, alloc>>
history == <<settled, current>>
debtVars == <<live, alloc, stored, cache, job, jobs, history>>

SumOver(f, S) == FoldFunctionOnSet(+, 0, f, S)
InvoicesOf(r) == {i \in live : RepOf[i] = r}
Sales(r) == SumOver(Amount, InvoicesOf(r))
\* Allocated to the invoices of r, and from the payments of r: the manual allocation does not
\* ask whether an invoice and a payment belong to the same representative.
Paid(r) == SumOver(alloc, InvoicesOf(r) \X Reps)
PaidFrom(r) == SumOver(alloc, Invoices \X {r})

\* Mutant: without Math.max(0, ...).
NonNegative_Raw(x) == x

\* Sales and payments are read one after the other: more may be paid than is sold.
NonNegative(x) == IF x < 0 THEN 0 ELSE x
Debt(r) == NonNegative(Sales(r) - Paid(r))
LedgerDebt(r) == NonNegative(Sales(r) - PaidFrom(r))
Distance(x, y) == IF x < y THEN y - x ELSE x - y
Nothing == [r \in {} |-> 0]
Without(f, S) == Restrict(f, DOMAIN f \ S)
With(f, r, v) == [s \in DOMAIN f \cup {r} |-> IF s = r THEN v ELSE f[s]]

\* todo: representatives left; seen: a value read; val: a debt calculated; plan: debts to be
\* written; targets: invoices to be deleted; fixed: something was corrected; dirty: others
\* have interfered with the repair of these representatives.
Idle == [op |-> "none", pc |-> "idle", todo |-> {}, rep |-> "none", seen |-> 0, val |-> 0,
         plan |-> Nothing, targets |-> {}, fixed |-> FALSE, dirty |-> {}]

DebtInit ==
  /\ live = InitialInvoices /\ alloc = [p \in Invoices \X Reps |-> 0]
  /\ stored = [r \in Reps |-> Debt(r)]
  /\ cache = Nothing
  /\ job = [a \in Jobs |-> Idle] /\ jobs = 0
  /\ settled = [r \in Reps |-> "no"] /\ current = {}

At(a, op, pc) == job[a].op \in op /\ job[a].pc = pc

\* Jobs after a step of a that leaves a as j, and disturbs the others about rs.
Disturbing(a, j, rs) ==
  [b \in Jobs |-> IF b = a THEN j ELSE IF job[b] = Idle THEN Idle
                                  ELSE [job[b] EXCEPT !.dirty = @ \cup rs]]
Becomes(a, j) == job' = [job EXCEPT ![a] = j]

\* The request is done with this representative.
Next1(j) == [j EXCEPT !.pc = "next", !.rep = "none", !.seen = 0, !.val = 0]
Clean(j, r) == [j EXCEPT !.rep = r, !.dirty = @ \ {r}]

\* A repair has written or confirmed the debt of r; something else has changed those of rs.
Settle(a, r, how) == settled' = [settled EXCEPT ![r] = IF r \in job[a].dirty THEN "no" ELSE how]
Unsettle(rs) == settled' = [r \in Reps |-> IF r \in rs THEN "no" ELSE settled[r]]
-----------------------------------------------------------------------------
(* calculateRepresentative, when nothing usable is in the cache. *)
ReadSales(a) ==
  /\ job[a].pc = "sales"
  /\ Becomes(a, [job[a] EXCEPT !.seen = Sales(job[a].rep), !.pc = "paid"])
  /\ UNCHANGED <<ledgerVars, stored, cache, jobs, history>>

\* Where a request goes on once it has the calculation of its representative.
Calculated(j, v) ==
  CASE j.op = "view" -> Idle
    [] j.op = "rollback" /\ j.targets # {} -> [j EXCEPT !.val = v, !.pc = "name"]
    [] j.op \in {"sync", "generate"} -> [j EXCEPT !.val = v, !.pc = "write"]
    [] OTHER -> [j EXCEPT !.val = v, !.pc = "compare"]

\* The result is stored; one that others have interfered with interferes with them in turn.
ReadPaid(a) ==
  /\ job[a].pc = "paid"
  /\ LET r == job[a].rep
         v == NonNegative(job[a].seen - Paid(r))
         overtaken == job[a].dirty \cap {r}
     IN  /\ cache' = With(cache, r, v)
         /\ job' = Disturbing(a, Calculated(job[a], v), overtaken)
         /\ current' = (current \cup {r}) \ overtaken
  /\ UNCHANGED <<ledgerVars, stored, jobs, settled>>

\* A page or a background refresh calculates; hits change nothing here.
View(a, r) ==
  /\ job[a] = Idle /\ jobs < MaxJobs
  /\ jobs' = jobs + 1
  /\ cache' = Without(cache, {r})
  /\ Becomes(a, [Idle EXCEPT !.op = "view", !.rep = r, !.pc = "sales"])
  /\ UNCHANGED <<ledgerVars, stored, history>>

\* AllocationService, or the manual allocation, allocates from a payment of s and leaves debt
\* and cache alone.
Allocate(i, s) ==
  /\ i \in live /\ alloc[<<i, s>>] < Amount[i] /\ SumOver(alloc, Invoices \X Reps) < MaxAllocated
  /\ alloc' = [alloc EXCEPT ![<<i, s>>] = @ + 1]
  /\ job' = Disturbing("env", Idle, {RepOf[i], s})
  /\ Unsettle({RepOf[i], s}) /\ current' = current \ {RepOf[i]}
  /\ UNCHANGED <<live, stored, cache, jobs>>

Start(a, op, pc, rs) ==
  /\ job[a] = Idle /\ jobs < MaxJobs
  /\ jobs' = jobs + 1
  /\ Becomes(a, [Idle EXCEPT !.op = op, !.pc = pc, !.todo = rs])
  /\ UNCHANGED <<ledgerVars, stored, cache, history>>

\* The request writes the debt of its representative.
WriteDebt(a, v, j) ==
  LET r == job[a].rep IN
    /\ stored' = [stored EXCEPT ![r] = v]
    /\ job' = Disturbing(a, j, {r})
-----------------------------------------------------------------------------
(* syncRepresentativeDebt, representative by representative. *)
SyncBegin(a) ==
  /\ At(a, {"sync"}, "next")
  /\ \E r \in job[a].todo :
       /\ cache' = Without(cache, {r})
       /\ Becomes(a, [Clean(job[a], r) EXCEPT !.todo = @ \ {r}, !.pc = "sales"])
  /\ UNCHANGED <<ledgerVars, stored, jobs, history>>

SyncWrite(a) ==
  /\ At(a, {"sync", "generate"}, "write")
  /\ WriteDebt(a, job[a].val, [job[a] EXCEPT !.pc = "after"])
  /\ Settle(a, job[a].rep, "engine")
  /\ UNCHANGED <<ledgerVars, cache, jobs, current>>

SyncEnd(a) ==
  /\ At(a, {"sync"}, "after")
  /\ cache' = Without(cache, {job[a].rep})
  /\ Becomes(a, Next1(job[a]))
  /\ UNCHANGED <<ledgerVars, stored, jobs, history>>

\* A statement fails; the loop goes on with the next representative.
SyncFault(a) ==
  /\ Faults /\ job[a].op = "sync" /\ job[a].pc \in {"sales", "paid", "write"}
  /\ Becomes(a, Next1(job[a]))
  /\ UNCHANGED <<ledgerVars, stored, cache, jobs, history>>

SyncFinish(a) ==
  /\ At(a, {"sync"}, "next") /\ job[a].todo = {}
  /\ Becomes(a, Idle)
  /\ UNCHANGED <<ledgerVars, stored, cache, jobs, history>>
-----------------------------------------------------------------------------
(* performSystemCorrection, also at the end of a rollback (whose targets   *)
(* are deleted by then).                                                   *)
Correcting(a) == job[a].op \in {"correct", "monitor", "rollback"} /\ job[a].targets = {}

\* A result in the cache is used, however old.  Once the ledger has changed since it was
\* calculated, the repair is as old as the result, unless the rollback itself has invalidated it.
CorrectHit(a) ==
  /\ Correcting(a) /\ job[a].pc = "next"
  /\ \E r \in job[a].todo \cap DOMAIN cache :
       LET planned == r \in DOMAIN job[a].plan
           j == IF planned THEN [job[a] EXCEPT !.rep = r] ELSE Clean(job[a], r)
       IN  Becomes(a, [j EXCEPT !.todo = @ \ {r}, !.val = cache[r], !.pc = "compare",
                                !.dirty = IF planned \/ r \in current THEN @ ELSE @ \cup {r}])
  /\ UNCHANGED <<ledgerVars, stored, cache, jobs, history>>

CorrectMiss(a) ==
  /\ Correcting(a) /\ job[a].pc = "next"
  /\ \E r \in job[a].todo :
       /\ cache' = Without(cache, {r})
       /\ Becomes(a, [Clean(job[a], r) EXCEPT !.todo = @ \ {r}, !.pc = "sales"])
  /\ UNCHANGED <<ledgerVars, stored, jobs, history>>

\* Mutant: what exceeds the tolerance is consistent.
Consistent_Inverted(x, y) == Distance(x, y) > Tolerance

\* validateRepresentativeConsistency: the stored debt is read after the calculation.
Consistent(x, y) == Distance(x, y) < Tolerance

CorrectCompare(a) ==
  /\ Correcting(a) /\ job[a].pc = "compare"
  /\ IF Consistent(job[a].val, stored[job[a].rep])
       THEN Becomes(a, Next1(job[a])) /\ Settle(a, job[a].rep, "engine")
       ELSE /\ Becomes(a, [job[a] EXCEPT !.pc = "write", !.fixed = @ \/ job[a].op = "monitor"])
            /\ UNCHANGED settled
  /\ UNCHANGED <<ledgerVars, stored, cache, jobs, current>>

CorrectWrite(a) ==
  /\ Correcting(a) /\ job[a].pc = "write"
  /\ WriteDebt(a, job[a].val, Next1([job[a] EXCEPT !.fixed = TRUE]))
  /\ Settle(a, job[a].rep, "engine")
  /\ UNCHANGED <<ledgerVars, cache, jobs, current>>

\* The calculation, the comparison or the write fails: the next one.
CorrectFault(a) ==
  /\ Faults /\ Correcting(a) /\ job[a].pc \in {"sales", "paid", "compare", "write"}
  /\ Becomes(a, Next1(job[a]))
  /\ UNCHANGED <<ledgerVars, stored, cache, jobs, history>>

\* The whole cache is dropped if anything was corrected.
CorrectFinish(a) ==
  /\ Correcting(a) /\ job[a].op # "monitor" /\ job[a].pc = "next" /\ job[a].todo = {}
  /\ cache' = IF job[a].fixed THEN Nothing ELSE cache
  /\ Becomes(a, Idle)
  /\ UNCHANGED <<ledgerVars, stored, jobs, history>>
\* performMonitoringCheck validates, which corrects, and begins again if anything was wrong.
MonitorAgain(a) ==
  /\ At(a, {"monitor"}, "next") /\ job[a].todo = {}
  /\ Becomes(a, IF job[a].fixed THEN [Idle EXCEPT !.op = "correct", !.pc = "next", !.todo = ActiveReps]
                ELSE Idle)
  /\ UNCHANGED <<ledgerVars, stored, cache, jobs, history>>
-----------------------------------------------------------------------------
(* rollbackInvoicesByDate *)
\* Requests with nothing to delete end; the others project the debts first.
RollbackFind(a) ==
  /\ At(a, {"rollback"}, "find")
  /\ LET found == live \cap Dated
     IN  Becomes(a, IF found = {} THEN Idle
                    ELSE [job[a] EXCEPT !.targets = found, !.todo = {RepOf[i] : i \in found},
                                        !.pc = "next"])
  /\ UNCHANGED <<ledgerVars, stored, cache, jobs, history>>

Projecting(a) == At(a, {"rollback"}, "next") /\ job[a].targets # {}

RollbackHit(a) ==
  /\ Projecting(a)
  /\ \E r \in job[a].todo \cap DOMAIN cache :
       Becomes(a, Calculated([job[a] EXCEPT !.rep = r, !.todo = @ \ {r}], cache[r]))
  /\ UNCHANGED <<ledgerVars, stored, cache, jobs, history>>

RollbackMiss(a) ==
  /\ Projecting(a)
  /\ \E r \in job[a].todo :
       /\ cache' = Without(cache, {r})
       /\ Becomes(a, [job[a] EXCEPT !.rep = r, !.todo = @ \ {r}, !.pc = "sales"])
  /\ UNCHANGED <<ledgerVars, stored, jobs, history>>

\* The name of the representative is selected before the projected debt is kept.
RollbackName(a) ==
  /\ At(a, {"rollback"}, "name")
  /\ LET r == job[a].rep
         deleted == {i \in job[a].targets : RepOf[i] = r}
     IN  Becomes(a, Next1([job[a] EXCEPT !.plan =
                             With(@, r, NonNegative(job[a].val - SumOver(Amount, deleted)))]))
  /\ UNCHANGED <<ledgerVars, stored, cache, jobs, history>>

\* The projection of a representative fails: its invoices are deleted all the same.  Without
\* the invoices, or the representatives to be corrected, the request ends.
RollbackFault(a) ==
  /\ Faults /\ job[a].op = "rollback"
  /\ \/ job[a].targets # {} /\ job[a].pc \in {"sales", "paid", "name"} /\ Becomes(a, Next1(job[a]))
     \/ job[a].pc = "find" /\ Becomes(a, Idle)
     \/ job[a].pc = "restore" /\ job[a].todo = {} /\ Becomes(a, Idle)
  /\ UNCHANGED <<ledgerVars, stored, cache, jobs, history>>

\* A dry run ends with the projections.
RollbackProjected(a) ==
  /\ Projecting(a) /\ job[a].todo = {}
  /\ \/ Becomes(a, Idle)
     \/ Becomes(a, [job[a] EXCEPT !.pc = "delete"])
  /\ UNCHANGED <<ledgerVars, stored, cache, jobs, history>>

\* The allocations go with the invoice.  A refused DELETE is only counted.
RollbackDelete(a) ==
  /\ At(a, {"rollback"}, "delete")
  /\ \E i \in job[a].targets :
       LET left == job[a].targets \ {i}
           payers == {s \in Reps : alloc[<<i, s>>] # 0}
           j == IF left # {} THEN [job[a] EXCEPT !.targets = left]
                ELSE [job[a] EXCEPT !.targets = {}, !.todo = DOMAIN job[a].plan, !.pc = "restore"]
       IN  \/ /\ i \notin Linked
              /\ live' = live \ {i}
              /\ alloc' = [p \in DOMAIN alloc |-> IF p[1] = i THEN 0 ELSE alloc[p]]
              /\ job' = Disturbing(a, j, {RepOf[i]} \cup payers)
              /\ Unsettle({RepOf[i]} \cup payers) /\ current' = current \ {RepOf[i]}
           \/ /\ i \in Linked \/ Faults
              /\ Becomes(a, j)
              /\ UNCHANGED <<ledgerVars, history>>
  /\ UNCHANGED <<stored, cache, jobs>>

\* Mutant: the entry of the cache is left.
RollbackInvalidate_NotAtAll(a) ==
  /\ At(a, {"rollback"}, "restore")
  /\ \E r \in job[a].todo :
       Becomes(a, [Clean(job[a], r) EXCEPT !.todo = @ \ {r}, !.pc = "project"])
  /\ UNCHANGED <<ledgerVars, stored, cache, jobs, history>>

RollbackInvalidate(a) ==
  /\ At(a, {"rollback"}, "restore")
  /\ \E r \in job[a].todo :
       /\ cache' = Without(cache, {r})
       /\ Becomes(a, [Clean(job[a], r) EXCEPT !.todo = @ \ {r}, !.pc = "project"])
  /\ UNCHANGED <<ledgerVars, stored, jobs, history>>

\* The projection is written, whatever has been deleted.
RollbackWrite(a) ==
  /\ At(a, {"rollback"}, "project")
  /\ LET r == job[a].rep
         j == [job[a] EXCEPT !.pc = "restore", !.rep = "none"]
     IN  \/ /\ WriteDebt(a, job[a].plan[r], j)
            /\ Unsettle({r})
         \/ Faults /\ Becomes(a, j) /\ UNCHANGED <<stored, settled>>
  /\ UNCHANGED <<ledgerVars, cache, jobs, current>>

\* The system correction selects the active representatives.
RollbackCorrect(a) ==
  /\ At(a, {"rollback"}, "restore") /\ job[a].todo = {}
  /\ Becomes(a, [job[a] EXCEPT !.pc = "next", !.todo = ActiveReps])
  /\ UNCHANGED <<ledgerVars, stored, cache, jobs, history>>
-----------------------------------------------------------------------------
(* runActiveReconciliation; what it reads of the ledger it reads itself.   *)
\* plan holds the stored debts first, and what is going to be written later.
ReconcileSelect(a) ==
  /\ At(a, {"reconcile"}, "select")
  /\ Becomes(a, [job[a] EXCEPT !.plan = Restrict(stored, ActiveReps), !.todo = ActiveReps,
                               !.dirty = {}, !.pc = "detect"])
  /\ UNCHANGED <<ledgerVars, stored, cache, jobs, history>>

LedgerSales(a) ==
  /\ At(a, {"reconcile"}, "detect")
  /\ \E r \in job[a].todo :
       Becomes(a, [job[a] EXCEPT !.rep = r, !.seen = Sales(r), !.pc = "ledger"])
  /\ UNCHANGED <<ledgerVars, stored, cache, jobs, history>>

\* Mutant: the limit of an adjustment is not looked at.
Adjusts_AnyAmount(before, debt) == 1000 * Distance(before, debt) > 5 * before

\* An anomaly drifts by more than DRIFT_THRESHOLD; a large one is left for review.
Adjusts(before, debt) ==
  1000 * Distance(before, debt) > 5 * before /\ Distance(before, debt) <= MaxAdjust

\* With any drift at all, the anomalies become the plan.
LedgerPaid(a) ==
  /\ At(a, {"reconcile"}, "ledger")
  /\ LET r == job[a].rep
         debt == NonNegative(job[a].seen - PaidFrom(r))
         left == job[a].todo \ {r}
     IN  Becomes(a, [job[a] EXCEPT !.todo = left, !.rep = "none", !.seen = 0,
                       !.plan = IF Adjusts(@[r], debt) THEN With(@, r, debt) ELSE Without(@, {r}),
                       !.pc = IF left = {} THEN "planned" ELSE "detect"])
  /\ UNCHANGED <<ledgerVars, stored, cache, jobs, history>>

\* Dry runs and runs without actions end here.
ReconcilePlanned(a) ==
  /\ At(a, {"reconcile"}, "planned")
  /\ \/ Becomes(a, Idle)
     \/ /\ job[a].plan # Nothing
        /\ Becomes(a, [job[a] EXCEPT !.todo = DOMAIN job[a].plan, !.pc = "adjust"])
  /\ UNCHANGED <<ledgerVars, stored, cache, jobs, history>>

\* ADJUST_DEBT writes the value of the plan.
ReconcileAdjust(a) ==
  /\ At(a, {"reconcile"}, "adjust")
  /\ \E r \in job[a].todo :
       /\ stored' = [stored EXCEPT ![r] = job[a].plan[r]]
       /\ job' = Disturbing(a, [job[a] EXCEPT !.todo = @ \ {r}, !.rep = r, !.pc = "cache"], {r})
       /\ Settle(a, r, "ledger")
  /\ UNCHANGED <<ledgerVars, cache, jobs, current>>

\* SYNC_CACHE invalidates the entry; the last action ends the run.
ReconcileCache(a) ==
  /\ At(a, {"reconcile"}, "cache")
  /\ cache' = Without(cache, {job[a].rep})
  /\ Becomes(a, IF job[a].todo = {} THEN Idle ELSE [job[a] EXCEPT !.rep = "none", !.pc = "adjust"])
  /\ UNCHANGED <<ledgerVars, stored, jobs, history>>

\* A query, the insert of the plan or the status of an action fails: the run ends with 500; a
\* failed adjustment is counted, and its cache action goes on.
ReconcileFault(a) ==
  /\ Faults /\ job[a].op = "reconcile"
  /\ \/ Becomes(a, Idle)
     \/ /\ job[a].pc = "adjust"
        /\ \E r \in job[a].todo :
             Becomes(a, [job[a] EXCEPT !.todo = @ \ {r}, !.rep = r, !.pc = "cache"])
  /\ UNCHANGED <<ledgerVars, stored, cache, jobs, history>>
-----------------------------------------------------------------------------
RepairStart(a) ==
  \/ \E rs \in SUBSET Reps \ {{}} : Start(a, "sync", "next", rs)
  \/ \E op \in {"correct", "monitor"} : Start(a, op, "next", ActiveReps)
  \/ Start(a, "rollback", "find", {})
  \/ Start(a, "reconcile", "select", {})

RepairStep(a) ==
  \/ ReadSales(a) \/ ReadPaid(a)
  \/ SyncBegin(a) \/ SyncWrite(a) \/ SyncEnd(a) \/ SyncFault(a) \/ SyncFinish(a)
  \/ CorrectHit(a) \/ CorrectMiss(a) \/ CorrectCompare(a) \/ CorrectWrite(a)
  \/ CorrectFault(a) \/ CorrectFinish(a) \/ MonitorAgain(a)
  \/ RollbackFind(a) \/ RollbackHit(a) \/ RollbackMiss(a) \/ RollbackName(a) \/ RollbackFault(a)
  \/ RollbackProjected(a) \/ RollbackDelete(a) \/ RollbackInvalidate(a) \/ RollbackWrite(a)
  \/ RollbackCorrect(a)
  \/ ReconcileSelect(a) \/ LedgerSales(a) \/ LedgerPaid(a) \/ ReconcilePlanned(a)
  \/ ReconcileAdjust(a) \/ ReconcileCache(a) \/ ReconcileFault(a)

DebtNext ==
  \/ \E a \in Jobs : RepairStart(a) \/ RepairStep(a) \/ \E r \in Reps : View(a, r)
  \/ \E i \in Invoices, s \in Reps : <<i, s>> \in Payable /\ Allocate(i, s)
-----------------------------------------------------------------------------
\* The variables keep their types and a request stays at a place of its operation.
TypeOK ==
  /\ live \subseteq Invoices
  /\ \A i \in Invoices, s \in Reps :
       alloc[<<i, s>>] \in 0..Amount[i] /\ (i \notin live => alloc[<<i, s>>] = 0)
  /\ DOMAIN stored = Reps /\ \A r \in Reps : stored[r] \in Nat
  /\ DOMAIN cache \subseteq Reps /\ \A r \in DOMAIN cache : cache[r] \in Nat
  /\ jobs \in 0..MaxJobs
  /\ settled \in [Reps -> {"no", "engine", "ledger"}] /\ current \subseteq Reps
  /\ \A a \in Jobs :
       /\ job[a].todo \subseteq Reps /\ job[a].dirty \subseteq Reps
       /\ job[a].targets \subseteq Dated /\ DOMAIN job[a].plan \subseteq Reps
       /\ \A r \in DOMAIN job[a].plan : job[a].plan[r] \in Nat
       /\ job[a].rep = "none" <=> job[a].pc \in {"idle", "next", "find", "delete", "restore",
                             "select", "detect", "planned", "adjust", "batch", "create", "count", "total"}

\* The last repair of a debt left it right, within the tolerance of the correction, and it is
\* right until something else touches the representative: whichever of the four repairs it
\* was, whatever failed in it for others, and as long as nobody changed the ledger, the debt or
\* the cached entry while it was at work.  A correction from the cache counts unless the ledger
\* has changed since that entry was calculated.  Right is what the repair itself counts:
\* the reconciliation subtracts what was paid from the payments of the representative, the
\* others what was paid on its invoices.
DebtAfterRepair ==
  \A r \in Reps :
    /\ settled[r] = "engine" => Distance(stored[r], Debt(r)) < Tolerance
    /\ settled[r] = "ledger" => Distance(stored[r], LedgerDebt(r)) < Tolerance

\* "MAX_ADJUSTMENT_AMOUNT ... safety limit": a reconciliation moves a debt by at most that much,
\* provided that nobody has touched the representative since the debts were selected.
AdjustWithinLimit ==
  [][\A a \in Jobs, r \in Reps :
       At(a, {"reconcile"}, "adjust") /\ r \notin job[a].dirty /\ job'[a].pc = "cache"
         /\ job'[a].rep = r => Distance(stored[r], stored'[r]) <= MaxAdjust]_debtVars
=============================================================================
