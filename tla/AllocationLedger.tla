-------------------------- MODULE AllocationLedger --------------------------
(***************************************************************************)
(* Requests that allocate payments to invoices, and the ledger             *)
(* payment_allocations they write.                                         *)
(*   manual   storage.manualAllocatePaymentToInvoice: separate statements, *)
(*            the whole body re-run by executeWithRetry when it throws     *)
(*   partial  AllocationService.allocatePartial: one transaction           *)
(*   full     AllocationService.allocateFull: one transaction              *)
(* Transactions run at READ COMMITTED without row locks on what they read. *)
(* InvoiceBalanceCacheService.recompute runs on a connection of its own:   *)
(* it reads committed rows only.                                           *)
(* storage.deletePayment and deleteInvoice delete a payment or an invoice  *)
(* at any time; the rows of the ledger go with it, and the cache row of a  *)
(* deleted invoice, but no cache row is recomputed.  The process may exit  *)
(* and start again at any await.                                           *)
(*                                                                         *)
(* Of the ledger the code reads nothing but SUM(allocated_amount) by       *)
(* payment and by invoice, and the unique index on idempotency_key; so the *)
(* ledger is what each payment has on each invoice, and keys (committed)   *)
(* and, per open transaction, what it inserted and has not committed.      *)
(* The flags are kept in memory and are off after a start; the constants   *)
(* are what they are set to when requests arrive.                          *)
(***************************************************************************)
EXTENDS Integers, Sequences, SequencesExt, FiniteSets

CONSTANTS
  Payments, Invoices, Actors,
  PayAmount, InvAmount, \* amounts of payments and invoices
  Requests,             \* requests that may arrive: [op, pay, lines]
  Overlapping,          \* those that may arrive while another one is in progress
  Guards,               \* flag allocation_runtime_guards
  PartialMode,          \* flag allocation_partial_mode
  DualWrite,            \* flag allocation_dual_write
  DbFaults,             \* BOOLEAN: statements outside transactions may fail
  MaxAttempts,          \* attempts of executeWithRetry
  MaxRequests,          \* bound: requests in a behaviour
  MaxDeletions          \* bound: payments and invoices deleted in a behaviour

Lines == [inv : Invoices, amt : Nat]

ASSUME LedgerAssumption ==
  /\ IsFiniteSet(Payments) /\ IsFiniteSet(Invoices)
  /\ PayAmount \in [Payments -> Nat \ {0}] /\ InvAmount \in [Invoices -> Nat]
  /\ Requests \subseteq [op : {"manual", "partial", "full"}, pay : Payments, lines : Seq(Lines)]
  /\ Overlapping \subseteq Requests
  /\ Requests # {} /\ \A r \in Requests : Len(r.lines) > 0
  /\ Guards \in {"off", "warn", "enforce"} /\ PartialMode \in {"off", "allow", "enforce"}
  /\ DualWrite \in {"off", "shadow", "enforce"} /\ DbFaults \in BOOLEAN
  /\ MaxAttempts \in Nat /\ MaxRequests \in Nat /\ MaxDeletions \in Nat

VARIABLES
  payRows, invRows,           \* payments and invoices not deleted
  share, keys,                \* committed ledger: amount by payment and invoice, and its index
  isAllocated,                \* payments.is_allocated, committed
  cached,                     \* invoice_balance_cache.allocated_total, -1 without a row
  pc, req,                    \* per actor: next statement, request in progress
  line,                       \* per actor: index of the line it works on
  pend, pendKeys,             \* per actor: rows inserted and not committed, by invoice
  pendFlag,                   \* per actor: is_allocated set and not committed
  aborted,                    \* per actor: a statement of its transaction failed
  todo, seen,                 \* per actor: caches to recompute, aggregate read
  tries,                      \* per actor: attempts of executeWithRetry made
  requests,
  unseen,                     \* history: deleted since the aggregate in the cache was read
  missed                      \* history, per actor: deleted since it read its aggregate

ledgerVars == <<payRows, invRows, share, keys, isAllocated>>
txVars == <<pend, pendKeys, pendFlag, aborted>>
history == <<unseen, missed>>
vars == <<ledgerVars, cached, pc, req, line, txVars, todo, seen, tries, requests, history>>

NoRow == -1
Nothing == [i \in Invoices |-> 0]
PCs == {"idle", "mPay", "mInv", "mInsert", "mFlag", "mLog", "mFail", "pSnap", "pLine", "pInsert",
        "fRead", "fUpdate", "fInsert", "cRead", "cWrite", "commit"}

Init ==
  /\ payRows = Payments /\ invRows = Invoices
  /\ share = [p \in Payments |-> Nothing] /\ keys = {}
  /\ isAllocated = [p \in Payments |-> FALSE]
  /\ cached = [i \in Invoices |-> NoRow]
  /\ pc = [a \in Actors |-> "idle"]
  /\ pend = [a \in Actors |-> Nothing]
  /\ pendKeys = [a \in Actors |-> {}] /\ pendFlag = [a \in Actors |-> FALSE]
  /\ aborted = [a \in Actors |-> FALSE]
  /\ todo = [a \in Actors |-> {}]
  /\ req = [a \in Actors |-> CHOOSE r \in Requests : TRUE]
  /\ line = [a \in Actors |-> 1]
  /\ seen = [a \in Actors |-> 0] /\ tries = [a \in Actors |-> 0]
  /\ requests = 0
  /\ unseen = Nothing /\ missed = [a \in Actors |-> 0]
-----------------------------------------------------------------------------
GoTo(a, s) == pc' = [pc EXCEPT ![a] = s]
Line(a) == req[a].lines[line[a]]
Total(r) == FoldLeft(LAMBDA s, l : s + l.amt, 0, r.lines)

SumOver(f, S) == FoldFunctionOnSet(+, 0, f, S)
PaySum(p) == SumOver(share[p], Invoices)
InvSum(i) == SumOver([p \in Payments |-> share[p][i]], Payments)

\* What a statement of a's transaction sees: committed rows and its own.
SeenPay(a) == SumOver([i \in Invoices |-> share[req[a].pay][i] + pend[a][i]], Invoices)
SeenInv(a, i) == InvSum(i) + pend[a][i]

PayThere(a) == req[a].pay \in payRows
InvThere(a) == Line(a).inv \in invRows

\* stableIdempotencyKey(payment, invoice, amount); manual rows have none.
Key(a) ==
  IF req[a].op = "full" THEN <<req[a].pay, Line(a).inv, 0>>
                        ELSE <<req[a].pay, Line(a).inv, Line(a).amt>>

\* The unique index makes an insert wait for an open transaction that holds the key.
KeyFree(a) == \A b \in Actors \ {a} : Key(a) \notin pendKeys[b]
KeyTaken(a) == Key(a) \in keys \cup pendKeys[a]

InsertPending(a, amt) ==
  /\ pend' = [pend EXCEPT ![a][Line(a).inv] = @ + amt]
  /\ pendKeys' = [pendKeys EXCEPT ![a] = @ \cup {Key(a)}]

\* The transaction of a ends: its writes are dropped.
Reset(a) ==
  /\ pend' = [pend EXCEPT ![a] = Nothing]
  /\ pendKeys' = [pendKeys EXCEPT ![a] = {}]
  /\ pendFlag' = [pendFlag EXCEPT ![a] = FALSE]
  /\ aborted' = [aborted EXCEPT ![a] = FALSE]
  /\ todo' = [todo EXCEPT ![a] = {}]
  /\ GoTo(a, "idle")

\* An exception leaves db.transaction: ROLLBACK.
Rollback(a) == Reset(a) /\ UNCHANGED <<ledgerVars, cached, req, line, seen, tries, requests, history>>

Arrive(a, r) ==
  /\ pc[a] = "idle" /\ requests < MaxRequests
  /\ \A b \in Actors \ {a} : pc[b] # "idle" => {r, req[b]} \subseteq Overlapping
  /\ req' = [req EXCEPT ![a] = r] /\ line' = [line EXCEPT ![a] = 1]
  /\ tries' = [tries EXCEPT ![a] = 1]
  /\ requests' = requests + 1
  /\ \/ r.op = "manual" /\ r.lines[1].amt \in 1..PayAmount[r.pay] /\ GoTo(a, "mPay")
     \/ r.op = "partial" /\ PartialMode # "off" /\ GoTo(a, "pSnap")
     \/ r.op = "full" /\ GoTo(a, "fRead")
  /\ UNCHANGED <<ledgerVars, cached, txVars, todo, seen, history>>
-----------------------------------------------------------------------------
(* manualAllocatePaymentToInvoice *)

manualFrame == <<payRows, invRows, keys, cached, req, line, txVars, todo, seen, requests, history>>

\* A payment or an invoice that is not found is an error.
ManualCheckPayment(a) ==
  /\ pc[a] = "mPay"
  /\ \/ ~(PayThere(a) /\ InvThere(a)) /\ GoTo(a, "mFail")
     \/ /\ PayThere(a) /\ InvThere(a)
        /\ GoTo(a, IF Line(a).amt > PayAmount[req[a].pay] - PaySum(req[a].pay) THEN "idle" ELSE "mInv")
  /\ UNCHANGED <<manualFrame, share, isAllocated, tries>>

\* The limit is parseFloat(invoice.totalAmount); invoices have no such
\* column, it is NaN, and no amount is greater than NaN.
ManualCheckInvoice(a) ==
  /\ pc[a] = "mInv"
  /\ GoTo(a, "mInsert")
  /\ UNCHANGED <<manualFrame, share, isAllocated, tries>>

ManualInsert(a) ==
  /\ pc[a] = "mInsert" /\ PayThere(a) /\ InvThere(a)
  /\ share' = [share EXCEPT ![req[a].pay][Line(a).inv] = @ + Line(a).amt]
  /\ GoTo(a, "mFlag")
  /\ UNCHANGED <<manualFrame, isAllocated, tries>>

\* The update waits while an open transaction has updated the payment.
ManualFlag(a) ==
  /\ pc[a] = "mFlag"
  /\ \A b \in Actors : pendFlag[b] => req[b].pay # req[a].pay
  /\ isAllocated' = [isAllocated EXCEPT ![req[a].pay] = PayThere(a)]
  /\ GoTo(a, "mLog")
  /\ UNCHANGED <<manualFrame, share, tries>>

\* Activity log and representative totals, then the answer.
ManualFinish(a) ==
  /\ pc[a] = "mLog"
  /\ GoTo(a, "idle")
  /\ UNCHANGED <<manualFrame, share, isAllocated, tries>>

\* A statement throws, as the insert does when what it refers to has been deleted: the catch
\* block writes an activity log.
ManualFault(a) ==
  /\ \/ DbFaults /\ pc[a] \in {"mPay", "mInv", "mInsert", "mFlag", "mLog"}
     \/ pc[a] = "mInsert" /\ ~(PayThere(a) /\ InvThere(a))
  /\ GoTo(a, "mFail")
  /\ UNCHANGED <<manualFrame, share, isAllocated, tries>>

\* If that log fails too, the operation throws and executeWithRetry runs it again.
ManualFail(a) ==
  /\ pc[a] = "mFail"
  /\ \/ GoTo(a, "idle") /\ UNCHANGED tries
     \/ IF tries[a] < MaxAttempts
          THEN GoTo(a, "mPay") /\ tries' = [tries EXCEPT ![a] = @ + 1]
          ELSE GoTo(a, "idle") /\ UNCHANGED tries
  /\ UNCHANGED <<manualFrame, share, isAllocated>>
-----------------------------------------------------------------------------
(* allocatePartial *)
partialFrame == <<ledgerVars, cached, req, seen, tries, requests, history>>

\* Mutant: every line is compared with what the payment has left, not their sum.
Valid_PerLine(a) ==
  \A l \in Range(req[a].lines) :
    /\ l.inv \in invRows /\ l.amt > 0 /\ l.amt <= InvAmount[l.inv] - SeenInv(a, l.inv)
    /\ l.amt <= PayAmount[req[a].pay] - SeenPay(a)

\* validateAllocations checks the sum of the lines against the payment and
\* each line by itself against its invoice.
Valid(a) ==
  /\ Total(req[a]) <= PayAmount[req[a].pay] - SeenPay(a)
  /\ \A l \in Range(req[a].lines) :
       l.inv \in invRows /\ l.amt > 0 /\ l.amt <= InvAmount[l.inv] - SeenInv(a, l.inv)

PartialSnapshot(a) ==
  /\ pc[a] = "pSnap"
  /\ \/ PayThere(a) /\ (Valid(a) \/ Guards # "enforce") /\ GoTo(a, "pLine")
     \/ ~(PayThere(a) /\ (Valid(a) \/ Guards # "enforce")) /\ GoTo(a, "idle")
  /\ UNCHANGED <<partialFrame, line, txVars, todo>>

\* Mutant: the caches are recomputed even when no line was inserted.
NextLine_AlwaysSync(a, toSync) ==
  /\ todo' = [todo EXCEPT ![a] = toSync]
  /\ IF line[a] < Len(req[a].lines)
       THEN line' = [line EXCEPT ![a] = @ + 1] /\ GoTo(a, "pLine")
       ELSE UNCHANGED line /\ GoTo(a, "cRead")

\* The next line, or the caches of the invoices in toSync, or the end.
NextLine(a, toSync) ==
  /\ todo' = [todo EXCEPT ![a] = toSync]
  /\ IF line[a] < Len(req[a].lines)
       THEN line' = [line EXCEPT ![a] = @ + 1] /\ GoTo(a, "pLine")
       ELSE UNCHANGED line /\ GoTo(a, IF toSync = {} THEN "commit" ELSE "cRead")

\* Mutant: every line is checked against the committed rows only.
OverRemaining_CommittedOnly(a) == Line(a).amt > InvAmount[Line(a).inv] - InvSum(Line(a).inv)

OverRemaining(a) == Line(a).amt > InvAmount[Line(a).inv] - SeenInv(a, Line(a).inv)

PartialCheck(a) ==
  /\ pc[a] = "pLine" /\ ~aborted[a]
  /\ Line(a).amt > 0 /\ InvThere(a) /\ ~OverRemaining(a)
  /\ GoTo(a, "pInsert")
  /\ UNCHANGED <<partialFrame, line, txVars, todo>>

\* amount <= 0, no such invoice, or more than it has left: the line is left
\* out, unless the mode makes the last an error.  An amount of 0 needs no
\* statement and is skipped in an aborted transaction too.
PartialSkip(a) ==
  /\ pc[a] = "pLine"
  /\ \/ Line(a).amt = 0
     \/ ~aborted[a] /\ (~InvThere(a) \/ (OverRemaining(a) /\ PartialMode # "enforce"))
  /\ NextLine(a, todo[a])
  /\ UNCHANGED <<partialFrame, txVars>>

PartialReject(a) ==
  /\ pc[a] = "pLine"
  /\ Line(a).amt > 0
  /\ aborted[a] \/ (InvThere(a) /\ OverRemaining(a) /\ PartialMode = "enforce")
  /\ Rollback(a)

PartialInsert(a) ==
  /\ pc[a] = "pInsert" /\ PayThere(a) /\ InvThere(a)
  /\ KeyFree(a) /\ ~KeyTaken(a)
  /\ InsertPending(a, Line(a).amt)
  /\ NextLine(a, todo[a] \cup {Line(a).inv})
  /\ UNCHANGED <<partialFrame, pendFlag, aborted>>

\* Two transactions wait for each other's keys: Postgres fails one insert.
Deadlocked(a) ==
  \E b \in Actors \ {a} :
    pc[b] = "pInsert" /\ Key(a) \in pendKeys[b] /\ Key(b) \in pendKeys[a]

\* A duplicate key, a deleted payment or invoice, a deadlock: the error is
\* caught, but Postgres has aborted the transaction.
PartialInsertFails(a) ==
  /\ pc[a] = "pInsert"
  /\ \/ KeyFree(a) /\ (KeyTaken(a) \/ ~PayThere(a) \/ ~InvThere(a))
     \/ Deadlocked(a)
  /\ aborted' = [aborted EXCEPT ![a] = TRUE]
  /\ NextLine(a, todo[a])
  /\ UNCHANGED <<partialFrame, pend, pendKeys, pendFlag>>
-----------------------------------------------------------------------------
(* allocateFull *)
FullGuard(a) ==
  /\ SeenPay(a) = 0
  /\ SeenInv(a, Line(a).inv) + PayAmount[req[a].pay] <= InvAmount[Line(a).inv]

FullRead(a) ==
  /\ pc[a] = "fRead"
  /\ LET refused == \/ ~PayThere(a) \/ ~InvThere(a) \/ isAllocated[req[a].pay]
                    \/ Guards = "enforce" /\ ~FullGuard(a)
     IN GoTo(a, IF refused THEN "idle" ELSE "fUpdate")
  /\ UNCHANGED <<partialFrame, line, txVars, todo>>

FullUpdate(a) ==
  /\ pc[a] = "fUpdate"
  /\ \A b \in Actors : pendFlag[b] => req[b].pay # req[a].pay
  /\ pendFlag' = [pendFlag EXCEPT ![a] = PayThere(a)]
  /\ GoTo(a, IF DualWrite = "off" THEN "commit" ELSE "fInsert")
  /\ UNCHANGED <<partialFrame, line, pend, pendKeys, aborted, todo>>

FullInsert(a) ==
  /\ pc[a] = "fInsert"
  /\ KeyFree(a)
  /\ IF KeyTaken(a) \/ ~PayThere(a) \/ ~InvThere(a)
       THEN /\ aborted' = [aborted EXCEPT ![a] = TRUE]
            /\ GoTo(a, "commit")
            /\ UNCHANGED <<pend, pendKeys, todo>>
       ELSE /\ InsertPending(a, PayAmount[req[a].pay])
            /\ todo' = [todo EXCEPT ![a] = {Line(a).inv}]
            /\ GoTo(a, "cRead")
            /\ UNCHANGED aborted
  /\ UNCHANGED <<partialFrame, line, pendFlag>>
-----------------------------------------------------------------------------
(* InvoiceBalanceCacheService.recompute, on another connection.  The       *)
(* invoice is there: its deletion waits for the transaction that has       *)
(* inserted a row for it.                                                  *)
cacheFrame == <<ledgerVars, req, line, txVars, tries, requests>>

CacheTarget(a) == CHOOSE i \in todo[a] : TRUE

\* Mutant: the aggregate includes the rows of the open transaction.
CacheRead_OwnRows(a) ==
  /\ pc[a] = "cRead"
  /\ seen' = [seen EXCEPT ![a] = SeenInv(a, CacheTarget(a))]
  /\ missed' = [missed EXCEPT ![a] = 0]
  /\ GoTo(a, "cWrite")
  /\ UNCHANGED <<cacheFrame, cached, todo, unseen>>

CacheRead(a) ==
  /\ pc[a] = "cRead"
  /\ seen' = [seen EXCEPT ![a] = InvSum(CacheTarget(a))]
  /\ missed' = [missed EXCEPT ![a] = 0]
  /\ GoTo(a, "cWrite")
  /\ UNCHANGED <<cacheFrame, cached, todo, unseen>>

CacheWrite(a) ==
  /\ pc[a] = "cWrite"
  /\ cached' = [cached EXCEPT ![CacheTarget(a)] = seen[a]]
  /\ unseen' = [unseen EXCEPT ![CacheTarget(a)] = missed[a]]
  /\ todo' = [todo EXCEPT ![a] = @ \ {CacheTarget(a)}]
  /\ GoTo(a, IF todo'[a] = {} THEN "commit" ELSE "cRead")
  /\ UNCHANGED <<cacheFrame, seen, missed>>

\* COMMIT of an aborted transaction rolls it back without an error.
Commit(a) ==
  /\ pc[a] = "commit"
  /\ IF aborted[a]
       THEN UNCHANGED ledgerVars
       ELSE /\ share' = [share EXCEPT ![req[a].pay] = [i \in Invoices |-> @[i] + pend[a][i]]]
            /\ keys' = keys \cup pendKeys[a]
            /\ isAllocated' = [isAllocated EXCEPT ![req[a].pay] = @ \/ pendFlag[a]]
            /\ UNCHANGED <<payRows, invRows>>
  /\ Reset(a)
  /\ UNCHANGED <<cached, req, line, seen, tries, requests, history>>
-----------------------------------------------------------------------------
(* Deletions and restarts.                                                 *)
deleteFrame == <<pc, req, line, txVars, todo, seen, tries, requests>>

Deletions == Cardinality(Payments \ payRows) + Cardinality(Invoices \ invRows)

\* deletePayment: the foreign keys cascade to the ledger.  It waits for a transaction that has
\* updated the payment or inserted a row for it.
DeletePayment(p) ==
  /\ p \in payRows /\ Deletions < MaxDeletions
  /\ \A a \in Actors : req[a].pay = p => ~pendFlag[a] /\ pendKeys[a] = {}
  /\ payRows' = payRows \ {p}
  /\ share' = [share EXCEPT ![p] = Nothing]
  /\ keys' = {k \in keys : k[1] # p}
  /\ isAllocated' = [isAllocated EXCEPT ![p] = FALSE]
  /\ unseen' = [i \in Invoices |-> unseen[i] + share[p][i]]
  /\ missed' = [a \in Actors |->
                  missed[a] + IF pc[a] = "cWrite" THEN share[p][CacheTarget(a)] ELSE 0]
  /\ UNCHANGED <<deleteFrame, invRows, cached>>

\* deleteInvoice: to the ledger and to the cache.
DeleteInvoice(i) ==
  /\ i \in invRows /\ Deletions < MaxDeletions
  /\ \A a \in Actors : pend[a][i] = 0
  /\ invRows' = invRows \ {i}
  /\ share' = [p \in Payments |-> [share[p] EXCEPT ![i] = 0]]
  /\ keys' = {k \in keys : k[2] # i}
  /\ cached' = [cached EXCEPT ![i] = NoRow]
  /\ unseen' = [unseen EXCEPT ![i] = 0]
  /\ UNCHANGED <<deleteFrame, payRows, isAllocated, missed>>

\* The process exits and starts again: open transactions are rolled back.
Restart ==
  /\ pc' = [a \in Actors |-> "idle"]
  /\ pend' = [a \in Actors |-> Nothing]
  /\ pendKeys' = [a \in Actors |-> {}] /\ pendFlag' = [a \in Actors |-> FALSE]
  /\ aborted' = [a \in Actors |-> FALSE]
  /\ todo' = [a \in Actors |-> {}]
  /\ UNCHANGED <<ledgerVars, cached, req, line, seen, tries, requests, history>>

Step(a) ==
  \/ \E r \in Requests : Arrive(a, r)
  \/ ManualCheckPayment(a) \/ ManualCheckInvoice(a) \/ ManualInsert(a) \/ ManualFlag(a)
  \/ ManualFinish(a) \/ ManualFault(a) \/ ManualFail(a)
  \/ PartialSnapshot(a) \/ PartialCheck(a) \/ PartialSkip(a) \/ PartialReject(a)
  \/ PartialInsert(a) \/ PartialInsertFails(a)
  \/ FullRead(a) \/ FullUpdate(a) \/ FullInsert(a)
  \/ CacheRead(a) \/ CacheWrite(a) \/ Commit(a)

Deletion == (\E p \in Payments : DeletePayment(p)) \/ (\E i \in Invoices : DeleteInvoice(i))

Next == (\E a \in Actors : Step(a)) \/ Deletion \/ Restart

Spec == Init /\ [][Next]_vars
-----------------------------------------------------------------------------
LedgerTypeOK ==
  /\ payRows \subseteq Payments /\ invRows \subseteq Invoices
  /\ share \in [Payments -> [Invoices -> Nat]]
  /\ keys \subseteq Payments \X Invoices \X Nat
  /\ isAllocated \in [Payments -> BOOLEAN]
  /\ cached \in [Invoices -> Nat \cup {NoRow}]

ControlTypeOK ==
  /\ pc \in [Actors -> PCs] /\ req \in [Actors -> Requests]
  /\ line \in [Actors -> Nat \ {0}] /\ \A a \in Actors : line[a] <= Len(req[a].lines)
  /\ tries \in [Actors -> Nat] /\ requests \in Nat

TxTypeOK ==
  /\ pend \in [Actors -> [Invoices -> Nat]]
  /\ pendKeys \in [Actors -> SUBSET (Payments \X Invoices \X Nat)]
  /\ pendFlag \in [Actors -> BOOLEAN] /\ aborted \in [Actors -> BOOLEAN]

\* A recompute has an invoice to work on.
SyncTypeOK ==
  /\ todo \in [Actors -> SUBSET Invoices] /\ seen \in [Actors -> Nat]
  /\ \A a \in Actors : pc[a] \in {"cRead", "cWrite"} => todo[a] # {}
  /\ unseen \in [Invoices -> Nat] /\ missed \in [Actors -> Nat]

TypeOK == LedgerTypeOK /\ ControlTypeOK /\ TxTypeOK /\ SyncTypeOK

(* I1/I6 of the ledger tests: the allocations of a payment never add up to *)
(* more than the payment.                                                  *)
PaymentNotOverAllocated == \A p \in Payments : PaySum(p) <= PayAmount[p]

(* I2/I7 of the ledger tests, as far as the code keeps them: only the      *)
(* insert of a manual allocation, whose limit is not a number, brings an   *)
(* invoice above its amount or adds to one that is above it; partial and   *)
(* full allocations never do, whatever was allocated by hand before.       *)
OnlyManualExceeds ==
  [][\A i \in Invoices :
       InvSum(i)' > InvSum(i) /\ InvSum(i)' > InvAmount[i] =>
         \E a \in Actors : pc[a] = "mInsert" /\ Line(a).inv = i]_vars

(* The balance cache shows no more than the ledger holds and the payments  *)
(* deleted since its row was computed held: nothing that a transaction     *)
(* rolled back, or had not committed, stays in it.                         *)
CacheBacked == \A i \in Invoices : cached[i] <= InvSum(i) + unseen[i]
=============================================================================
