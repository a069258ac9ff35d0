--------------------------- MODULE PaymentRecords ---------------------------
(***************************************************************************)
(* The requests about payments, beside those of InvoiceLifecycle: a new    *)
(* payment, allocated at once or not, its change and deletion, a manual    *)
(* allocation, and the old link of a payment to an invoice, with and       *)
(* without the new computation of its status.                              *)
(* Of the statements of manualAllocatePaymentToInvoice (all of them in     *)
(* AllocationLedger) the reads are one step.  A change of a payment is of  *)
(* its amount; a selected invoice is given by its number.                  *)
(***************************************************************************)
EXTENDS InvoiceLifecycle

PaymentRequests ==
  [op : {"pay"}, pay : Payments, amt : Amounts, inv : Invoices \cup {NoInvoice}]
    \cup [op : {"repay"}, pay : Payments, amt : Amounts]
    \cup [op : {"unpay"}, pay : Payments]
    \cup [op : {"allocate"}, pay : Payments, amt : Amounts, inv : Invoices]
    \cup [op : {"link", "attach"}, pay : Payments, inv : Invoices]

PaymentFirst(r) ==
  CASE r.op = "pay" -> IF r.inv = NoInvoice THEN "nInsert" ELSE "nResolve"
    [] r.op = "repay" -> "uUpdate" [] r.op = "unpay" -> "uFind"
    [] r.op = "allocate" -> "aRead" [] r.op \in {"link", "attach"} -> "lLink"

\* How often a request updates the debt.
UpdatesOf(r) ==
  CASE r.op = "pay" -> IF r.inv = NoInvoice THEN 2 ELSE 3
    [] r.op = "unpay" -> 2 [] r.op \in {"repay", "allocate"} -> 1
    [] r.op \in {"link", "attach"} -> 0

Held(p) == pay[p].is = "live"
-----------------------------------------------------------------------------
(* POST /api/payments *)

\* getInvoiceIdByNumber; 400 without such an invoice.
Resolve(a) ==
  /\ pc[a] = "nResolve"
  /\ IF Live(req[a].inv) THEN GoTo(a, "nInsert") /\ UNCHANGED <<got, frame>>
     ELSE Respond(a, FALSE)
  /\ UNCHANGED tables

\* createPayment, its INSERT; the debt follows.
PaymentInsert(a) ==
  LET p == req[a].pay IN
  /\ pc[a] = "nInsert" /\ pay[p] = NoPayment
  /\ pay' = [pay EXCEPT ![p] = [NoPayment EXCEPT !.is = "live", !.amt = req[a].amt]]
  /\ GoTo(a, "ySales")
  /\ UNCHANGED <<row, share, filled, debt, got, frame>>

(* manualAllocatePaymentToInvoice *)

\* Nothing limits the allocation on the side of the invoice: its limit is NaN.
AllocateRead(a) ==
  LET p == req[a].pay IN
  /\ pc[a] = "aRead"
  /\ IF Held(p) /\ Live(req[a].inv) /\ req[a].amt <= pay[p].amt - AllocatedOf(p)
     THEN GoTo(a, "aInsert") /\ UNCHANGED <<got, frame>>
     ELSE Respond(a, FALSE)
  /\ UNCHANGED tables

AllocateInsert(a) ==
  LET p == req[a].pay  i == req[a].inv IN
  /\ pc[a] = "aInsert" /\ Held(p) /\ Live(i)
  /\ share' = [share EXCEPT ![p][i] = @ + req[a].amt]
  /\ GoTo(a, "aFlag")
  /\ UNCHANGED <<row, pay, filled, debt, got, frame>>

AllocateFlag(a) ==
  LET p == req[a].pay IN
  /\ pc[a] = "aFlag"
  /\ pay' = IF Held(p) THEN [pay EXCEPT ![p].flag = TRUE] ELSE pay
  /\ GoTo(a, "ySales")
  /\ UNCHANGED <<row, share, filled, debt, got, frame>>

\* Where a failure ends in the catch of manualAllocatePaymentToInvoice.
InAllocation(a) ==
  \/ pc[a] \in {"aRead", "aInsert", "aFlag"}
  \/ /\ pc[a] \in {"ySales", "yPaid", "yWrite"}
     /\ \/ req[a].op = "allocate"
        \/ req[a].op = "pay" /\ (updates[a] = 2 /\ req[a].inv # NoInvoice)

\* The row that a statement refers to is gone, or the statement fails: the failure
\* is answered, or its log entry fails too and everything is tried again.
AllocateFail(a) ==
  /\ InAllocation(a)
  /\ DbFaults \/ (pc[a] = "aInsert" /\ ~(Held(req[a].pay) /\ Live(req[a].inv)))
  /\ \/ Respond(a, FALSE)
     \/ DbFaults /\ GoTo(a, "aRead") /\ Forget(a) /\ UNCHANGED frame
  /\ UNCHANGED tables
-----------------------------------------------------------------------------
(* PUT and DELETE /api/payments/:id *)

\* updatePayment: one executeWithRetry around the update, the debt and the log.
PaymentUpdate(a) ==
  LET p == req[a].pay IN
  /\ pc[a] = "uUpdate" /\ Held(p)
  /\ pay' = [pay EXCEPT ![p].amt = req[a].amt]
  /\ GoTo(a, "ySales")
  /\ UNCHANGED <<row, share, filled, debt, got, frame>>

PaymentUpdateRetry(a) ==
  /\ DbFaults /\ req[a].op = "repay" /\ pc[a] \in {"ySales", "yPaid", "yWrite", "done"}
  /\ GoTo(a, "uUpdate") /\ updates' = [updates EXCEPT ![a] = 1]
  /\ Forget(a)
  /\ UNCHANGED <<tables, deleting, req, clean, last, requests>>

PaymentFind(a) ==
  /\ pc[a] = "uFind" /\ Held(req[a].pay)
  /\ GoTo(a, "uDelete")
  /\ UNCHANGED <<tables, got, frame>>

\* deletePayment; the allocations go with the payment.  When its update of the debt
\* fails and it starts again, it finds no payment: the request fails (SyncFail).
PaymentDelete(a) ==
  LET p == req[a].pay IN
  /\ pc[a] = "uDelete" /\ Held(p)
  /\ pay' = [pay EXCEPT ![p] = [NoPayment EXCEPT !.is = "gone"]]
  /\ share' = [share EXCEPT ![p] = [i \in Invoices |-> 0]]
  /\ filled' = {k \in filled : k[2] # p}
  /\ GoTo(a, "ySales")
  /\ UNCHANGED <<row, debt, got, frame>>

\* No such payment, or in the model an id that is taken, or a statement that fails.
PaymentRefused(a) ==
  LET p == req[a].pay IN
  /\ \/ pc[a] \in {"uUpdate", "uFind", "uDelete"} /\ ~Held(p)
     \/ pc[a] = "nInsert" /\ pay[p] # NoPayment
     \/ pc[a] = "lLink" /\ Held(p) /\ ~Live(req[a].inv)  \* the foreign key
     \/ DbFaults /\ pc[a] \in {"nResolve", "nInsert", "uUpdate", "uFind", "uDelete", "lLink"}
  /\ Respond(a, FALSE)
  /\ UNCHANGED tables
-----------------------------------------------------------------------------
(* allocatePaymentToInvoice, without an allocation row *)

AfterLink(a) == IF req[a].op = "attach" THEN "kAmt" ELSE "done"

\* Without such a payment the route fails at its end, in the log entry.
LinkPayment(a) ==
  LET p == req[a].pay IN
  /\ pc[a] = "lLink" /\ (Held(p) => Live(req[a].inv))
  /\ pay' = IF Held(p) THEN [pay EXCEPT ![p].flag = TRUE, ![p].link = req[a].inv] ELSE pay
  /\ clean' = [clean EXCEPT ![a] = @ /\ Held(p)]
  /\ GoTo(a, "lRead")
  /\ UNCHANGED <<row, share, filled, debt, got, deleting, req, updates, last, requests>>

\* updateInvoiceStatusAfterAllocation
LinkRead(a) ==
  LET i == req[a].inv IN
  /\ pc[a] = "lRead"
  /\ IF Live(i)
     THEN /\ got' = [got EXCEPT ![a].st = row[i].st, ![a].alloc = AllocatedTo(i)]
          /\ GoTo(a, "lWrite")
     ELSE GoTo(a, AfterLink(a)) /\ UNCHANGED got
  /\ UNCHANGED <<tables, frame>>

\* The amount of the invoice is NaN, so nothing is ever paid.
LinkWrite(a) ==
  LET i == req[a].inv
      new == IF got[a].alloc > 0 THEN "partial" ELSE "unpaid" IN
  /\ pc[a] = "lWrite"
  /\ row' = IF Live(i) /\ new # got[a].st THEN [row EXCEPT ![i].st = new] ELSE row
  /\ GoTo(a, AfterLink(a))
  /\ Forget(a)
  /\ UNCHANGED <<ledger, debt, frame>>

\* Its failures are caught.
LinkSkip(a) ==
  /\ DbFaults /\ pc[a] \in {"lRead", "lWrite"}
  /\ GoTo(a, AfterLink(a))
  /\ clean' = [clean EXCEPT ![a] = FALSE]
  /\ Forget(a)
  /\ UNCHANGED <<tables, deleting, req, updates, last, requests>>

PaymentStep(a) ==
  \/ \E r \in PaymentRequests :
       /\ r.op = "pay" => r.pay = NextId({p \in Payments : pay[p] = NoPayment})
       /\ Arrive(a, r, PaymentFirst(r), UpdatesOf(r))
  \/ Resolve(a) \/ PaymentInsert(a) \/ PaymentRefused(a)
  \/ AllocateRead(a) \/ AllocateInsert(a) \/ AllocateFlag(a) \/ AllocateFail(a)
  \/ PaymentUpdate(a) \/ PaymentUpdateRetry(a) \/ PaymentFind(a) \/ PaymentDelete(a)
  \/ LinkPayment(a) \/ LinkRead(a) \/ LinkWrite(a) \/ LinkSkip(a)
=============================================================================
