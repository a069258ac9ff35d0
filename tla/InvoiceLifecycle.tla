-------------------------- MODULE InvoiceLifecycle --------------------------
(***************************************************************************)
(* The invoices of one representative, their stored status, and the debt   *)
(* stored with the representative, under the requests of routes.ts and the *)
(* methods of storage.ts they call: creating, editing, changing, deleting  *)
(* an invoice and recomputing its status.  PaymentRecords adds the         *)
(* requests about payments, LedgerBackfill the repair of the ledger and    *)
(* the specification.  Every statement is a step; none of the requests     *)
(* uses a transaction.                                                     *)
(* deleteInvoice does not return the promise of its DELETE: the request    *)
(* goes on while it runs, and when its last attempt fails the rejection is *)
(* unhandled and index.ts ends the process.                                *)
(* executeWithRetry around a single statement is abstracted to success or  *)
(* failure; around the update of the debt, to any number of new starts.    *)
(***************************************************************************)
EXTENDS Integers, FiniteSets, FiniteSetsExt, Functions

CONSTANTS
  Invoices, Payments, \* ids, in the order of their creation
  Actors,
  Late,        \* invoices whose due date, read as a JavaScript date, has passed
  Amounts,     \* amounts of invoices, payments and allocations
  DbFaults,    \* may statements fail?
  MaxRequests  \* bound

NoInvoice == 0
Statuses == {"unpaid", "partial", "paid", "overdue"}
NoRow == [is |-> "none", amt |-> 0, st |-> "unpaid"]
NoPayment == [is |-> "none", amt |-> 0, flag |-> FALSE, link |-> NoInvoice]

InvoiceRequests ==
  [op : {"create"}, inv : Invoices, amt : Amounts]
    \cup [op : {"edit"}, inv : Invoices, amt : Amounts \cup {0}]
    \cup [op : {"put"}, inv : Invoices, amt : Amounts, st : Statuses]
    \cup [op : {"delete", "recalc"}, inv : Invoices]

NoRequest == [op |-> "none", inv |-> NoInvoice]
NoData == [amt |-> 0, st |-> "unpaid", alloc |-> 0, sales |-> 0]

ASSUME InvoiceAssumption ==
  /\ Invoices \subseteq Nat \ {NoInvoice} /\ Payments \subseteq Nat \ {0} /\ Late \subseteq Invoices
  /\ IsFiniteSet(Invoices) /\ IsFiniteSet(Payments)
  /\ Amounts \subseteq Nat \ {0} /\ DbFaults \in BOOLEAN /\ MaxRequests \in Nat

VARIABLES
  row,         \* invoices: absent, live or gone, amount and stored status
  pay,         \* payments: the same, is_allocated, invoice_id (a foreign key)
  share,       \* payment_allocations: sum by payment and invoice
  filled,      \* keys of its synthetic rows
  debt,        \* representatives.total_debt
  deleting,    \* invoices whose DELETE is still being tried
  pc, req,     \* per actor: next statement, request
  got,         \* per actor: what it has read
  updates,     \* per actor: updates of the debt it still has to make
  clean,       \* history, per actor: nothing failed or interfered so far
  last,        \* history: the request that ended last, if it was clean
  requests

tables == <<row, pay, share, filled, debt>>
work == <<pc, req, got, updates>>
vars == <<tables, deleting, work, clean, last, requests>>

Live(i) == i \in Invoices /\ row[i].is = "live"
Linked(i) == \E p \in Payments : pay[p].link = i
SumOver(f, S) == FoldFunctionOnSet(+, 0, f, S)
AllocatedIn(shares, i) == SumOver([p \in Payments |-> shares[p][i]], Payments)
AllocatedTo(i) == AllocatedIn(share, i)
AllocatedOf(p) == SumOver(share[p], Invoices)
NextId(unused) == IF unused = {} THEN 0 ELSE Min(unused)  \* serial columns
GoTo(a, s) == pc' = [pc EXCEPT ![a] = s]

\* What no later statement uses: a reduction of the states.
Forget(a) == got' = [got EXCEPT ![a] = NoData]

Init ==
  /\ row = [i \in Invoices |-> NoRow] /\ pay = [p \in Payments |-> NoPayment]
  /\ share = [p \in Payments |-> [i \in Invoices |-> 0]] /\ filled = {}
  /\ debt = 0 /\ deleting = {}
  /\ pc = [a \in Actors |-> "idle"] /\ req = [a \in Actors |-> NoRequest]
  /\ got = [a \in Actors |-> NoData] /\ updates = [a \in Actors |-> 0]
  /\ clean = [a \in Actors |-> FALSE] /\ last = NoRequest /\ requests = 0

InvoiceFirst(r) ==
  CASE r.op = "create" -> "cInsert" [] r.op = "edit" -> "eGet"
    [] r.op = "put" -> "pGet" [] r.op = "delete" -> "dGet" [] r.op = "recalc" -> "rGet"

\* A request with its first statement and the number of its updates of the debt.
Arrive(a, r, first, n) ==
  /\ pc[a] = "idle" /\ requests < MaxRequests
  /\ requests' = requests + 1
  /\ req' = [req EXCEPT ![a] = r] /\ GoTo(a, first)
  /\ updates' = [updates EXCEPT ![a] = n]
  /\ clean' = [b \in Actors |-> b = a /\ \A c \in Actors \ {a} : pc[c] = "idle"]
  /\ last' = NoRequest
  /\ UNCHANGED <<tables, deleting, got>>

\* The response is sent; failed requests leave no trace in the history.
Respond(a, ok) ==
  /\ GoTo(a, "idle")
  /\ req' = [req EXCEPT ![a] = NoRequest] /\ got' = [got EXCEPT ![a] = NoData]
  /\ updates' = [updates EXCEPT ![a] = 0] /\ clean' = [clean EXCEPT ![a] = FALSE]
  /\ last' = IF ok /\ clean[a] THEN req[a] ELSE NoRequest
  /\ UNCHANGED <<deleting, requests>>

frame == <<deleting, req, updates, clean, last, requests>>
ledger == <<pay, share, filled>>
-----------------------------------------------------------------------------
\* Mutant: creating an invoice does not update the debt.
CreateInsert_NoSync(a) ==
  /\ pc[a] = "cInsert" /\ row[req[a].inv] = NoRow
  /\ row' = [row EXCEPT ![req[a].inv] = [is |-> "live", amt |-> req[a].amt, st |-> "unpaid"]]
  /\ GoTo(a, "done")
  /\ UNCHANGED <<ledger, debt, got, frame>>

\* createInvoice.
CreateInsert(a) ==
  /\ pc[a] = "cInsert" /\ row[req[a].inv] = NoRow
  /\ row' = [row EXCEPT ![req[a].inv] = [is |-> "live", amt |-> req[a].amt, st |-> "unpaid"]]
  /\ GoTo(a, "ySales")
  /\ UNCHANGED <<ledger, debt, got, frame>>

\* A request that finds no invoice: 404, or nothing to do.
NotFound(a) ==
  /\ \/ pc[a] \in {"eGet", "pGet", "dGet", "rGet"} /\ ~Live(req[a].inv)
     \/ pc[a] = "cInsert" /\ row[req[a].inv] # NoRow  \* the id is taken in the model
  /\ Respond(a, FALSE)
  /\ UNCHANGED tables

\* getInvoice; the route keeps the row: PUT compares its amount, a recalculation its status.
Get(a) ==
  LET i == req[a].inv IN
  /\ pc[a] \in {"eGet", "pGet", "rGet"} /\ Live(i)
  /\ got' = CASE req[a].op = "put" -> [got EXCEPT ![a].amt = row[i].amt]
              [] req[a].op = "recalc" -> [got EXCEPT ![a].st = row[i].st]
              [] req[a].op = "edit" -> got
  /\ GoTo(a, CASE req[a].op = "edit" -> "eUpdate" [] req[a].op = "put" -> "pUpdate"
               [] req[a].op = "recalc" -> "kAmt")
  /\ UNCHANGED <<tables, frame>>

\* POST /api/invoices/edit: the record of the edit, then the amount.
EditUpdate(a) ==
  LET i == req[a].inv IN
  /\ pc[a] = "eUpdate" /\ Live(i)
  /\ row' = [row EXCEPT ![i].amt = req[a].amt]
  /\ got' = [got EXCEPT ![a].st = row[i].st]
  /\ GoTo(a, "kAmt")
  /\ UNCHANGED <<ledger, debt, frame>>

\* No row was updated; what follows is caught up to the response, which fails.
EditVanished(a) ==
  /\ pc[a] = "eUpdate" /\ ~Live(req[a].inv)
  /\ GoTo(a, "ySales")
  /\ clean' = [clean EXCEPT ![a] = FALSE]
  /\ Forget(a)
  /\ UNCHANGED <<tables, deleting, req, updates, last, requests>>

\* PUT /api/invoices/:id: any amount and status; the debt only for a new amount.
PutUpdate(a) ==
  LET i == req[a].inv IN
  /\ pc[a] = "pUpdate"
  /\ row' = IF Live(i) THEN [row EXCEPT ![i].amt = req[a].amt, ![i].st = req[a].st] ELSE row
  /\ GoTo(a, IF Live(i) /\ req[a].amt # got[a].amt THEN "ySales" ELSE "done")
  /\ Forget(a)
  /\ UNCHANGED <<ledger, debt, frame>>

\* DELETE /api/invoices/:id: deleteInvoice only starts the deletion.
DeleteStart(a) ==
  /\ pc[a] = "dGet" /\ Live(req[a].inv)
  /\ deleting' = deleting \cup {req[a].inv}
  /\ GoTo(a, "ySales")
  /\ UNCHANGED <<tables, req, got, updates, clean, last, requests>>
-----------------------------------------------------------------------------
(* calculateInvoicePaymentStatus, then the update of the status. *)

Coverage(i, amount, allocated) ==
  IF allocated >= amount THEN "paid"
  ELSE IF allocated > 0 THEN "partial"
  ELSE IF i \in Late THEN "overdue" ELSE "unpaid"

CheckAmount(a) ==
  /\ pc[a] = "kAmt" /\ Live(req[a].inv)
  /\ got' = [got EXCEPT ![a].amt = row[req[a].inv].amt]
  /\ GoTo(a, "kAlloc")
  /\ UNCHANGED <<tables, frame>>

CheckAlloc(a) ==
  /\ pc[a] = "kAlloc"
  /\ got' = [got EXCEPT ![a].alloc = AllocatedTo(req[a].inv)]
  /\ GoTo(a, "kWrite")
  /\ UNCHANGED <<tables, frame>>

\* No such invoice, or a query fails: the answer is "unpaid".
CheckDefault(a) ==
  /\ (pc[a] = "kAmt" /\ ~Live(req[a].inv)) \/ (pc[a] \in {"kAmt", "kAlloc"} /\ DbFaults)
  /\ GoTo(a, "kDefault")
  /\ clean' = [clean EXCEPT ![a] = FALSE]
  /\ UNCHANGED <<tables, deleting, req, got, updates, last, requests>>

AfterStatus(a) == IF req[a].op = "edit" THEN "ySales" ELSE "done"

\* Mutant: an invoice that is paid stays paid.
StatusWrite_PaidStays(a) ==
  LET i == req[a].inv
      new == IF pc[a] = "kDefault" THEN "unpaid" ELSE Coverage(i, got[a].amt, got[a].alloc) IN
  /\ pc[a] \in {"kWrite", "kDefault"}
  /\ row' = IF Live(i) /\ got[a].st # "paid" /\ (req[a].op = "attach" \/ new # got[a].st)
            THEN [row EXCEPT ![i].st = new] ELSE row
  /\ GoTo(a, AfterStatus(a))
  /\ Forget(a)
  /\ UNCHANGED <<ledger, debt, frame>>

\* Edits and recalculations write only a status that differs from the one they read.
StatusWrite(a) ==
  LET i == req[a].inv
      new == IF pc[a] = "kDefault" THEN "unpaid" ELSE Coverage(i, got[a].amt, got[a].alloc) IN
  /\ pc[a] \in {"kWrite", "kDefault"}
  /\ row' = IF Live(i) /\ (req[a].op = "attach" \/ new # got[a].st)
            THEN [row EXCEPT ![i].st = new] ELSE row
  /\ GoTo(a, AfterStatus(a))
  /\ Forget(a)
  /\ UNCHANGED <<ledger, debt, frame>>
-----------------------------------------------------------------------------
(* updateRepresentativeFinancials and syncRepresentativeDebt *)
LiveIn(rows) == {i \in Invoices : rows[i].is = "live"}
SalesIn(rows) == SumOver([i \in Invoices |-> rows[i].amt], LiveIn(rows))
PaidIn(rows, shares) == SumOver([i \in Invoices |-> AllocatedIn(shares, i)], LiveIn(rows))
Sales == SalesIn(row)
Paid == PaidIn(row, share)
Debt(sales, paid) == IF sales > paid THEN sales - paid ELSE 0

SyncSales(a) ==
  /\ pc[a] = "ySales"
  /\ got' = [got EXCEPT ![a].sales = Sales]
  /\ GoTo(a, "yPaid")
  /\ UNCHANGED <<tables, frame>>

SyncPaid(a) ==
  /\ pc[a] = "yPaid"
  /\ got' = [got EXCEPT ![a].alloc = Paid]
  /\ GoTo(a, "yWrite")
  /\ UNCHANGED <<tables, frame>>

\* Some requests update the debt again; a new payment is allocated after its first update.
AfterSync(a) ==
  IF updates[a] = 1 THEN "done"
  ELSE IF req[a].op = "pay" /\ updates[a] = 3 THEN "aRead" ELSE "ySales"

\* Mutant: the difference is not cut off at zero.
SyncWrite_Negative(a) ==
  /\ pc[a] = "yWrite"
  /\ debt' = got[a].sales - got[a].alloc
  /\ updates' = [updates EXCEPT ![a] = @ - 1] /\ GoTo(a, AfterSync(a))
  /\ Forget(a)
  /\ UNCHANGED <<row, ledger, deleting, req, clean, last, requests>>

SyncWrite(a) ==
  /\ pc[a] = "yWrite"
  /\ debt' = Debt(got[a].sales, got[a].alloc)
  /\ updates' = [updates EXCEPT ![a] = @ - 1] /\ GoTo(a, AfterSync(a))
  /\ Forget(a)
  /\ UNCHANGED <<row, ledger, deleting, req, clean, last, requests>>

\* A query of the update fails and it starts again; not in the second one of a deletion.
SyncRetry(a) ==
  /\ DbFaults /\ pc[a] \in {"yPaid", "yWrite"}
  /\ ~(req[a].op = "delete" /\ updates[a] = 1)
  /\ GoTo(a, "ySales")
  /\ Forget(a)
  /\ UNCHANGED <<tables, frame>>

\* The update is given up: an edit goes on, the other requests fail.
SyncFail(a) ==
  /\ DbFaults /\ pc[a] \in {"ySales", "yPaid", "yWrite"}
  /\ Respond(a, FALSE)
  /\ UNCHANGED tables

\* Another statement of a request fails for good.
Fault(a) ==
  /\ DbFaults
  /\ pc[a] \in {"cInsert", "eGet", "eUpdate", "pGet", "pUpdate", "dGet", "rGet",
                "kWrite", "kDefault"}
  /\ req[a].op = "edit" => pc[a] \notin {"kWrite", "kDefault"}
  /\ Respond(a, FALSE)
  /\ UNCHANGED tables

\* An edit goes on when the status cannot be written.
Skip(a) ==
  /\ DbFaults /\ pc[a] \in {"kWrite", "kDefault"} /\ req[a].op = "edit"
  /\ GoTo(a, "ySales")
  /\ clean' = [clean EXCEPT ![a] = FALSE]
  /\ Forget(a)
  /\ UNCHANGED <<tables, deleting, req, updates, last, requests>>

Done(a) ==
  /\ pc[a] = "done"
  /\ Respond(a, TRUE)
  /\ UNCHANGED tables
-----------------------------------------------------------------------------
(* The detached deletion. *)

\* Its allocations go with the row; requests in progress are interfered with.
DeleteRun(i) ==
  /\ i \in deleting /\ ~Linked(i)
  /\ deleting' = deleting \ {i}
  /\ row' = [row EXCEPT ![i] = [NoRow EXCEPT !.is = "gone"]]
  /\ share' = [p \in Payments |-> [share[p] EXCEPT ![i] = 0]]
  /\ filled' = {k \in filled : k[3] # i}
  /\ clean' = [a \in Actors |-> clean[a] /\ req[a].op = "delete" /\ req[a].inv = i]
  /\ last' = IF last.op = "delete" THEN last ELSE NoRequest
  /\ UNCHANGED <<pay, debt, work, requests>>

\* A payment refers to the row, or the database fails, and no attempt is left:
\* process.exit(1), with all that is in memory.
DeleteCrash(i) ==
  /\ i \in deleting /\ (Linked(i) \/ DbFaults)
  /\ deleting' = {}
  /\ pc' = [a \in Actors |-> "idle"] /\ req' = [a \in Actors |-> NoRequest]
  /\ got' = [a \in Actors |-> NoData] /\ updates' = [a \in Actors |-> 0]
  /\ clean' = [a \in Actors |-> FALSE]
  /\ UNCHANGED <<tables, last, requests>>

InvoiceStep(a) ==
  \/ \E r \in InvoiceRequests :
       /\ r.op = "create" => r.inv = NextId({i \in Invoices : row[i] = NoRow})
       /\ Arrive(a, r, InvoiceFirst(r), IF r.op = "delete" THEN 2 ELSE 1)
  \/ NotFound(a) \/ Get(a) \/ Done(a) \/ Fault(a) \/ Skip(a)
  \/ CreateInsert(a) \/ EditUpdate(a) \/ EditVanished(a) \/ PutUpdate(a) \/ DeleteStart(a)
  \/ CheckAmount(a) \/ CheckAlloc(a) \/ CheckDefault(a) \/ StatusWrite(a)
  \/ SyncSales(a) \/ SyncPaid(a) \/ SyncWrite(a) \/ SyncRetry(a) \/ SyncFail(a)
=============================================================================
