--------------------------- MODULE LedgerBackfill ---------------------------
(***************************************************************************)
(* BackfillService: rows of payment_allocations for payments that the old  *)
(* ways of allocating marked as allocated without writing any, beside the  *)
(* requests of PaymentRecords and InvoiceLifecycle, and the specification  *)
(* and the properties of the three.                                        *)
(* active gives a linked payment a row over its whole amount;              *)
(* distributePartialOrphans spreads one without a link over the open       *)
(* invoices, oldest first.  The flags it asks for are on; one of the two   *)
(* runs at a time, as their callers (tests and scripts) run them; every    *)
(* batch is large enough.  Every statement commits on its own.             *)
(***************************************************************************)
EXTENDS PaymentRecords

VARIABLES
  fill,  \* the call in progress: kind, payments still to do, and for a distribution
         \* the rest of the current payment and of the invoices, invoices visited
  moved  \* history: payments whose amount was changed, or of which two requests, or a
         \* request and a backfill, wrote rows at the same time

fillVars == <<fill, moved>>
allVars == <<vars, fillVars>>

NoFill == [kind |-> "none", todo |-> {}, left |-> 0,
           open |-> [i \in Invoices |-> 0], visited |-> {}]

FillInit == Init /\ fill = NoFill /\ moved = {}

Rowless(p) == \A i \in Invoices : share[p][i] = 0
Orphan(p) == Held(p) /\ pay[p].flag /\ pay[p].link = NoInvoice /\ Rowless(p)

\* Mutant: payments are selected that have rows already.
Unrecorded_Any(p) == Held(p) /\ pay[p].flag /\ pay[p].link # NoInvoice

Unrecorded(p) == Held(p) /\ pay[p].flag /\ pay[p].link # NoInvoice /\ Rowless(p)

Selected(p) == \E c \in fill.todo : c.pay = p
Allocating(a, p) == pc[a] = "aInsert" /\ req[a].pay = p
-----------------------------------------------------------------------------
\* A row for a payment and an invoice, or the insert fails: the payment or the invoice
\* is gone, the key is there, or the database refuses.
CanFill(key) == Held(key[2]) /\ Live(key[3]) /\ key \notin filled

FillRow(key, amt) ==
  LET p == key[2]  i == key[3] IN
  /\ CanFill(key)
  /\ share' = [share EXCEPT ![p][i] = @ + amt] /\ filled' = filled \cup {key}
  /\ moved' = moved \cup {q \in {p} : \E a \in Actors : Allocating(a, q)}
  /\ clean' = [a \in Actors |-> FALSE] /\ last' = NoRequest
  /\ UNCHANGED <<row, pay, debt, deleting, work, requests>>

NoFillRow(key) ==
  /\ ~CanFill(key) \/ DbFaults
  /\ UNCHANGED <<vars, moved>>

\* active: the selection, then row by row in no particular order.
SelectUnrecorded ==
  LET found == {p \in Payments : Unrecorded(p)} IN
  /\ fill = NoFill /\ found # {}
  /\ fill' = [NoFill EXCEPT !.kind = "active",
                            !.todo = {[pay |-> p, inv |-> pay[p].link, amt |-> pay[p].amt]
                                      : p \in found}]
  /\ UNCHANGED <<vars, moved>>

Without(c) == IF fill.todo = {c} THEN NoFill ELSE [fill EXCEPT !.todo = @ \ {c}]

ActiveRow ==
  /\ fill.kind = "active"
  /\ \E c \in fill.todo :
       LET key == <<"p", c.pay, c.inv>> IN
       /\ FillRow(key, c.amt) \/ NoFillRow(key)
       /\ fill' = Without(c)

\* distributePartialOrphans: the payments, then what is left of the open invoices.
SelectOrphans ==
  LET found == {p \in Payments : Orphan(p)} IN
  /\ fill = NoFill /\ found # {}
  /\ fill' = [NoFill EXCEPT !.kind = "select",
                            !.todo = {[pay |-> p, amt |-> pay[p].amt] : p \in found}]
  /\ UNCHANGED <<vars, moved>>

Remaining(i) ==
  IF Live(i) /\ row[i].st # "paid" /\ row[i].amt > AllocatedTo(i)
  THEN row[i].amt - AllocatedTo(i) ELSE 0

Current(todo) == CHOOSE c \in todo : \A d \in todo : c.pay <= d.pay

ReadOpen ==
  /\ fill.kind = "select"
  /\ fill' = IF \A i \in Invoices : Remaining(i) = 0 THEN NoFill
             ELSE [fill EXCEPT !.kind = "distribute", !.left = Current(fill.todo).amt,
                               !.open = [i \in Invoices |-> Remaining(i)]]
  /\ UNCHANGED <<vars, moved>>

Ahead == {i \in Invoices \ fill.visited : fill.open[i] > 0}

\* The next invoice takes what it can; a failed insert leaves the rest for those after it.
OrphanRow ==
  /\ fill.kind = "distribute" /\ fill.left > 0 /\ Ahead # {}
  /\ LET i == Min(Ahead)
         key == <<"orph", Current(fill.todo).pay, i>>
         portion == IF fill.left < fill.open[i] THEN fill.left ELSE fill.open[i]
         next == [fill EXCEPT !.visited = @ \cup {i}]
     IN \/ FillRow(key, portion) /\ fill' = [next EXCEPT !.left = @ - portion,
                                                         !.open[i] = @ - portion]
        \/ NoFillRow(key) /\ fill' = next

NextOrphan ==
  LET rest == fill.todo \ {Current(fill.todo)} IN
  /\ fill.kind = "distribute" /\ (fill.left = 0 \/ Ahead = {})
  /\ fill' = IF rest = {} THEN NoFill
             ELSE [fill EXCEPT !.todo = rest, !.left = Current(rest).amt, !.visited = {}]
  /\ UNCHANGED <<vars, moved>>
-----------------------------------------------------------------------------
Request(a) ==
  /\ InvoiceStep(a) \/ PaymentStep(a)
  /\ UNCHANGED fill
  /\ moved' = moved \cup {p \in Payments : \/ pc[a] = "uUpdate" /\ pay'[p] # pay[p]
                                           \/ /\ pc[a] = "aInsert" /\ share'[p] # share[p]
                                              /\ \/ Selected(p)
                                                 \/ \E b \in Actors \ {a} : Allocating(b, p)}

Backfill ==
  \/ SelectUnrecorded \/ ActiveRow
  \/ SelectOrphans \/ ReadOpen \/ OrphanRow \/ NextOrphan

Next ==
  \/ \E a \in Actors : Request(a)
  \/ \E i \in Invoices : DeleteRun(i) /\ UNCHANGED fillVars
  \/ \E i \in Invoices : DeleteCrash(i) /\ fill' = NoFill /\ UNCHANGED moved
  \/ Backfill

Spec == FillInit /\ [][Next]_allVars
-----------------------------------------------------------------------------
PCs == {"idle", "cInsert", "eGet", "eUpdate", "pGet", "pUpdate", "dGet", "rGet", "nResolve",
        "nInsert", "aRead", "aInsert", "aFlag", "uUpdate", "uFind", "uDelete", "lLink",
        "lRead", "lWrite", "kAmt", "kAlloc", "kWrite", "kDefault", "ySales", "yPaid",
        "yWrite", "done"}
Requests == InvoiceRequests \cup PaymentRequests

TypeOK ==
  /\ row \in [Invoices -> [is : {"none", "live", "gone"}, amt : Nat, st : Statuses]]
  /\ pay \in [Payments -> [is : {"none", "live", "gone"}, amt : Nat, flag : BOOLEAN,
                           link : Invoices \cup {NoInvoice}]]
  /\ share \in [Payments -> [Invoices -> Nat]] /\ debt \in Nat
  /\ filled \subseteq {"p", "orph"} \X Payments \X Invoices /\ deleting \subseteq Invoices
  /\ pc \in [Actors -> PCs] /\ req \in [Actors -> Requests \cup {NoRequest}]
  /\ got \in [Actors -> [amt : Nat, st : Statuses, alloc : Nat, sales : Nat]]
  /\ updates \in [Actors -> 0..3] /\ clean \in [Actors -> BOOLEAN]
  /\ last \in Requests \cup {NoRequest} /\ requests \in 0..MaxRequests
  /\ fill.kind \in {"none", "active", "select", "distribute"} /\ fill.left \in Nat
  /\ fill.open \in [Invoices -> Nat] /\ fill.visited \subseteq Invoices
  /\ moved \subseteq Payments

(* An edit, a recalculation or an allocation by POST /api/payments/allocate *)
(* that nothing disturbed leaves the status the allocations of the invoice  *)
(* call for, although other requests store whatever status they like, and   *)
(* payments, deletions and the backfill change allocations without it.      *)
StatusAfterCheck ==
  last.op \in {"edit", "recalc", "attach"} /\ Live(last.inv) =>
    row[last.inv].st = Coverage(last.inv, row[last.inv].amt, AllocatedTo(last.inv))

(* A creation or edit of an invoice, or a creation, change, allocation or  *)
(* deletion of a payment, that nothing disturbed leaves the debt of the    *)
(* representative right, whatever failed before it, once no deletion of an *)
(* invoice is in progress.                                                 *)
DebtAfterRequest ==
  last.op \in {"create", "edit", "pay", "repay", "unpay", "allocate"} /\ deleting = {} =>
    debt = Debt(Sales, Paid)

(* "Delete invoice with complete financial synchronisation": when an       *)
(* undisturbed deletion was answered with success and nothing is left to   *)
(* do, the invoice is gone and the debt does not include it.               *)
DeletionComplete ==
  last.op = "delete" /\ deleting = {} => ~Live(last.inv) /\ debt = Debt(Sales, Paid)

(* The rows of a payment, from manual allocations and from the backfill    *)
(* after any sequence of links, failures, retries and deletions, never add *)
(* up to more than its amount - unless the amount was changed, or between  *)
(* the read and the insert of a manual allocation, or the selection and    *)
(* the insert of a backfill, another of the two wrote rows of the payment, *)
(* which nothing in the code prevents.                                     *)
AllocatedWithinPayment ==
  \A p \in Payments \ moved : AllocatedOf(p) <= pay[p].amt
=============================================================================
