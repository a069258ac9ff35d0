------------------------ MODULE CommissionSettlement ------------------------
(***************************************************************************)
(* The commission payments of one sales partner (storage.ts and the routes *)
(* of sales-partners-routes.ts): creating, changing, deleting and settling *)
(* a payment in parts, and the partner's total_commission, recomputed by   *)
(* each of them with statements of its own.  No transaction is used: every *)
(* statement is a step, and executeWithRetry runs an operation again from  *)
(* its first statement when any of them throws, its own rejections         *)
(* included.  Amounts are in units of the smallest amount of a request.    *)
(* The ids of a serial column are not used twice.                          *)
(***************************************************************************)
EXTENDS Naturals, FiniteSets, Functions

CONSTANTS
  Payments,    \* ids of partner_commission_payments
  Actors, Ops, \* requests in progress, the operations each may be
  Amounts,     \* amounts of payments and settlements
  MaxTries,    \* retryConfig.maxRetries
  DbFaults,    \* may statements fail?
  MaxRequests  \* bound

Statuses == {"pending", "paid", "cancelled"}
Keep == "keep"  \* a field the request leaves out
NoRow == [st |-> "none", amt |-> 0, settled |-> 0]
GoneRow == [st |-> "gone", amt |-> 0, settled |-> 0]

Requests ==
  [op : {"create"}, amt : Amounts, st : Statuses]
    \cup [op : {"settle"}, pay : Payments, amt : Amounts]
    \cup {r \in [op : {"put"}, pay : Payments, amt : Amounts \cup {0}, st : Statuses \cup {Keep}] :
            r.amt # 0 \/ r.st # Keep}  \* 0: the amount is left out
    \cup [op : {"delete"}, pay : Payments]
    \cup [op : {"recalc"}]

ASSUME SettlementAssumption ==
  /\ Amounts \subseteq Nat \ {0} /\ Amounts # {} /\ Payments # {} /\ IsFiniteSet(Payments)
  /\ Ops \in [Actors -> SUBSET {"create", "settle", "put", "delete", "recalc"}]
  /\ MaxTries \in Nat \ {0} /\ MaxRequests \in Nat /\ DbFaults \in BOOLEAN

VARIABLES
  row,             \* the table
  total,           \* sales_partners.total_commission
  pc, req, snap,   \* per actor: next statement, request, row or sum it has read
  sum,
  tries, inner,    \* per actor: attempts of the operation, of its recalculation
  acked,           \* history: settlements of a payment that were answered with success
  alone,           \* history, per actor: nothing else ran since its request arrived
  lastOk,          \* history: the request that ended last ran alone and succeeded
  late,            \* history: actors whose payment another has written since they read it
  overwritten,     \* history: payments that such an actor has settled
  requests

history == <<alone, acked, late, overwritten, requests>>
vars == <<row, total, pc, req, snap, sum, tries, inner, lastOk, history>>

Exists(p) == row[p].st \in Statuses

Init ==
  /\ row = [p \in Payments |-> NoRow] /\ total = 0
  /\ pc = [a \in Actors |-> "idle"] /\ req = [a \in Actors |-> [op |-> "recalc"]]
  /\ snap = [a \in Actors |-> NoRow] /\ sum = [a \in Actors |-> 0]
  /\ tries = [a \in Actors |-> 0] /\ inner = [a \in Actors |-> 0]
  /\ acked = [p \in Payments |-> 0] /\ alone = [a \in Actors |-> TRUE] /\ lastOk = TRUE
  /\ late = {} /\ overwritten = {} /\ requests = 0

GoTo(a, s) == pc' = [pc EXCEPT ![a] = s]

\* The statement an operation starts with inside executeWithRetry.
Entry(r) ==
  CASE r.op = "create" -> "insert"
    [] r.op = "settle" -> "sRead"
    [] r.op = "put" -> "uRead"
    [] r.op = "delete" -> "dRead"
    [] r.op = "recalc" -> "rSum"

\* The PUT route looks at the status first when the request changes it.  Payments
\* bounds the creations.
Arrive(a) ==
  /\ pc[a] = "idle" /\ requests < MaxRequests
  /\ requests' = requests + 1
  /\ alone' = [b \in Actors |-> \A c \in Actors \ {b} : pc[c] = "idle" /\ c # a]
  /\ \E r \in Requests :
       /\ r.op \in Ops[a] /\ (r.op = "create" => \E p \in Payments : row[p] = NoRow)
       /\ req' = [req EXCEPT ![a] = r]
       /\ GoTo(a, IF r.op = "put" /\ r.st # Keep THEN "uCheck" ELSE Entry(r))
  /\ tries' = [tries EXCEPT ![a] = 1] /\ inner' = [inner EXCEPT ![a] = 1]
  /\ UNCHANGED <<row, total, snap, sum, acked, lastOk, late, overwritten>>

\* The actor forgets what it read when its request ends.
Rest(a, ok) ==
  /\ GoTo(a, "idle") /\ lastOk' = (ok /\ alone[a]) /\ late' = late \ {a}
  /\ req' = [req EXCEPT ![a] = [op |-> "recalc"]]
  /\ snap' = [snap EXCEPT ![a] = NoRow] /\ sum' = [sum EXCEPT ![a] = 0]
  /\ tries' = [tries EXCEPT ![a] = 0] /\ inner' = [inner EXCEPT ![a] = 0]

\* A write to the payment of a: whoever has read it before works from an old row.
Overtake(a) ==
  late' = late \cup {b \in Actors \ {a} :
                       /\ pc[b] \notin {"idle", "sRead", "uCheck"} /\ req[b].op \in {"settle", "put"}
                       /\ req[b].pay = req[a].pay}

\* Mutant: the attempts are counted from zero.
Again_OneMore(a) ==
  \/ /\ tries[a] < MaxTries + 1 /\ req[a].op # "recalc"
     /\ GoTo(a, Entry(req[a]))
     /\ tries' = [tries EXCEPT ![a] = @ + 1] /\ inner' = [inner EXCEPT ![a] = 1]
     /\ UNCHANGED <<req, snap, sum, lastOk, late>>
  \/ (tries[a] = MaxTries + 1 \/ req[a].op = "recalc") /\ Rest(a, FALSE)

\* An attempt threw: executeWithRetry starts over, or gives up.
Again(a) ==
  \/ /\ tries[a] < MaxTries /\ req[a].op # "recalc"
     /\ GoTo(a, Entry(req[a]))
     /\ tries' = [tries EXCEPT ![a] = @ + 1] /\ inner' = [inner EXCEPT ![a] = 1]
     /\ UNCHANGED <<req, snap, sum, lastOk, late>>
  \/ (tries[a] = MaxTries \/ req[a].op = "recalc") /\ Rest(a, FALSE)

asRead == <<snap, sum, tries, inner, req, lastOk, alone, acked, requests>>
unread == <<asRead, late, overwritten>>
counted == <<alone, acked, overwritten, requests>>  \* what the end of an attempt leaves alone
-----------------------------------------------------------------------------
(* createPartnerCommissionPayment *)
Insert(a) ==
  /\ pc[a] = "insert"
  /\ \E p \in Payments :
       /\ row[p] = NoRow
       /\ row' = [row EXCEPT ![p] = [st |-> req[a].st, amt |-> req[a].amt, settled |-> 0]]
  /\ GoTo(a, "rSum")
  /\ UNCHANGED <<total, unread>>
-----------------------------------------------------------------------------
(* applyPartialSettlement *)

\* Mutant: the limit is the amount of the payment.
Remaining_Amount(r) == r.amt

Remaining(r) == IF r.amt > r.settled THEN r.amt - r.settled ELSE 0

\* Mutant: only a paid payment is closed.
Open_NotPaid(r) == r.st # "paid"

Open(r) == r.st = "pending"

SettleRead(a) ==
  LET r == row[req[a].pay] IN
  /\ pc[a] = "sRead" /\ Exists(req[a].pay)
  /\ Open(r) /\ req[a].amt <= Remaining(r)
  /\ snap' = [snap EXCEPT ![a] = r]
  /\ late' = late \ {a}
  /\ GoTo(a, "sWrite")
  /\ UNCHANGED <<row, total, sum, tries, inner, req, lastOk, counted>>

SettleReject(a) ==
  LET r == row[req[a].pay] IN
  /\ pc[a] = "sRead"
  /\ ~Exists(req[a].pay) \/ ~Open(r) \/ req[a].amt > Remaining(r)
  /\ Again(a)
  /\ UNCHANGED <<row, total, counted>>

\* Mutant: the settlements are not summed up.
Settled_NotSummed(a) ==
  LET r == [snap[a] EXCEPT !.settled = req[a].amt] IN
  IF Remaining(r) = 0 THEN [r EXCEPT !.st = "paid"] ELSE r

\* The row that was read plus the settlement.
Settled(a) ==
  LET r == [snap[a] EXCEPT !.settled = @ + req[a].amt] IN
  IF Remaining(r) = 0 THEN [r EXCEPT !.st = "paid"] ELSE r

\* The update sets settled_amount and status, whatever they are by now.
SettleWrite(a) ==
  /\ pc[a] = "sWrite" /\ Exists(req[a].pay)
  /\ row' = [row EXCEPT ![req[a].pay].settled = Settled(a).settled,
                        ![req[a].pay].st = Settled(a).st]
  /\ Overtake(a)
  /\ overwritten' = overwritten \cup IF a \in late THEN {req[a].pay} ELSE {}
  /\ GoTo(a, "rSum")
  /\ UNCHANGED <<total, asRead>>

\* It updated no row, and reading salesPartnerId of undefined throws.
SettleGone(a) ==
  /\ pc[a] = "sWrite" /\ ~Exists(req[a].pay)
  /\ Again(a)
  /\ UNCHANGED <<row, total, counted>>
-----------------------------------------------------------------------------
(* PUT: the check of the route, then updatePartnerCommissionPayment. *)
PutCheck(a) ==
  LET r == row[req[a].pay] IN
  /\ pc[a] = "uCheck" /\ Exists(req[a].pay)
  /\ r.st = "pending" \/ req[a].st = r.st
  /\ late' = late \ {a}
  /\ GoTo(a, "uRead")
  /\ UNCHANGED <<row, total, asRead, overwritten>>

PutReject(a) ==
  LET r == row[req[a].pay] IN
  /\ pc[a] = "uCheck"
  /\ ~Exists(req[a].pay) \/ (r.st # "pending" /\ req[a].st # r.st)
  /\ Rest(a, FALSE)
  /\ UNCHANGED <<row, total, counted>>

PutRead(a) ==
  /\ pc[a] = "uRead" /\ Exists(req[a].pay)
  /\ GoTo(a, "uWrite")
  /\ UNCHANGED <<row, total, unread>>

PutWrite(a) ==
  LET p == req[a].pay IN
  /\ pc[a] = "uWrite"
  /\ row' = IF Exists(p)
            THEN [row EXCEPT ![p].amt = IF req[a].amt = 0 THEN @ ELSE req[a].amt,
                             ![p].st = IF req[a].st = Keep THEN @ ELSE req[a].st]
            ELSE row
  /\ Overtake(a)
  /\ GoTo(a, "rSum")
  /\ UNCHANGED <<total, asRead, overwritten>>
-----------------------------------------------------------------------------
(* deletePartnerCommissionPayment *)
DeleteRead(a) ==
  /\ pc[a] = "dRead" /\ Exists(req[a].pay)
  /\ GoTo(a, "dWrite")
  /\ UNCHANGED <<row, total, unread>>

\* Mutant: the partner is not recalculated.
DeleteWrite_NoRecalc(a) ==
  /\ pc[a] = "dWrite"
  /\ row' = [row EXCEPT ![req[a].pay] = GoneRow]
  /\ GoTo(a, "log")
  /\ UNCHANGED <<total, unread>>

DeleteWrite(a) ==
  /\ pc[a] = "dWrite"
  /\ row' = [row EXCEPT ![req[a].pay] = GoneRow]
  /\ GoTo(a, "rSum")
  /\ UNCHANGED <<total, unread>>

\* Changing or deleting a payment that is not there throws.
NotFound(a) ==
  /\ pc[a] \in {"uRead", "dRead"} /\ ~Exists(req[a].pay)
  /\ Again(a)
  /\ UNCHANGED <<row, total, counted>>
-----------------------------------------------------------------------------
(* recalculateSalesPartnerFinancials: SUM(amount) over every row, whatever *)
(* its status, then the update; then the activity log of the caller.       *)
SumOf(rows) ==
  FoldFunctionOnSet(+, 0, [p \in Payments |-> rows[p].amt], {p \in Payments : rows[p].st \in Statuses})
SumOfAmounts == SumOf(row)

RecalcSum(a) ==
  /\ pc[a] = "rSum"
  /\ sum' = [sum EXCEPT ![a] = SumOfAmounts]
  /\ GoTo(a, "rWrite")
  /\ UNCHANGED <<row, total, snap, tries, inner, req, lastOk, history>>

RecalcWrite(a) ==
  /\ pc[a] = "rWrite"
  /\ total' = sum[a]
  /\ GoTo(a, "log")
  /\ UNCHANGED <<row, unread>>

\* A recalculation asked for alone has no log and ends here as well.
Answer(a) ==
  /\ pc[a] = "log"
  /\ acked' = IF req[a].op = "settle" THEN [acked EXCEPT ![req[a].pay] = @ + req[a].amt] ELSE acked
  /\ Rest(a, TRUE)
  /\ UNCHANGED <<row, total, alone, overwritten, requests>>

\* A statement fails.  The recalculation has its own retries, and throws after them.
Fault(a) ==
  /\ DbFaults /\ pc[a] \notin {"idle", "uCheck"}
  /\ req[a].op = "recalc" => pc[a] # "log"
  /\ \/ /\ pc[a] \in {"rSum", "rWrite"} /\ inner[a] < MaxTries
        /\ inner' = [inner EXCEPT ![a] = @ + 1]
        /\ GoTo(a, "rSum")
        /\ UNCHANGED <<snap, sum, tries, req, lastOk, late>>
     \/ /\ pc[a] \in {"rSum", "rWrite"} => inner[a] = MaxTries
        /\ Again(a)
  /\ UNCHANGED <<row, total, counted>>

Step(a) ==
  \/ Arrive(a) \/ Insert(a)
  \/ SettleRead(a) \/ SettleReject(a) \/ SettleWrite(a) \/ SettleGone(a)
  \/ PutCheck(a) \/ PutReject(a) \/ PutRead(a) \/ PutWrite(a)
  \/ DeleteRead(a) \/ DeleteWrite(a) \/ NotFound(a)
  \/ RecalcSum(a) \/ RecalcWrite(a) \/ Answer(a) \/ Fault(a)

Next == \E a \in Actors : Step(a)

Spec == Init /\ [][Next]_vars
-----------------------------------------------------------------------------
PCs == {"idle", "insert", "sRead", "sWrite", "uCheck", "uRead", "uWrite",
        "dRead", "dWrite", "rSum", "rWrite", "log"}

Rows == [st : Statuses \cup {"none", "gone"}, amt : Nat, settled : Nat]

TypeOK ==
  /\ row \in [Payments -> Rows] /\ total \in Nat
  /\ pc \in [Actors -> PCs] /\ req \in [Actors -> Requests]
  /\ snap \in [Actors -> Rows] /\ sum \in [Actors -> Nat]
  /\ tries \in [Actors -> 0..MaxTries] /\ inner \in [Actors -> 0..MaxTries]
  /\ acked \in [Payments -> Nat]
  /\ alone \in [Actors -> BOOLEAN] /\ lastOk \in BOOLEAN /\ requests \in 0..MaxRequests
  /\ late \subseteq Actors /\ overwritten \subseteq Payments

\* A step of a request that read payment p before another request wrote it.
LateWrite(p) ==
  \E a \in late : pc[a] \in {"sWrite", "uWrite"} /\ pc'[a] = "rSum" /\ req[a].pay = p

(* "No return from paid or cancelled to pending, no change between paid    *)
(* and cancelled": a payment that has left pending keeps its status until  *)
(* it is deleted, whichever of the operations run at a time and are        *)
(* retried.  Only a request that read the payment before another request   *)
(* wrote it can still change it: nothing is checked when it writes.        *)
StatusFinal ==
  [][\A p \in Payments :
       row[p].st \in {"paid", "cancelled"} => row'[p].st \in {row[p].st, "gone"} \/ LateWrite(p)]_vars

(* "The amount is at most what remains": a settlement, retried or not,     *)
(* never brings the settled amount above the amount of the payment, even   *)
(* when that amount was lowered before it read it.                         *)
NeverOverSettled ==
  [][\A p \in Payments :
       row'[p].settled > row[p].settled => row'[p].settled <= row'[p].amt \/ LateWrite(p)]_vars

(* Settlements that were answered with success are all in the settled      *)
(* amount, and retries may have added more, unless a settlement that had   *)
(* read the payment before another was written has overwritten it.         *)
SettlementsNotLost ==
  \A p \in Payments : Exists(p) /\ p \notin overwritten => row[p].settled >= acked[p]

(* After a request that ran alone and succeeded, the total of the partner  *)
(* is the sum of its payments, although requests before it failed half way *)
(* or wrote each other's totals.                                           *)
TotalAfterSuccess ==
  (lastOk /\ \A a \in Actors : pc[a] = "idle") => total = SumOfAmounts
=============================================================================
