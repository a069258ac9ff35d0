-------------------------- MODULE SettlementProofs --------------------------
(***************************************************************************)
(* CommissionSettlement for any payments, requests, amounts and retries.   *)
(* The total of the partner is right after a request that ran alone,       *)
(* whatever ran before it; what settlements and changes leave in the rows, *)
(* whoever makes them and when one actor at a time does; the types, and so *)
(* the sums.                                                               *)
(***************************************************************************)
EXTENDS CommissionSettlement, FiniteSetTheorems, NaturalsInduction, WellFoundedInduction, TLAPS

(* Nothing is summed up before the first payment.                          *)
LEMMA SumOfNothing ==
  ASSUME NEW t, \A p \in Payments : t[p].st \notin Statuses
  PROVE  SumOf(t) = 0
<1>1. {p \in Payments : t[p].st \in Statuses} = {}
  OBVIOUS
<1>2. SumOf(t) = FoldFunctionOnSet(+, 0, [p \in Payments |-> t[p].amt], {})
  BY <1>1 DEF SumOf
<1>3. FoldFunctionOnSet(+, 0, [p \in Payments |-> t[p].amt], {}) = 0
  BY DEF FoldFunctionOnSet, MapThenFoldSet
<1> QED
  BY <1>2, <1>3
-----------------------------------------------------------------------------
\* What the proof needs of the types.
Kinds ==
  /\ pc \in [Actors -> PCs] /\ req \in [Actors -> Requests]
  /\ alone \in [Actors -> BOOLEAN] /\ DOMAIN sum = Actors

\* A request that runs alone has the others idle, and knows the sum it has just read.
AloneIsAlone ==
  \A a, b \in Actors : alone[a] /\ pc[a] # "idle" /\ b # a => pc[b] = "idle"
AloneSums ==
  \A a \in Actors : alone[a] =>
    /\ pc[a] = "rWrite" => sum[a] = SumOfAmounts
    /\ pc[a] = "log" => total = SumOfAmounts

TotalInv == Kinds /\ AloneIsAlone /\ AloneSums /\ TotalAfterSuccess

\* What a step of a request in progress does to its own place, and to the sums.
Effect(a) ==
  /\ pc[a] # "idle" /\ alone' = alone /\ Kinds'
  /\ \A b \in Actors \ {a} : pc'[b] = pc[b]
  /\ pc'[a] = "rWrite" => sum'[a] = SumOfAmounts'
  /\ pc'[a] = "log" => pc[a] = "rWrite" /\ total' = sum[a] /\ row' = row
  /\ pc'[a] = "idle" =>
       \/ ~lastOk'
       \/ pc[a] = "log" /\ lastOk' = alone[a] /\ row' = row /\ total' = total

LEMMA EntryPlaces ==
  ASSUME NEW r \in Requests
  PROVE  Entry(r) \in {"insert", "sRead", "uRead", "dRead", "rSum"}
  BY DEF Entry, Requests

(* Another attempt, or the end of the request.                             *)
LEMMA AgainEffect ==
  ASSUME Kinds, NEW a \in Actors, pc[a] # "idle", Again(a), UNCHANGED <<row, total, counted>>
  PROVE  Effect(a)
<1> USE DEF Kinds, Effect, counted
<1>1. CASE GoTo(a, Entry(req[a])) /\ UNCHANGED <<req, snap, sum, lastOk, late>>
  <2>1. Entry(req[a]) \in {"insert", "sRead", "uRead", "dRead", "rSum"}
    BY EntryPlaces
  <2> QED
    BY <1>1, <2>1 DEF GoTo, PCs
<1>2. CASE Rest(a, FALSE)
  <2>1. [op |-> "recalc"] \in Requests
    BY DEF Requests
  <2> QED
    BY <1>2, <2>1 DEF Rest, GoTo, PCs
<1> QED
  BY <1>1, <1>2 DEF Again

(* The next statement: the sums are looked at by two of them only.         *)
LEMMA StatementEffect ==
  ASSUME Kinds, NEW a \in Actors, pc[a] # "idle", NEW s \in PCs \ {"rWrite", "log", "idle"},
         GoTo(a, s), UNCHANGED <<req, sum, alone>>
  PROVE  Effect(a)
  BY DEF Kinds, Effect, GoTo

LEMMA StepEffect ==
  ASSUME Kinds, NEW a \in Actors, Step(a), ~Arrive(a) PROVE Effect(a)
<1> USE DEF history, unread, asRead, counted
<1>1. CASE Insert(a)
  BY <1>1, StatementEffect DEF Insert, PCs
<1>2. CASE SettleRead(a)
  BY <1>2, StatementEffect DEF SettleRead, PCs
<1>3. CASE SettleReject(a)
  BY <1>3, AgainEffect DEF SettleReject
<1>4. CASE SettleWrite(a)
  BY <1>4, StatementEffect DEF SettleWrite, PCs
<1>5. CASE SettleGone(a)
  BY <1>5, AgainEffect DEF SettleGone
<1>6. CASE PutCheck(a)
  BY <1>6, StatementEffect DEF PutCheck, PCs
<1>7. CASE PutReject(a)
  <2>1. [op |-> "recalc"] \in Requests
    BY DEF Requests
  <2> QED
    BY <1>7, <2>1 DEF PutReject, Rest, GoTo, Kinds, Effect, PCs
<1>8. CASE PutRead(a)
  BY <1>8, StatementEffect DEF PutRead, PCs
<1>9. CASE PutWrite(a)
  BY <1>9, StatementEffect DEF PutWrite, PCs
<1>10. CASE DeleteRead(a)
  BY <1>10, StatementEffect DEF DeleteRead, PCs
<1>11. CASE DeleteWrite(a)
  BY <1>11, StatementEffect DEF DeleteWrite, PCs
<1>12. CASE NotFound(a)
  BY <1>12, AgainEffect DEF NotFound
<1>13. CASE RecalcSum(a)
  <2>1. /\ pc[a] = "rSum" /\ UNCHANGED <<row, req, alone>>
        /\ pc' = [pc EXCEPT ![a] = "rWrite"]
        /\ sum' = [sum EXCEPT ![a] = SumOfAmounts]
    BY <1>13 DEF RecalcSum, GoTo
  <2>2. SumOfAmounts' = SumOfAmounts
    BY <2>1 DEF SumOfAmounts
  <2> QED
    BY <2>1, <2>2 DEF Kinds, Effect, PCs
<1>14. CASE RecalcWrite(a)
  BY <1>14 DEF RecalcWrite, GoTo, Kinds, Effect, PCs
<1>15. CASE Answer(a)
  <2>1. [op |-> "recalc"] \in Requests
    BY DEF Requests
  <2> QED
    BY <1>15, <2>1 DEF Answer, Rest, GoTo, Kinds, Effect, PCs
<1>16. CASE Fault(a)
  <2>1. CASE GoTo(a, "rSum") /\ UNCHANGED <<snap, sum, tries, req, lastOk, late>>
    BY <1>16, <2>1, StatementEffect DEF Fault, PCs
  <2>2. CASE Again(a)
    BY <1>16, <2>2, AgainEffect DEF Fault
  <2> QED
    BY <1>16, <2>1, <2>2 DEF Fault
<1> QED
  BY <1>1, <1>2, <1>3, <1>4, <1>5, <1>6, <1>7, <1>8, <1>9, <1>10, <1>11, <1>12, <1>13, <1>14,
     <1>15, <1>16 DEF Step

(* A request arrives: it is alone if the others are idle, and nobody else is. *)
LEMMA ArriveTotal ==
  ASSUME TotalInv, NEW a \in Actors, Arrive(a) PROVE TotalInv'
<1>1. PICK r \in Requests : GoTo(a, IF r.op = "put" /\ r.st # Keep THEN "uCheck" ELSE Entry(r))
                           /\ req' = [req EXCEPT ![a] = r]
  BY DEF Arrive
<1>2. PICK s \in {"uCheck", "insert", "sRead", "uRead", "dRead", "rSum"} :
        pc' = [pc EXCEPT ![a] = s]
  BY <1>1, EntryPlaces DEF GoTo
<1>3. pc'[a] \notin {"idle", "rWrite", "log"} /\ \A b \in Actors \ {a} : pc'[b] = pc[b]
  BY <1>2 DEF TotalInv, Kinds
<1>4. \A b \in Actors : alone'[b] => b = a /\ \A c \in Actors \ {a} : pc[c] = "idle"
  BY DEF Arrive
<1>5. Kinds'
  BY <1>1, <1>2 DEF Arrive, TotalInv, Kinds, PCs
<1>6. AloneIsAlone' /\ AloneSums'
  BY <1>3, <1>4 DEF AloneIsAlone, AloneSums
<1>7. TotalAfterSuccess'
  BY <1>3 DEF TotalAfterSuccess
<1> QED
  BY <1>5, <1>6, <1>7 DEF TotalInv

(* A step of a request in progress: if some request is alone, it is this one. *)
LEMMA EffectTotal ==
  ASSUME TotalInv, NEW a \in Actors, Effect(a) PROVE TotalInv'
<1> USE DEF TotalInv
<1>1. Kinds' /\ alone' = alone /\ pc[a] # "idle" /\ \A b \in Actors \ {a} : pc'[b] = pc[b]
  BY DEF Effect
<1>2. AloneIsAlone'
  BY <1>1 DEF AloneIsAlone
<1>3. \A b \in Actors : alone[b] /\ pc'[b] # "idle" => b = a
  BY <1>1 DEF AloneIsAlone
<1>4. ASSUME alone[a], pc'[a] = "rWrite" PROVE sum'[a] = SumOfAmounts'
  BY <1>4 DEF Effect
<1>5. ASSUME alone[a], pc'[a] = "log" PROVE total' = SumOfAmounts'
  BY <1>5 DEF Effect, AloneSums, SumOfAmounts
<1>6. AloneSums'
  BY <1>1, <1>3, <1>4, <1>5 DEF AloneSums
<1>7. ASSUME lastOk', \A b \in Actors : pc'[b] = "idle" PROVE total' = SumOfAmounts'
  <2>1. pc[a] = "log" /\ alone[a] /\ row' = row /\ total' = total
    BY <1>7 DEF Effect
  <2> QED
    BY <2>1 DEF AloneSums, SumOfAmounts
<1>8. TotalAfterSuccess'
  BY <1>7 DEF TotalAfterSuccess
<1> QED
  BY <1>1, <1>2, <1>6, <1>8

(* After a request that ran alone and succeeded, total_commission is the   *)
(* sum of the payments (recalculateSalesPartnerFinancials), although       *)
(* requests before it failed half way or wrote each other's totals.        *)
THEOREM TotalSafety == Spec => []TotalAfterSuccess
<1>1. Init => TotalInv
  <2>1. ASSUME Init PROVE Kinds
    BY <2>1 DEF Init, Kinds, PCs, Requests
  <2>2. ASSUME Init PROVE AloneIsAlone /\ AloneSums
    BY <2>2 DEF Init, AloneIsAlone, AloneSums
  <2>3. ASSUME Init PROVE total = SumOfAmounts
    BY <2>3, SumOfNothing DEF Init, NoRow, Statuses, SumOfAmounts
  <2> QED
    BY <2>1, <2>2, <2>3 DEF TotalInv, TotalAfterSuccess
<1>2. TotalInv /\ [Next]_vars => TotalInv'
  <2>1. ASSUME TotalInv, Next PROVE TotalInv'
    BY <2>1, ArriveTotal, StepEffect, EffectTotal DEF Next, TotalInv
  <2>2. ASSUME TotalInv, UNCHANGED vars PROVE TotalInv'
    BY <2>2 DEF vars, history, TotalInv, Kinds, AloneIsAlone, AloneSums, TotalAfterSuccess, SumOfAmounts
  <2> QED
    BY <2>1, <2>2
<1>3. TotalInv => TotalAfterSuccess
  BY DEF TotalInv
<1> QED
  BY <1>1, <1>2, <1>3, PTL DEF Spec
-----------------------------------------------------------------------------
(* The rows.  What is said of acknowledged settlements holds when at most  *)
(* one actor creates, settles and changes payments; the rest for any.      *)
Writes(a) == Ops[a] \cap {"create", "settle", "put"} # {}
OneWriter == \A a, b \in Actors : Writes(a) /\ Writes(b) => a = b

InPlace(op, s) ==
  /\ s = "insert" => op = "create"
  /\ s \in {"sRead", "sWrite"} => op = "settle"
  /\ s \in {"uCheck", "uRead", "uWrite"} => op = "put"
  /\ s \in {"dRead", "dWrite"} => op = "delete"
Recalculating == {"rSum", "rWrite", "log"}

RowKinds ==
  /\ pc \in [Actors -> PCs] /\ req \in [Actors -> Requests]
  /\ row \in [Payments -> Rows] /\ snap \in [Actors -> Rows] /\ acked \in [Payments -> Nat]
  /\ late \subseteq Actors
  /\ \A a \in Actors : pc[a] # "idle" =>
       req[a].op \in Ops[a] /\ InPlace(req[a].op, pc[a])

\* A settlement between its read and its write, or before its answer.
Settling(a) ==
  req[a].op = "settle" =>
    /\ pc[a] \in {"sWrite"} \cup Recalculating => row[req[a].pay].st # "none"
    /\ pc[a] = "sWrite" => Open(snap[a])
    /\ pc[a] = "sWrite" /\ a \notin late /\ Exists(req[a].pay) =>
         snap[a] = row[req[a].pay] /\ req[a].amt <= Remaining(snap[a])
    /\ OneWriter /\ pc[a] \in Recalculating /\ Exists(req[a].pay) =>
         row[req[a].pay].settled >= acked[req[a].pay] + req[a].amt

\* A change that has passed the check of its status.
Changing(a) ==
  req[a].op = "put" /\ pc[a] \in {"uRead", "uWrite"} \cup Recalculating /\ req[a].st # Keep =>
    /\ row[req[a].pay].st # "none"
    /\ a \notin late /\ Exists(req[a].pay) => row[req[a].pay].st \in {"pending", req[a].st}

RowsKept ==
  \A p \in Payments :
    /\ row[p].st = "none" => row[p] = NoRow /\ acked[p] = 0
    /\ OneWriter /\ Exists(p) => row[p].settled >= acked[p]

RowInv ==
  /\ RowKinds /\ RowsKept /\ (OneWriter => late = {})
  /\ \A a \in Actors : Settling(a) /\ Changing(a)

LEMMA RequestFields ==
  ASSUME NEW r \in Requests
  PROVE  /\ r.op \in {"create", "settle", "put", "delete", "recalc"}
         /\ r.op \in {"settle", "put", "delete"} => r.pay \in Payments
         /\ r.op \in {"create", "settle", "put"} => r.amt \in Nat
         /\ r.op = "settle" => r.amt # 0
         /\ r.op = "create" => r.st \in Statuses
         /\ r.op = "put" => r.st \in Statuses \cup {Keep}
<1>1. CASE r \in [op : {"create"}, amt : Amounts, st : Statuses]
  BY <1>1, SettlementAssumption
<1>2. CASE r \in [op : {"settle"}, pay : Payments, amt : Amounts]
  BY <1>2, SettlementAssumption
<1>3. CASE r \in [op : {"put"}, pay : Payments, amt : Amounts \cup {0}, st : Statuses \cup {Keep}]
  <2>1. r.op = "put" /\ r.pay \in Payments /\ r.amt \in Amounts \cup {0} /\ r.st \in Statuses \cup {Keep}
    BY <1>3
  <2>2. Amounts \cup {0} \subseteq Nat
    BY SettlementAssumption
  <2> QED
    BY <2>1, <2>2
<1>4. CASE r \in [op : {"delete"}, pay : Payments]
  BY <1>4
<1>5. CASE r \in [op : {"recalc"}]
  BY <1>5
<1> QED
  BY <1>1, <1>2, <1>3, <1>4, <1>5 DEF Requests

LEMMA RowInit ==
  ASSUME Init PROVE RowInv
<1>1. NoRow \in Rows /\ [op |-> "recalc"] \in Requests /\ "idle" \in PCs
  BY DEF NoRow, Rows, Requests, PCs
<1>2. RowKinds
  BY <1>1 DEF Init, RowKinds
<1>3. RowsKept
  BY DEF Init, RowsKept, Exists, NoRow, Statuses
<1>4. \A a \in Actors : Settling(a) /\ Changing(a)
  BY DEF Init, Settling, Changing
<1>5. late = {}
  BY DEF Init
<1> QED
  BY <1>2, <1>3, <1>4, <1>5 DEF RowInv

(* What the steps of one actor leave to the others: a deletion leaves      *)
(* nothing to say of the payment, and a write makes them late.             *)
Deletes(a) ==
  \/ row' = row
  \/ pc[a] = "dWrite" /\ row' = [row EXCEPT ![req[a].pay] = GoneRow]

Allows(a) ==
  /\ late \ {a} \subseteq late' /\ late' \subseteq Actors /\ (OneWriter => late' = {})
  /\ \/ Deletes(a) /\ acked' = acked
     \/ Writes(a) /\ pc[a] # "idle"
  /\ \A q \in Payments :
       \/ row'[q] = row[q] \/ row'[q] = GoneRow \/ row[q].st = "none"
       \/ row'[q].st # "none" /\ req[a].pay = q /\ Overtake(a)

LEMMA OthersKeep ==
  ASSUME RowInv, NEW a \in Actors, NEW b \in Actors \ {a}, Allows(a),
         pc'[b] = pc[b], req'[b] = req[b], snap'[b] = snap[b]
  PROVE  Settling(b)' /\ Changing(b)'
<1>1. req[b] \in Requests /\ RowKinds /\ Settling(b) /\ Changing(b) /\ (b \notin late' => b \notin late)
  BY DEF RowInv, RowKinds, Allows
<1>2. CASE pc[b] \in {"idle", "sRead", "uCheck"}
  BY <1>2 DEF Settling, Changing, Recalculating
<1>3. CASE pc[b] \notin {"idle", "sRead", "uCheck"} /\ req[b].op \in {"settle", "put"}
  <2>1. Writes(b) /\ req[b].pay \in Payments
    BY <1>1, <1>3, RequestFields DEF RowKinds, Writes
  <2>2. OneWriter => Deletes(a) /\ acked' = acked
    BY <2>1 DEF OneWriter, Allows
  <2> DEFINE q == req[b].pay
  <2>3. CASE row'[q] = row[q]
    <3>1. OneWriter => acked' = acked
      BY <2>2
    <3> QED
      BY <1>1, <2>3, <3>1 DEF Settling, Changing, Exists
  <2>4. CASE row'[q] = GoneRow
    BY <1>1, <2>4 DEF Settling, Changing, Exists, GoneRow, Statuses
  <2>5. CASE row[q].st = "none"
    <3>1. req[b].op = "put" /\ req[b].st = Keep
      BY <1>1, <1>3, <2>5 DEF Settling, Changing, RowKinds, InPlace, PCs, Recalculating
    <3> QED
      BY <3>1 DEF Settling, Changing
  <2>6. CASE row'[q].st # "none" /\ req[a].pay = q /\ Overtake(a)
    <3>1. b \in late'
      BY <1>3, <2>6 DEF Overtake
    <3>2. ~OneWriter
      BY <3>1 DEF Allows
    <3> QED
      BY <1>1, <2>6, <3>1, <3>2 DEF Settling, Changing
  <2> QED
    BY <2>1, <2>3, <2>4, <2>5, <2>6 DEF Allows
<1>4. CASE req[b].op \notin {"settle", "put"}
  BY <1>4 DEF Settling, Changing
<1> QED
  BY <1>2, <1>3, <1>4
LEMMA OwnKeeps ==
  ASSUME RowInv, NEW a \in Actors, Allows(a), RowKinds', RowsKept', Settling(a)', Changing(a)',
         \A b \in Actors \ {a} : pc'[b] = pc[b] /\ req'[b] = req[b] /\ snap'[b] = snap[b]
  PROVE  RowInv'
<1>1. \A b \in Actors \ {a} : Settling(b)' /\ Changing(b)'
  BY OthersKeep
<1>2. (OneWriter => late = {})'
  BY DEF Allows, OneWriter, Writes
<1> QED
  BY <1>1, <1>2 DEF RowInv

(* Without a write nobody is late, but a may have read anew.               *)
LEMMA AllowsNoWrite ==
  ASSUME RowInv, NEW a \in Actors, late' \in {late, late \ {a}}, Deletes(a), acked' = acked
  PROVE  Allows(a)
<1>1. \A q \in Payments : row'[q] = row[q] \/ row'[q] = GoneRow
  BY DEF Deletes, RowInv, RowKinds
<1> QED
  BY <1>1 DEF Allows, RowInv, RowKinds

(* A write with which nobody is late if only one actor writes.             *)
LEMMA AllowsWrite ==
  ASSUME RowInv, NEW a \in Actors, Writes(a), pc[a] # "idle", Overtake(a),
         \A q \in Payments : row'[q] = row[q] \/ (row'[q].st # "none" /\ req[a].pay = q)
  PROVE  Allows(a)
<1>1. ASSUME OneWriter, NEW b \in late' PROVE FALSE
  <2>1. b \in Actors \ {a} /\ pc[b] # "idle" /\ req[b].op \in {"settle", "put"}
    BY <1>1 DEF Overtake, RowInv
  <2>2. Writes(b)
    BY <2>1 DEF RowInv, RowKinds, Writes
  <2> QED
    BY <1>1, <2>1, <2>2 DEF OneWriter
<1>2. late' = late \cup {b \in Actors \ {a} :
                            /\ pc[b] \notin {"idle", "sRead", "uCheck"} /\ req[b].op \in {"settle", "put"}
                            /\ req[b].pay = req[a].pay}
  BY DEF Overtake
<1>3. late \subseteq late' /\ late' \subseteq Actors
  BY <1>2 DEF RowInv, RowKinds
<1>4. OneWriter => late' = {}
  BY <1>1
<1> QED
  BY <1>3, <1>4 DEF Allows

(* The end of a request, which writes nothing.                             *)
LEMMA RestKeeps ==
  ASSUME RowInv, NEW a \in Actors, NEW ok, Rest(a, ok), row' = row, acked' = acked
  PROVE  RowInv'
<1>1. [op |-> "recalc"] \in Requests /\ NoRow \in Rows
  BY DEF Requests, NoRow, Rows
<1>2. /\ pc' = [pc EXCEPT ![a] = "idle"] /\ req' = [req EXCEPT ![a] = [op |-> "recalc"]]
      /\ snap' = [snap EXCEPT ![a] = NoRow] /\ late' = late \ {a}
  BY DEF Rest, GoTo
<1>3. RowKinds'
  BY <1>1, <1>2 DEF RowInv, RowKinds, PCs
<1>4. Settling(a)' /\ Changing(a)'
  BY <1>2 DEF RowInv, RowKinds, Settling, Changing
<1>5. RowsKept'
  BY DEF RowInv, RowsKept, Exists
<1>6. \A b \in Actors \ {a} : pc'[b] = pc[b] /\ req'[b] = req[b] /\ snap'[b] = snap[b]
  BY <1>2 DEF RowInv, RowKinds
<1>7. Allows(a)
  BY <1>2, AllowsNoWrite DEF Deletes
<1> QED
  BY <1>3, <1>4, <1>5, <1>6, <1>7, OwnKeeps

(* The next statement of a request, when the last one has not written.     *)
LEMMA GoKeeps ==
  ASSUME RowInv, NEW a \in Actors, pc[a] # "idle", NEW s \in PCs, GoTo(a, s),
         row' = row, acked' = acked, req' = req, snap' = snap, late' \in {late, late \ {a}},
         InPlace(req[a].op, s), Settling(a)', Changing(a)'
  PROVE  RowInv'
<1>1. pc' = [pc EXCEPT ![a] = s]
  BY DEF GoTo
<1>2. RowKinds'
  BY <1>1 DEF RowInv, RowKinds
<1>3. RowsKept'
  BY DEF RowInv, RowsKept, Exists
<1>4. Allows(a)
  BY AllowsNoWrite DEF Deletes
<1>5. \A b \in Actors \ {a} : pc'[b] = pc[b] /\ req'[b] = req[b] /\ snap'[b] = snap[b]
  BY <1>1 DEF RowInv, RowKinds
<1> QED
  BY <1>2, <1>3, <1>4, <1>5, OwnKeeps

LEMMA EntryOf ==
  ASSUME NEW r \in Requests
  PROVE  Entry(r) \in PCs \ {"idle", "sWrite"} /\ InPlace(r.op, Entry(r))
         /\ (r.op = "settle" => Entry(r) = "sRead") /\ (r.op = "put" => Entry(r) = "uRead")
  BY RequestFields DEF Entry, InPlace, PCs

(* Another attempt begins with a read, and what it has written it has kept. *)
LEMMA AgainKeeps ==
  ASSUME RowInv, NEW a \in Actors, pc[a] \notin {"idle", "uCheck"}, Again(a),
         row' = row, acked' = acked
  PROVE  RowInv'
<1>1. CASE GoTo(a, Entry(req[a])) /\ UNCHANGED <<req, snap, sum, lastOk, late>>
  <2>1. req[a] \in Requests /\ pc \in [Actors -> PCs]
    BY DEF RowInv, RowKinds
  <2>2. pc'[a] = Entry(req[a])
    BY <1>1, <2>1 DEF GoTo
  <2>3. Settling(a)'
    BY <1>1, <2>1, <2>2, EntryOf DEF Settling, Recalculating
  <2>4. req[a].op = "put" => pc[a] \in {"uRead", "uWrite"} \cup Recalculating
    BY DEF RowInv, RowKinds, InPlace, PCs, Recalculating
  <2>5. Changing(a)'
    BY <1>1, <2>4 DEF RowInv, Changing, Exists
  <2> QED
    BY <1>1, <2>1, <2>3, <2>5, EntryOf, GoKeeps
<1>2. CASE Rest(a, FALSE)
  BY <1>2, RestKeeps
<1> QED
  BY <1>1, <1>2 DEF Again
-----------------------------------------------------------------------------
LEMMA ArriveKeeps ==
  ASSUME RowInv, NEW a \in Actors, Arrive(a) PROVE RowInv'
<1>1. PICK r \in Requests :
        /\ r.op \in Ops[a] /\ req' = [req EXCEPT ![a] = r]
        /\ GoTo(a, IF r.op = "put" /\ r.st # Keep THEN "uCheck" ELSE Entry(r))
  BY DEF Arrive
<1>2. PICK s \in PCs \ {"idle", "sWrite"} :
        /\ pc' = [pc EXCEPT ![a] = s] /\ InPlace(r.op, s)
        /\ r.op = "settle" => s = "sRead"
        /\ r.op = "put" /\ r.st # Keep => s = "uCheck"
  <2>1. CASE r.op = "put" /\ r.st # Keep
    BY <1>1, <2>1 DEF GoTo, InPlace, PCs
  <2>2. CASE ~(r.op = "put" /\ r.st # Keep)
    BY <1>1, <2>2, EntryOf DEF GoTo
  <2> QED
    BY <2>1, <2>2
<1>3. pc[a] = "idle" /\ row' = row /\ acked' = acked /\ snap' = snap /\ late' = late
  BY DEF Arrive
<1>4. req'[a] = r /\ pc'[a] = s
      /\ \A b \in Actors \ {a} : pc'[b] = pc[b] /\ req'[b] = req[b] /\ snap'[b] = snap[b]
  BY <1>1, <1>2, <1>3 DEF RowInv, RowKinds
<1>5. RowKinds'
  BY <1>1, <1>2, <1>3, <1>4 DEF RowInv, RowKinds
<1>6. RowsKept'
  BY <1>3 DEF RowInv, RowsKept, Exists
<1>7. Settling(a)' /\ Changing(a)'
  BY <1>2, <1>4 DEF Settling, Changing, Recalculating
<1>8. Allows(a)
  BY <1>3, AllowsNoWrite DEF Deletes
<1> QED
  BY <1>4, <1>5, <1>6, <1>7, <1>8, OwnKeeps

(* createPartnerCommissionPayment: the id has not been used.               *)
LEMMA InsertKeeps ==
  ASSUME RowInv, NEW a \in Actors, Insert(a) PROVE RowInv'
<1>1. PICK p \in Payments :
        /\ row[p] = NoRow
        /\ row' = [row EXCEPT ![p] = [st |-> req[a].st, amt |-> req[a].amt, settled |-> 0]]
  BY DEF Insert
<1>2. /\ pc[a] = "insert" /\ pc' = [pc EXCEPT ![a] = "rSum"] /\ req' = req /\ snap' = snap
      /\ acked' = acked /\ late' = late
  BY DEF Insert, GoTo, unread, asRead
<1>3. req[a] \in Requests /\ req[a].op = "create" /\ Writes(a)
  BY <1>2 DEF RowInv, RowKinds, InPlace, Writes
<1>4. [st |-> req[a].st, amt |-> req[a].amt, settled |-> 0] \in Rows
  BY <1>3, RequestFields DEF Rows
<1>5. RowKinds'
  <2>1. row' \in [Payments -> Rows]
    BY <1>1, <1>4 DEF RowInv, RowKinds
  <2>2. "rSum" \in PCs /\ InPlace(req[a].op, "rSum")
    BY DEF PCs, InPlace
  <2> QED
    BY <1>2, <1>3, <2>1, <2>2 DEF RowInv, RowKinds
<1>6. RowsKept'
  <2>1. req[a].st \in Statuses /\ acked[p] = 0
    BY <1>1, <1>3, RequestFields DEF RowInv, RowsKept, NoRow
  <2>2. row'[p] = [st |-> req[a].st, amt |-> req[a].amt, settled |-> 0]
        /\ \A q \in Payments \ {p} : row'[q] = row[q]
    BY <1>1 DEF RowInv, RowKinds
  <2> QED
    BY <1>2, <2>1, <2>2 DEF RowInv, RowsKept, Exists, Statuses
<1>7. Settling(a)' /\ Changing(a)'
  BY <1>2, <1>3 DEF Settling, Changing
<1>8. Allows(a)
  <2>1. \A q \in Payments : row'[q] = row[q] \/ row[q].st = "none"
    BY <1>1 DEF RowInv, RowKinds, NoRow
  <2> QED
    BY <1>2, <1>3, <2>1 DEF Allows, RowInv, RowKinds
<1>9. \A b \in Actors \ {a} : pc'[b] = pc[b] /\ req'[b] = req[b] /\ snap'[b] = snap[b]
  BY <1>2 DEF RowInv, RowKinds
<1> QED
  BY <1>5, <1>6, <1>7, <1>8, <1>9, OwnKeeps

(* applyPartialSettlement adds to the row it has read, which is still so   *)
(* unless the settlement is late.                                          *)
LEMMA SettleWriteStep ==
  ASSUME RowInv, NEW a \in Actors, SettleWrite(a)
  PROVE  /\ req[a].pay \in Payments /\ req[a].op = "settle" /\ Writes(a) /\ pc[a] = "sWrite"
         /\ row[req[a].pay] \in Rows /\ req[a].amt \in Nat /\ Exists(req[a].pay)
         /\ a \notin late => row[req[a].pay].settled + req[a].amt <= row[req[a].pay].amt
                             /\ row[req[a].pay].st = "pending"
         /\ \E st \in {"pending", "paid"}, m \in Nat :
              /\ a \notin late => m = row[req[a].pay].settled + req[a].amt
              /\ row' = [row EXCEPT ![req[a].pay] = [row[req[a].pay] EXCEPT !.settled = m, !.st = st]]
<1> DEFINE p == req[a].pay
           r == row[p]
           z == [snap[a] EXCEPT !.settled = @ + req[a].amt]
<1>1. /\ pc[a] = "sWrite" /\ Exists(p)
      /\ row' = [row EXCEPT ![p].settled = Settled(a).settled, ![p].st = Settled(a).st]
  BY DEF SettleWrite
<1>2. req[a] \in Requests /\ req[a].op = "settle" /\ Writes(a)
  BY <1>1 DEF RowInv, RowKinds, InPlace, Writes
<1>3. p \in Payments /\ req[a].amt \in Nat /\ req[a].amt # 0
  BY <1>2, RequestFields
<1>4. r \in Rows /\ row \in [Payments -> Rows] /\ snap[a] \in Rows
  BY <1>1, <1>3 DEF RowInv, RowKinds
<1>5. snap[a].st = "pending" /\ (a \notin late => snap[a] = r /\ req[a].amt <= Remaining(r))
  BY <1>1, <1>2 DEF RowInv, Settling, Open
<1>6. a \notin late => r.settled + req[a].amt <= r.amt
  BY <1>3, <1>4, <1>5 DEF Rows, Remaining
<1>7. z.settled = snap[a].settled + req[a].amt /\ z.st = "pending" /\ snap[a].settled \in Nat
  BY <1>4, <1>5 DEF Rows
<1>8. Settled(a).settled = snap[a].settled + req[a].amt /\ Settled(a).st \in {"pending", "paid"}
  <2>1. Settled(a) = IF Remaining(z) = 0 THEN [z EXCEPT !.st = "paid"] ELSE z
    BY DEF Settled
  <2>2. z \in [st : Statuses \cup {"none", "gone"}, amt : Nat, settled : Nat]
    BY <1>3, <1>4, <1>7 DEF Rows
  <2> QED
    BY <1>7, <2>1, <2>2
<1>9. PICK m \in Nat : m = snap[a].settled + req[a].amt
  BY <1>3, <1>7
<1>10. row' = [row EXCEPT ![p] = [r EXCEPT !.settled = m, !.st = Settled(a).st]]
  BY <1>1, <1>3, <1>4, <1>8, <1>9 DEF Rows
<1> QED
  BY <1>1, <1>2, <1>3, <1>4, <1>5, <1>6, <1>8, <1>9, <1>10
LEMMA SettleWriteKeeps ==
  ASSUME RowInv, NEW a \in Actors, SettleWrite(a) PROVE RowInv'
<1> DEFINE p == req[a].pay
           r == row[p]
<1>1. /\ p \in Payments /\ req[a].op = "settle" /\ Writes(a) /\ r \in Rows /\ Exists(p)
      /\ acked[p] \in Nat /\ (OneWriter => r.settled >= acked[p]) /\ req[a].amt \in Nat
  BY SettleWriteStep DEF RowInv, RowsKept, RowKinds
<1>2. PICK st \in {"pending", "paid"}, m \in Nat :
        /\ a \notin late => m = r.settled + req[a].amt
        /\ row' = [row EXCEPT ![p] = [r EXCEPT !.settled = m, !.st = st]]
  BY SettleWriteStep
<1>3. /\ pc[a] = "sWrite" /\ pc' = [pc EXCEPT ![a] = "rSum"] /\ req' = req /\ snap' = snap
      /\ acked' = acked /\ Overtake(a)
  BY DEF SettleWrite, GoTo, asRead
<1>4. /\ row' \in [Payments -> Rows] /\ row'[p].st = st
      /\ row'[p].settled = m
      /\ \A q \in Payments \ {p} : row'[q] = row[q]
  <2>1. row \in [Payments -> Rows]
    BY DEF RowInv, RowKinds
  <2>2. [r EXCEPT !.settled = m, !.st = st] \in Rows
    BY <1>1, <2>1 DEF Rows, Statuses
  <2>3. row'[p] = [r EXCEPT !.settled = m, !.st = st]
    BY <1>1, <1>2, <2>1
  <2>4. row'[p].st = st /\ row'[p].settled = m
    BY <1>1, <2>3 DEF Rows
  <2> QED
    BY <1>1, <1>2, <2>1, <2>2, <2>4
<1>5. RowKinds'
  <2>1. "rSum" \in PCs /\ InPlace(req[a].op, "rSum")
    BY DEF PCs, InPlace
  <2>2. late' \subseteq Actors
    BY <1>3 DEF Overtake, RowInv, RowKinds
  <2> QED
    BY <1>3, <1>4, <2>1, <2>2 DEF RowInv, RowKinds
<1>6. OneWriter => row'[p].settled >= acked[p] + req[a].amt /\ row'[p].settled >= acked[p]
  <2>1. OneWriter => a \notin late
    BY DEF RowInv
  <2> QED
    BY <1>1, <1>2, <1>4, <2>1 DEF Rows
<1>7. RowsKept'
  <2>1. OneWriter' <=> OneWriter
    BY DEF OneWriter, Writes
  <2> QED
    BY <1>2, <1>3, <1>4, <1>6, <2>1 DEF RowInv, RowsKept, Exists
<1>8. Settling(a)' /\ Changing(a)'
  <2>1. OneWriter' <=> OneWriter
    BY DEF OneWriter, Writes
  <2>2. pc'[a] = "rSum" /\ req'[a] = req[a] /\ row'[p].st # "none"
    BY <1>3, <1>4 DEF RowInv, RowKinds
  <2> QED
    BY <1>1, <1>3, <1>6, <2>1, <2>2 DEF Settling, Changing
<1>9. \A b \in Actors \ {a} : pc'[b] = pc[b] /\ req'[b] = req[b] /\ snap'[b] = snap[b]
  BY <1>3 DEF RowInv, RowKinds
<1>10. Allows(a)
  <2>1. \A q \in Payments : row'[q] = row[q] \/ (row'[q].st # "none" /\ p = q)
    BY <1>4
  <2> QED
    BY <1>1, <1>3, <2>1, AllowsWrite
<1> QED
  BY <1>5, <1>7, <1>8, <1>9, <1>10, OwnKeeps

(* updatePartnerCommissionPayment sets the amount and the status, never    *)
(* what is settled.                                                        *)
LEMMA PutWriteStep ==
  ASSUME RowInv, NEW a \in Actors, PutWrite(a)
  PROVE  LET p == req[a].pay
         IN  /\ p \in Payments /\ req[a].op = "put" /\ Writes(a) /\ row' \in [Payments -> Rows]
             /\ \A q \in Payments : row'[q].settled = row[q].settled
             /\ \A q \in Payments : row'[q] = row[q] \/ (q = p /\ Exists(p))
             /\ row'[p].st = IF Exists(p) /\ req[a].st # Keep THEN req[a].st ELSE row[p].st
<1> DEFINE p == req[a].pay
<1>1. /\ pc[a] = "uWrite"
      /\ row' = IF Exists(p)
                THEN [row EXCEPT ![p].amt = IF req[a].amt = 0 THEN @ ELSE req[a].amt,
                                 ![p].st = IF req[a].st = Keep THEN @ ELSE req[a].st]
                ELSE row
  BY DEF PutWrite
<1>2. req[a] \in Requests /\ req[a].op = "put" /\ Writes(a)
  BY <1>1 DEF RowInv, RowKinds, InPlace, Writes
<1>3. p \in Payments /\ req[a].amt \in Nat /\ req[a].st \in Statuses \cup {Keep}
  BY <1>2, RequestFields
<1>4. row \in [Payments -> Rows] /\ row[p] \in Rows
  BY <1>3 DEF RowInv, RowKinds
<1>5. CASE ~Exists(p)
  BY <1>1, <1>2, <1>3, <1>4, <1>5
<1>6. CASE Exists(p)
  <2> DEFINE x == IF req[a].amt = 0 THEN row[p].amt ELSE req[a].amt
             st == IF req[a].st = Keep THEN row[p].st ELSE req[a].st
  <2>1. row' = [row EXCEPT ![p] = [row[p] EXCEPT !.amt = x, !.st = st]]
    BY <1>1, <1>3, <1>4, <1>6 DEF Rows
  <2>2. x \in Nat /\ st \in Statuses \cup {"none", "gone"}
    BY <1>3, <1>4 DEF Rows
  <2>3. /\ [row[p] EXCEPT !.amt = x, !.st = st] \in Rows
        /\ [row[p] EXCEPT !.amt = x, !.st = st].st = st
        /\ [row[p] EXCEPT !.amt = x, !.st = st].settled = row[p].settled
    BY <1>4, <2>2 DEF Rows
  <2> HIDE DEF x
  <2>4. /\ row' \in [Payments -> Rows] /\ row'[p].st = st /\ row'[p].settled = row[p].settled
        /\ \A q \in Payments \ {p} : row'[q] = row[q]
    BY <1>3, <1>4, <2>1, <2>3
  <2> QED
    BY <1>2, <1>3, <1>6, <2>4
<1> QED
  BY <1>5, <1>6

LEMMA PutWriteKeeps ==
  ASSUME RowInv, NEW a \in Actors, PutWrite(a) PROVE RowInv'
<1> DEFINE p == req[a].pay
<1>1. /\ p \in Payments /\ req[a].op = "put" /\ Writes(a) /\ row' \in [Payments -> Rows]
      /\ \A q \in Payments : row'[q].settled = row[q].settled
      /\ \A q \in Payments : row'[q] = row[q] \/ (q = p /\ Exists(p))
      /\ row'[p].st = IF Exists(p) /\ req[a].st # Keep THEN req[a].st ELSE row[p].st
  BY PutWriteStep
<1>2. /\ pc[a] = "uWrite" /\ pc' = [pc EXCEPT ![a] = "rSum"] /\ req' = req /\ snap' = snap
      /\ acked' = acked /\ Overtake(a)
  BY DEF PutWrite, GoTo, asRead
<1>3. req[a].st \in Statuses \cup {Keep}
  BY <1>1, RequestFields DEF RowInv, RowKinds
<1>4. RowKinds'
  <2>1. "rSum" \in PCs /\ InPlace(req[a].op, "rSum")
    BY DEF PCs, InPlace
  <2>2. late' \subseteq Actors
    BY <1>2 DEF Overtake, RowInv, RowKinds
  <2> QED
    BY <1>1, <1>2, <2>1, <2>2 DEF RowInv, RowKinds
<1>5. \A q \in Payments : row'[q].st \in Statuses <=> row[q].st \in Statuses
  BY <1>1, <1>3 DEF Exists
<1>6. RowsKept'
  <2>1. \A q \in Payments : row'[q].st = "none" => row'[q] = row[q]
    BY <1>1, <1>5 DEF Exists, Statuses
  <2> QED
    BY <1>1, <1>2, <1>5, <2>1 DEF RowInv, RowsKept, Exists
<1>7. Settling(a)' /\ Changing(a)'
  <2>1. row[p].st # "none" /\ req[a].st # Keep => row'[p].st # "none" /\ (Exists(p)' => row'[p].st = req[a].st)
    <3>1. Exists(p)' <=> row'[p].st \in Statuses
      BY <1>1, <1>2 DEF Exists
    <3>2. CASE Exists(p)
      BY <1>1, <1>3, <3>2 DEF Statuses
    <3>3. CASE ~Exists(p)
      BY <1>1, <1>5, <3>1, <3>3 DEF Exists
    <3> QED
      BY <3>2, <3>3
  <2>2. req[a].st # Keep => row[p].st # "none"
    BY <1>1, <1>2 DEF RowInv, Changing
  <2> QED
    BY <1>1, <1>2, <2>1, <2>2 DEF RowInv, RowKinds, Settling, Changing
<1>8. \A b \in Actors \ {a} : pc'[b] = pc[b] /\ req'[b] = req[b] /\ snap'[b] = snap[b]
  BY <1>2 DEF RowInv, RowKinds
<1>9. Allows(a)
  <2>1. \A q \in Payments : row'[q] = row[q] \/ (row'[q].st # "none" /\ p = q)
    BY <1>1, <1>3, <1>5 DEF Exists, Statuses
  <2> QED
    BY <1>1, <1>2, <2>1, AllowsWrite
<1> QED
  BY <1>4, <1>6, <1>7, <1>8, <1>9, OwnKeeps

LEMMA DeleteWriteKeeps ==
  ASSUME RowInv, NEW a \in Actors, DeleteWrite(a) PROVE RowInv'
<1> DEFINE p == req[a].pay
<1>1. /\ pc[a] = "dWrite" /\ pc' = [pc EXCEPT ![a] = "rSum"] /\ req' = req /\ snap' = snap
      /\ acked' = acked /\ row' = [row EXCEPT ![p] = GoneRow] /\ late' = late
  BY DEF DeleteWrite, GoTo, unread, asRead
<1>2. req[a] \in Requests /\ req[a].op = "delete"
  BY <1>1 DEF RowInv, RowKinds, InPlace
<1>3. GoneRow \in Rows /\ GoneRow.st = "gone" /\ GoneRow.st \notin Statuses
  BY DEF GoneRow, Rows, Statuses
<1>4. RowKinds'
  <2>1. "rSum" \in PCs /\ InPlace(req[a].op, "rSum")
    BY DEF PCs, InPlace
  <2> QED
    BY <1>1, <1>3, <2>1 DEF RowInv, RowKinds
<1>5. \A q \in Payments : row'[q] = row[q] \/ row'[q] = GoneRow
  BY <1>1 DEF RowInv, RowKinds
<1>6. RowsKept'
  BY <1>1, <1>3, <1>5 DEF RowInv, RowsKept, Exists
<1>7. Settling(a)' /\ Changing(a)'
  BY <1>1, <1>2 DEF Settling, Changing
<1>8. \A b \in Actors \ {a} : pc'[b] = pc[b] /\ req'[b] = req[b] /\ snap'[b] = snap[b]
  BY <1>1 DEF RowInv, RowKinds
<1>9. Allows(a)
  BY <1>1, AllowsNoWrite DEF Deletes
<1> QED
  BY <1>4, <1>6, <1>7, <1>8, <1>9, OwnKeeps

(* The settlement that is answered with success is in the row.             *)
LEMMA AnswerKeeps ==
  ASSUME RowInv, NEW a \in Actors, Answer(a) PROVE RowInv'
<1> DEFINE p == req[a].pay
<1>1. pc[a] = "log" /\ row' = row /\ Rest(a, TRUE)
      /\ acked' = IF req[a].op = "settle" THEN [acked EXCEPT ![p] = @ + req[a].amt] ELSE acked
  BY DEF Answer
<1>2. CASE req[a].op # "settle"
  BY <1>1, <1>2, RestKeeps
<1>3. CASE req[a].op = "settle"
  <2>1. /\ pc' = [pc EXCEPT ![a] = "idle"] /\ req' = [req EXCEPT ![a] = [op |-> "recalc"]]
        /\ snap' = [snap EXCEPT ![a] = NoRow] /\ late' = late \ {a}
    BY <1>1 DEF Rest, GoTo
  <2>2. [op |-> "recalc"] \in Requests /\ NoRow \in Rows /\ "idle" \in PCs
    BY DEF Requests, NoRow, Rows, PCs
  <2>3. /\ p \in Payments /\ req[a].amt \in Nat /\ acked[p] \in Nat /\ Writes(a)
        /\ acked \in [Payments -> Nat]
    BY <1>1, <1>3, RequestFields DEF RowInv, RowKinds, Writes
  <2>4. RowKinds'
    <3>1. acked' \in [Payments -> Nat]
      BY <1>1, <1>3, <2>3
    <3> QED
      BY <1>1, <2>1, <2>2, <3>1 DEF RowInv, RowKinds
  <2>5. RowsKept'
    <3>1. row[p].st # "none" /\ (OneWriter /\ Exists(p) => row[p].settled >= acked[p] + req[a].amt)
      BY <1>1, <1>3 DEF RowInv, Settling, Recalculating
    <3>2. acked'[p] = acked[p] + req[a].amt /\ \A q \in Payments \ {p} : acked'[q] = acked[q]
      BY <1>1, <1>3, <2>3
    <3>3. OneWriter' <=> OneWriter
      BY DEF OneWriter, Writes
    <3> QED
      BY <1>1, <3>1, <3>2, <3>3 DEF RowInv, RowsKept, Exists
  <2>6. Settling(a)' /\ Changing(a)'
    BY <2>1 DEF RowInv, RowKinds, Settling, Changing
  <2>7. \A b \in Actors \ {a} : pc'[b] = pc[b] /\ req'[b] = req[b] /\ snap'[b] = snap[b]
    BY <2>1 DEF RowInv, RowKinds
  <2>8. Allows(a)
    BY <1>1, <2>1, <2>3 DEF Allows, RowInv, RowKinds
  <2> QED
    BY <2>4, <2>5, <2>6, <2>7, <2>8, OwnKeeps
<1> QED
  BY <1>2, <1>3
(* What a step that moves on and reads at most must leave: whoever has     *)
(* written stays in what it has written.                                   *)
LEMMA MovesKeep ==
  ASSUME RowInv, NEW a \in Actors, pc[a] # "idle", NEW s \in PCs, GoTo(a, s),
         UNCHANGED <<row, acked, req, snap, late>>, InPlace(req[a].op, s),
         s \in Recalculating => pc[a] \in Recalculating, s # "sWrite",
         s \in {"uRead", "uWrite"} => pc[a] \in {"uRead", "uWrite"} \cup Recalculating
  PROVE  RowInv'
<1>1. pc'[a] = s
  BY DEF GoTo, RowInv, RowKinds
<1>2. Settling(a)'
  BY <1>1 DEF RowInv, Settling, Exists
<1>3. Changing(a)'
  BY <1>1 DEF RowInv, Changing, Exists, Recalculating
<1> QED
  BY <1>2, <1>3, GoKeeps

LEMMA RowStep ==
  ASSUME RowInv, NEW a \in Actors, Step(a) PROVE RowInv'
<1> USE DEF history, unread, asRead, counted
<1>0. req[a] \in Requests /\ (pc[a] # "idle" => InPlace(req[a].op, pc[a]))
  BY DEF RowInv, RowKinds
<1>1. CASE Arrive(a)
  BY <1>1, ArriveKeeps
<1>2. CASE Insert(a)
  BY <1>2, InsertKeeps
<1>3. CASE SettleRead(a)
  <2> DEFINE p == req[a].pay
  <2>1. /\ pc[a] = "sRead" /\ Exists(p) /\ Open(row[p]) /\ req[a].amt <= Remaining(row[p])
        /\ snap' = [snap EXCEPT ![a] = row[p]] /\ pc' = [pc EXCEPT ![a] = "sWrite"]
        /\ row' = row /\ acked' = acked /\ req' = req /\ late' = late \ {a}
    BY <1>3 DEF SettleRead, GoTo
  <2>2. req[a].op = "settle" /\ p \in Payments
    BY <1>0, <2>1, RequestFields DEF InPlace
  <2>3. pc'[a] = "sWrite" /\ snap'[a] = row[p]
        /\ \A b \in Actors \ {a} : pc'[b] = pc[b] /\ req'[b] = req[b] /\ snap'[b] = snap[b]
    BY <2>1 DEF RowInv, RowKinds
  <2>4. RowKinds'
    <3>1. "sWrite" \in PCs /\ InPlace(req[a].op, "sWrite") /\ row[p] \in Rows
      BY <2>2 DEF PCs, InPlace, RowInv, RowKinds
    <3> QED
      BY <2>1, <3>1 DEF RowInv, RowKinds
  <2>5. RowsKept'
    BY <2>1 DEF RowInv, RowsKept, Exists
  <2>6. Settling(a)' /\ Changing(a)'
    BY <2>1, <2>2, <2>3 DEF Settling, Changing, Exists, Statuses, Recalculating, Open, Remaining
  <2>7. Allows(a)
    BY <2>1, AllowsNoWrite DEF Deletes
  <2> QED
    BY <2>3, <2>4, <2>5, <2>6, <2>7, OwnKeeps
<1>4. CASE SettleReject(a)
  BY <1>4, AgainKeeps DEF SettleReject
<1>5. CASE SettleWrite(a)
  BY <1>5, SettleWriteKeeps
<1>6. CASE SettleGone(a)
  BY <1>6, AgainKeeps DEF SettleGone
<1>7. CASE PutCheck(a)
  <2>1. /\ pc[a] = "uCheck" /\ GoTo(a, "uRead") /\ UNCHANGED <<row, acked, req, snap>>
        /\ late' = late \ {a} /\ Exists(req[a].pay)
        /\ row[req[a].pay].st = "pending" \/ req[a].st = row[req[a].pay].st
    BY <1>7 DEF PutCheck
  <2>2. "uRead" \in PCs /\ InPlace(req[a].op, "uRead") /\ req[a].op = "put"
    BY <1>0, <2>1 DEF PCs, InPlace
  <2>3. Settling(a)' /\ Changing(a)'
    BY <2>1, <2>2 DEF Settling, Changing, Exists, Statuses
  <2> QED
    BY <2>1, <2>2, <2>3, GoKeeps
<1>8. CASE PutReject(a)
  BY <1>8, RestKeeps DEF PutReject
<1>9. CASE PutRead(a)
  <2>1. "uWrite" \in PCs /\ InPlace(req[a].op, "uWrite") /\ "uWrite" \notin Recalculating
    BY <1>0, <1>9 DEF PutRead, PCs, InPlace, Recalculating
  <2> QED
    BY <1>9, <2>1, MovesKeep DEF PutRead
<1>10. CASE PutWrite(a)
  BY <1>10, PutWriteKeeps
<1>11. CASE DeleteRead(a)
  <2>1. "dWrite" \in PCs /\ InPlace(req[a].op, "dWrite") /\ "dWrite" \notin Recalculating
    BY <1>0, <1>11 DEF DeleteRead, PCs, InPlace, Recalculating
  <2> QED
    BY <1>11, <2>1, MovesKeep DEF DeleteRead
<1>12. CASE DeleteWrite(a)
  BY <1>12, DeleteWriteKeeps
<1>13. CASE NotFound(a)
  BY <1>13, AgainKeeps DEF NotFound
<1>14. CASE RecalcSum(a)
  <2>1. "rWrite" \in PCs /\ InPlace(req[a].op, "rWrite") /\ "rSum" \in Recalculating
    BY DEF PCs, InPlace, Recalculating
  <2> QED
    BY <1>14, <2>1, MovesKeep DEF RecalcSum
<1>15. CASE RecalcWrite(a)
  <2>1. "log" \in PCs /\ InPlace(req[a].op, "log") /\ "rWrite" \in Recalculating
    BY DEF PCs, InPlace, Recalculating
  <2> QED
    BY <1>15, <2>1, MovesKeep DEF RecalcWrite
<1>16. CASE Answer(a)
  BY <1>16, AnswerKeeps
<1>17. CASE Fault(a)
  <2>1. CASE /\ pc[a] \in {"rSum", "rWrite"} /\ GoTo(a, "rSum")
             /\ UNCHANGED <<snap, sum, tries, req, lastOk, late>>
    <3>1. "rSum" \in PCs /\ InPlace(req[a].op, "rSum") /\ pc[a] \in Recalculating
      BY <2>1 DEF PCs, InPlace, Recalculating
    <3> QED
      BY <1>17, <2>1, <3>1, MovesKeep DEF Fault
  <2>2. CASE Again(a)
    BY <1>17, <2>2, AgainKeeps DEF Fault
  <2> QED
    BY <1>17, <2>1, <2>2 DEF Fault
<1> QED
  BY <1>1, <1>2, <1>3, <1>4, <1>5, <1>6, <1>7, <1>8, <1>9, <1>10, <1>11, <1>12, <1>13, <1>14,
     <1>15, <1>16, <1>17 DEF Step

LEMMA RowNext ==
  ASSUME RowInv, [Next]_vars PROVE RowInv'
<1>1. CASE Next
  BY <1>1, RowStep DEF Next
<1>2. CASE UNCHANGED vars
  BY <1>2 DEF vars, history, RowInv, RowKinds, RowsKept, Settling, Changing, Exists, OneWriter, Writes
<1> QED
  BY <1>1, <1>2

(* Steps that leave the rows, or take one away, write no status and settle *)
(* nothing.                                                                *)
LEMMA OtherSteps ==
  ASSUME RowKinds, NEW a \in Actors, Step(a)
  PROVE  Insert(a) \/ SettleWrite(a) \/ PutWrite(a) \/ Deletes(a)
  BY DEF Step, Arrive, SettleRead, SettleReject, SettleGone, PutCheck, PutReject, PutRead,
         DeleteRead, DeleteWrite, NotFound, RecalcSum, RecalcWrite, Answer, Fault, unread, asRead,
         Deletes

(* A row after a step of the program, and what a reader may rely on.       *)
LEMMA RowChange ==
  ASSUME RowInv, NEW a \in Actors, Step(a), NEW p \in Payments
  PROVE  \/ LateWrite(p)
         \/ /\ row[p].st \in {"paid", "cancelled"} => row'[p].st \in {row[p].st, "gone"}
            /\ row'[p].settled > row[p].settled => row'[p].settled <= row'[p].amt
<1>0. row \in [Payments -> Rows] /\ row[p].settled \in Nat
  BY DEF RowInv, RowKinds, Rows
<1>a. ASSUME a \in late, SettleWrite(a) \/ PutWrite(a), req[a].pay = p PROVE LateWrite(p)
  <2>1. pc[a] \in {"sWrite", "uWrite"} /\ pc' = [pc EXCEPT ![a] = "rSum"]
    BY <1>a DEF SettleWrite, PutWrite, GoTo
  <2>2. pc'[a] = "rSum"
    BY <2>1 DEF RowInv, RowKinds
  <2> QED
    BY <1>a, <2>1, <2>2 DEF LateWrite
<1>1. CASE Insert(a)
  <2>1. PICK q \in Payments :
          /\ row[q] = NoRow
          /\ row' = [row EXCEPT ![q] = [st |-> req[a].st, amt |-> req[a].amt, settled |-> 0]]
    BY <1>1 DEF Insert
  <2>2. CASE p = q
    BY <1>0, <2>1, <2>2 DEF NoRow
  <2>3. CASE p # q
    BY <1>0, <2>1, <2>3
  <2> QED
    BY <2>2, <2>3
<1>2. CASE SettleWrite(a)
  <2> DEFINE q == req[a].pay
  <2>1. /\ q \in Payments /\ row[q] \in Rows /\ req[a].amt \in Nat
        /\ a \notin late => row[q].settled + req[a].amt <= row[q].amt /\ row[q].st = "pending"
    BY <1>2, SettleWriteStep
  <2>2. PICK st \in {"pending", "paid"}, m \in Nat :
          /\ a \notin late => m = row[q].settled + req[a].amt
          /\ row' = [row EXCEPT ![q] = [row[q] EXCEPT !.settled = m, !.st = st]]
    BY <1>2, SettleWriteStep
  <2>3. CASE p = q /\ a \notin late
    <3>1. row'[p].settled = row[p].settled + req[a].amt /\ row'[p].amt = row[p].amt
      BY <1>0, <2>1, <2>2, <2>3 DEF Rows
    <3> QED
      BY <2>1, <2>3, <3>1
  <2>4. CASE p # q
    BY <1>0, <2>2, <2>4
  <2> QED
    BY <1>2, <1>a, <2>3, <2>4
<1>3. CASE PutWrite(a)
  <2> DEFINE q == req[a].pay
  <2>1. /\ q \in Payments /\ req[a].op = "put"
        /\ row'[p].settled = row[p].settled
        /\ row'[p] = row[p] \/ (p = q /\ Exists(q))
        /\ row'[q].st = IF Exists(q) /\ req[a].st # Keep THEN req[a].st ELSE row[q].st
    BY <1>3, PutWriteStep
  <2>2. a \notin late /\ req[a].st # Keep /\ Exists(q) => row[q].st \in {"pending", req[a].st}
    BY <1>3, <2>1 DEF PutWrite, RowInv, Changing
  <2>3. CASE p = q /\ a \notin late
    BY <1>0, <2>1, <2>2, <2>3
  <2>4. CASE p # q
    BY <1>0, <2>1, <2>4
  <2> QED
    BY <1>3, <1>a, <2>3, <2>4
<1>4. CASE Deletes(a)
  BY <1>0, <1>4 DEF Deletes, GoneRow
<1> QED
  BY <1>1, <1>2, <1>3, <1>4, OtherSteps DEF RowInv

(* With one actor that settles and changes payments, settlements that      *)
(* applyPartialSettlement has answered with success are in the settled     *)
(* amount, whatever is retried, changed or deleted.                        *)
THEOREM SettlementSafety ==
  ASSUME OneWriter PROVE Spec => []SettlementsNotLost
<1>1. RowInv => SettlementsNotLost
  BY DEF RowInv, RowsKept, SettlementsNotLost
<1>2. RowInv /\ [Next]_vars => RowInv'
  BY RowNext
<1> QED
  BY <1>1, <1>2, RowInit, PTL DEF Spec

(* "No return from paid or cancelled to pending", for any number of        *)
(* requests at a time: a payment that has left pending keeps its status    *)
(* until it is deleted, unless a request writes it that had read it before *)
(* another request wrote it (updatePartnerCommissionPayment and            *)
(* applyPartialSettlement, with the retries of executeWithRetry).          *)
THEOREM StatusSafety == Spec => StatusFinal
<1> DEFINE Final == \A p \in Payments :
             row[p].st \in {"paid", "cancelled"} => row'[p].st \in {row[p].st, "gone"} \/ LateWrite(p)
<1>1. RowInv /\ [Next]_vars => [Final]_vars
  BY RowChange DEF Next
<1>2. RowInv /\ [Next]_vars => RowInv'
  BY RowNext
<1>3. Spec => [][Final]_vars
  BY <1>1, <1>2, RowInit, PTL DEF Spec
<1> QED
  BY <1>3 DEF StatusFinal

(* A settlement that is retried does not count twice against what remains, *)
(* with the same exception (applyPartialSettlement).                       *)
THEOREM NeverOver == Spec => NeverOverSettled
<1> DEFINE Within == \A p \in Payments :
             row'[p].settled > row[p].settled => row'[p].settled <= row'[p].amt \/ LateWrite(p)
<1>1. RowInv /\ [Next]_vars => [Within]_vars
  BY RowChange DEF Next
<1>2. RowInv /\ [Next]_vars => RowInv'
  BY RowNext
<1>3. Spec => [][Within]_vars
  BY <1>1, <1>2, RowInit, PTL DEF Spec
<1> QED
  BY <1>3 DEF NeverOverSettled
-----------------------------------------------------------------------------
(***************************************************************************)
(* The sums over the payments.  Summed adds the values of a finite set in  *)
(* the order in which CHOOSE picks its elements, and the same order is     *)
(* used for every function; so two sums can be compared subset by subset.  *)
(***************************************************************************)
Summed(f, S) == FoldFunctionOnSet(+, 0, f, S)
PickOf(s) == CHOOSE x \in s : TRUE

\* What Summed computes, for all subsets of S.
Adds(g, f, S) ==
  /\ g \in [SUBSET S -> Nat] /\ g[{}] = 0
  /\ \A s \in SUBSET S : s # {} => PickOf(s) \in s /\ g[s] = f[PickOf(s)] + g[s \ {PickOf(s)}]

(* A set of naturals has a least element, and so has a set of finite sets. *)
LEMMA LeastNatural ==
  ASSUME NEW T \in SUBSET Nat, T # {}
  PROVE  \E n \in T : \A m \in T : n <= m
<1>1. PICK n \in T : \A m \in T : <<m, n>> \notin OpToRel(<, Nat)
  BY NatLessThanWellFounded, WFMin
<1>2. \A m \in T : ~(m < n)
  BY <1>1, Zenon DEF OpToRel
<1>3. QED
  BY <1>2

LEMMA LeastSubset ==
  ASSUME NEW S, IsFiniteSet(S), NEW T \in SUBSET SUBSET S, T # {}, {} \notin T
  PROVE  \E s \in T : s # {} /\ PickOf(s) \in s /\ s \ {PickOf(s)} \in (SUBSET S) \ T
<1> DEFINE N == {Cardinality(s) : s \in T}
<1>1. \A s \in SUBSET S : IsFiniteSet(s) /\ Cardinality(s) \in Nat
  BY FS_Subset, FS_CardinalityType
<1>2. N \in SUBSET Nat /\ N # {}
  BY <1>1
<1>3. PICK n \in N : \A m \in N : n <= m
  <2> HIDE DEF N
  <2>1. QED
    BY <1>2, LeastNatural
<1>4. PICK s \in T : Cardinality(s) = n
  BY <1>3
<1>5. s # {} /\ PickOf(s) \in s
  BY <1>4 DEF PickOf
<1>6. Cardinality(s \ {PickOf(s)}) = n - 1 /\ n \in Nat
  BY <1>1, <1>4, <1>5, FS_RemoveElement
<1>7. s \ {PickOf(s)} \notin T
  <2>1. ASSUME s \ {PickOf(s)} \in T PROVE FALSE
    <3>1. Cardinality(s \ {PickOf(s)}) \in N
      BY <2>1
    <3> HIDE DEF N
    <3>2. n <= Cardinality(s \ {PickOf(s)})
      BY <1>3, <3>1
    <3>3. QED
      BY <1>6, <3>2
  <2>2. QED
    BY <2>1
<1>8. QED
  BY <1>4, <1>5, <1>7

(* There is a function that computes the sums, by the size of the subsets. *)
LEMMA AddsExists ==
  ASSUME NEW S, IsFiniteSet(S), NEW f, \A x \in S : f[x] \in Nat
  PROVE  \E g : Adds(g, f, S)
<1> DEFINE D(n) == {s \in SUBSET S : Cardinality(s) <= n}
           Sums(g, n) == /\ g \in [D(n) -> Nat]
                         /\ \A s \in D(n) : g[s] = IF s = {} THEN 0
                                                   ELSE f[PickOf(s)] + g[s \ {PickOf(s)}]
           Good(n) == \E g : Sums(g, n)
           Bad == {n \in Nat : ~Good(n)}
<1>1. \A s \in SUBSET S : IsFiniteSet(s) /\ Cardinality(s) \in Nat
  BY FS_Subset, FS_CardinalityType
<1>2. \A s \in SUBSET S : s # {} =>
        /\ PickOf(s) \in s /\ PickOf(s) \in S /\ s \ {PickOf(s)} \in SUBSET S
        /\ Cardinality(s \ {PickOf(s)}) = Cardinality(s) - 1
  <2>1. \A s \in SUBSET S : s # {} => PickOf(s) \in s
    BY DEF PickOf
  <2>2. QED
    BY <1>1, <2>1, FS_RemoveElement
<1>3. Good(0)
  <2>1. \A s \in D(0) : s = {}
    BY <1>1, FS_EmptySet
  <2>2. Sums([s \in D(0) |-> 0], 0)
    BY <2>1
  <2>3. QED
    BY <2>2
<1>4. ASSUME NEW n \in Nat, Good(n) PROVE Good(n + 1)
  <2>1. PICK g : Sums(g, n)
    BY <1>4
  <2> DEFINE h == [s \in D(n + 1) |-> IF s \in D(n) THEN g[s] ELSE f[PickOf(s)] + g[s \ {PickOf(s)}]]
  <2>2. ASSUME NEW s \in D(n + 1)
        PROVE  h[s] \in Nat /\ h[s] = IF s = {} THEN 0 ELSE f[PickOf(s)] + h[s \ {PickOf(s)}]
    <3>1. CASE s = {}
      BY <1>1, <2>1, <3>1, FS_EmptySet
    <3>2. CASE s # {}
      <4>1. s \ {PickOf(s)} \in D(n) /\ s \ {PickOf(s)} \in D(n + 1) /\ PickOf(s) \in S
        BY <1>1, <1>2, <3>2
      <4>2. h[s \ {PickOf(s)}] = g[s \ {PickOf(s)}] /\ g[s \ {PickOf(s)}] \in Nat /\ f[PickOf(s)] \in Nat
        BY <2>1, <4>1
      <4>3. h[s] = f[PickOf(s)] + g[s \ {PickOf(s)}]
        BY <2>1, <3>2
      <4>4. QED
        BY <3>2, <4>2, <4>3
    <3>3. QED
      BY <3>1, <3>2
  <2>3. h \in [D(n + 1) -> Nat]
    BY <2>2
  <2>4. Sums(h, n + 1)
    BY <2>2, <2>3
  <2>5. QED
    BY <2>4
<1>5. \A n \in Nat : Good(n)
  <2> HIDE DEF Good
  <2> SUFFICES ASSUME Bad # {} PROVE FALSE
    OBVIOUS
  <2>1. PICK n \in Bad : \A m \in Bad : n <= m
    BY LeastNatural
  <2>2. n # 0
    BY <1>3, <2>1
  <2>3. n - 1 \in Nat /\ n - 1 \notin Bad
    BY <2>1, <2>2
  <2>4. QED
    BY <1>4, <2>3
<1>6. D(Cardinality(S)) = SUBSET S
  BY <1>1, FS_Subset, FS_CardinalityType
<1>7. PICK g : Sums(g, Cardinality(S))
  BY <1>1, <1>5
<1>8. g \in [SUBSET S -> Nat] /\ \A s \in SUBSET S : g[s] = IF s = {} THEN 0
                                                              ELSE f[PickOf(s)] + g[s \ {PickOf(s)}]
  <2> HIDE DEF D
  <2>1. QED
    BY <1>6, <1>7
<1>9. QED
  BY <1>2, <1>8 DEF Adds

(* Summed is such a function.                                             *)
LEMMA SumAdds ==
  ASSUME NEW S, IsFiniteSet(S), NEW f, \A x \in S : f[x] \in Nat
  PROVE  \E g : Adds(g, f, S) /\ Summed(f, S) = g[S]
<1> DEFINE Rec(g) == g = [s \in SUBSET S |->
                            IF s = {} THEN 0
                            ELSE f[CHOOSE x \in s : TRUE] + g[s \ {CHOOSE x \in s : TRUE}]]
           G == CHOOSE g : Rec(g)
           Bad == {s \in SUBSET S : G[s] \notin Nat}
<1>1. PICK g : Adds(g, f, S)
  BY AddsExists
<1>2. Rec(g)
  <2>1. \A s \in SUBSET S : g[s] = IF s = {} THEN 0
          ELSE f[CHOOSE x \in s : TRUE] + g[s \ {CHOOSE x \in s : TRUE}]
    BY <1>1 DEF Adds, PickOf
  <2>2. g = [s \in SUBSET S |-> g[s]]
    BY <1>1 DEF Adds
  <2>3. QED
    BY <2>1, <2>2
<1>3. Summed(f, S) = G[S]
  BY DEF Summed, FoldFunctionOnSet, MapThenFoldSet
<1>4. Rec(G)
  <2> HIDE DEF Rec
  <2>1. QED
    BY <1>2
<1>5. /\ G[{}] = 0
      /\ \A s \in SUBSET S : s # {} => PickOf(s) \in s /\ G[s] = f[PickOf(s)] + G[s \ {PickOf(s)}]
      /\ DOMAIN G = SUBSET S /\ G = [s \in SUBSET S |-> G[s]]
  BY <1>4 DEF PickOf
<1> HIDE DEF G
<1>6. \A s \in SUBSET S : G[s] \in Nat
  <2>1. ASSUME Bad # {} PROVE FALSE
    <3>1. Bad \in SUBSET SUBSET S /\ {} \notin Bad
      BY <1>5
    <3>2. PICK s \in Bad : s # {} /\ PickOf(s) \in s /\ s \ {PickOf(s)} \in (SUBSET S) \ Bad
      <4> HIDE DEF Bad
      <4>1. QED
        BY <2>1, <3>1, LeastSubset
    <3>3. G[s] = f[PickOf(s)] + G[s \ {PickOf(s)}] /\ G[s \ {PickOf(s)}] \in Nat
      BY <1>5, <3>2
    <3>4. QED
      BY <3>2, <3>3
  <2>2. QED
    BY <2>1
<1>7. Adds(G, f, S)
  BY <1>5, <1>6 DEF Adds
<1>8. QED
  BY <1>3, <1>7

(* A sum of naturals is a natural.                                         *)
LEMMA SumType ==
  ASSUME NEW S, IsFiniteSet(S), NEW f, \A x \in S : f[x] \in Nat
  PROVE  Summed(f, S) \in Nat
<1>1. PICK g : Adds(g, f, S) /\ Summed(f, S) = g[S]
  BY SumAdds
<1>2. QED
  BY <1>1 DEF Adds
-----------------------------------------------------------------------------
(* The types: a request stands at a statement of its operation, so that it *)
(* has the fields which the statement uses.                                *)
Placed == \A a \in Actors : pc[a] # "idle" => InPlace(req[a].op, pc[a])
TypeInv == TypeOK /\ Placed

(* The sum of the rows that are there.                                     *)
LEMMA SumOfType ==
  ASSUME NEW t, t \in [Payments -> Rows] PROVE SumOf(t) \in Nat
<1> DEFINE f == [p \in Payments |-> t[p].amt]
           S == {p \in Payments : t[p].st \in Statuses}
<1>1. IsFiniteSet(S)
  BY SettlementAssumption, FS_Subset
<1>2. \A p \in S : f[p] \in Nat
  BY DEF Rows
<1>3. SumOf(t) = Summed(f, S)
  BY DEF SumOf, Summed
<1> HIDE DEF f, S
<1>4. QED
  BY <1>1, <1>2, <1>3, SumType

LEMMA TypeInit ==
  ASSUME Init PROVE TypeInv
<1>1. NoRow \in Rows /\ [op |-> "recalc"] \in Requests /\ "idle" \in PCs
  BY DEF NoRow, Rows, Requests, PCs
<1>2. 0 \in 0..MaxTries /\ 0 \in 0..MaxRequests
  BY SettlementAssumption
<1>3. TypeOK
  BY <1>1, <1>2 DEF Init, TypeOK
<1>4. Placed
  BY DEF Init, Placed
<1> QED
  BY <1>3, <1>4 DEF TypeInv

(* The end of a request.                                                   *)
LEMMA RestTypes ==
  ASSUME TypeInv, NEW a \in Actors, NEW ok \in BOOLEAN, Rest(a, ok), row' \in [Payments -> Rows],
         total' = total, acked' \in [Payments -> Nat], UNCHANGED <<alone, overwritten, requests>>
  PROVE  TypeInv'
<1>1. NoRow \in Rows /\ [op |-> "recalc"] \in Requests /\ "idle" \in PCs /\ 0 \in 0..MaxTries
  BY SettlementAssumption DEF NoRow, Rows, Requests, PCs
<1>2. lastOk' \in BOOLEAN
  BY DEF Rest, TypeInv, TypeOK
<1>3. TypeOK'
  BY <1>1, <1>2 DEF Rest, GoTo, TypeInv, TypeOK
<1>4. Placed'
  BY DEF Rest, GoTo, TypeInv, TypeOK, Placed
<1> QED
  BY <1>3, <1>4 DEF TypeInv

(* The next statement of a request, which keeps what it has counted.       *)
LEMMA GoTypes ==
  ASSUME TypeInv, NEW a \in Actors, NEW s \in PCs, GoTo(a, s), InPlace(req[a].op, s),
         UNCHANGED <<req, tries, lastOk, alone, acked, requests>>, inner' \in [Actors -> 0..MaxTries],
         late' \subseteq Actors, overwritten' \subseteq Payments,
         row' \in [Payments -> Rows], total' \in Nat, snap' \in [Actors -> Rows], sum' \in [Actors -> Nat]
  PROVE  TypeInv'
<1>1. TypeOK'
  BY DEF GoTo, TypeInv, TypeOK
<1>2. Placed'
  BY DEF GoTo, TypeInv, TypeOK, Placed
<1> QED
  BY <1>1, <1>2 DEF TypeInv

(* Another attempt, or the end of the request.                             *)
LEMMA AgainTypes ==
  ASSUME TypeInv, NEW a \in Actors, Again(a), UNCHANGED <<row, total, counted>>
  PROVE  TypeInv'
<1>1. CASE /\ tries[a] < MaxTries /\ GoTo(a, Entry(req[a]))
           /\ tries' = [tries EXCEPT ![a] = @ + 1] /\ inner' = [inner EXCEPT ![a] = 1]
           /\ UNCHANGED <<req, snap, sum, lastOk, late>>
  <2>1. req[a] \in Requests /\ tries[a] + 1 \in 0..MaxTries /\ 1 \in 0..MaxTries
    BY <1>1, SettlementAssumption DEF TypeInv, TypeOK
  <2>2. Entry(req[a]) \in PCs /\ InPlace(req[a].op, Entry(req[a]))
    BY <2>1, EntryOf
  <2>3. TypeOK'
    BY <1>1, <2>1, <2>2 DEF GoTo, TypeInv, TypeOK, counted
  <2>4. Placed'
    BY <1>1, <2>2 DEF GoTo, TypeInv, TypeOK, Placed
  <2> QED
    BY <2>3, <2>4 DEF TypeInv
<1>2. CASE Rest(a, FALSE)
  BY <1>2, RestTypes DEF TypeInv, TypeOK, counted
<1> QED
  BY <1>1, <1>2 DEF Again

LEMMA ArriveTypes ==
  ASSUME TypeInv, NEW a \in Actors, Arrive(a) PROVE TypeInv'
<1>1. PICK r \in Requests :
        /\ req' = [req EXCEPT ![a] = r]
        /\ GoTo(a, IF r.op = "put" /\ r.st # Keep THEN "uCheck" ELSE Entry(r))
  BY DEF Arrive
<1>2. PICK s \in PCs : pc' = [pc EXCEPT ![a] = s] /\ InPlace(r.op, s)
  <2>1. CASE r.op = "put" /\ r.st # Keep
    BY <1>1, <2>1 DEF GoTo, InPlace, PCs
  <2>2. CASE ~(r.op = "put" /\ r.st # Keep)
    BY <1>1, <2>2, EntryOf DEF GoTo
  <2> QED
    BY <2>1, <2>2
<1>3. /\ tries' = [tries EXCEPT ![a] = 1] /\ inner' = [inner EXCEPT ![a] = 1]
      /\ UNCHANGED <<row, total, snap, sum, acked, lastOk, late, overwritten>>
      /\ requests < MaxRequests /\ requests' = requests + 1
      /\ alone' = [b \in Actors |-> \A c \in Actors \ {b} : pc[c] = "idle" /\ c # a]
  BY DEF Arrive
<1>4. 1 \in 0..MaxTries /\ requests' \in 0..MaxRequests
  BY <1>3, SettlementAssumption DEF TypeInv, TypeOK
<1>5. alone' \in [Actors -> BOOLEAN]
  BY <1>3
<1>6. TypeOK'
  BY <1>1, <1>2, <1>3, <1>4, <1>5 DEF TypeInv, TypeOK
<1>7. Placed'
  BY <1>1, <1>2 DEF TypeInv, TypeOK, Placed
<1> QED
  BY <1>6, <1>7 DEF TypeInv

(* The rows that the statements write.                                     *)
LEMMA WriteTypes ==
  ASSUME TypeInv, NEW a \in Actors, Insert(a) \/ SettleWrite(a) \/ PutWrite(a) \/ DeleteWrite(a)
  PROVE  /\ row' \in [Payments -> Rows] /\ pc[a] # "idle"
         /\ late' \subseteq Actors /\ overwritten' \subseteq Payments
<1>1. /\ row \in [Payments -> Rows] /\ req[a] \in Requests /\ snap[a] \in Rows
      /\ pc[a] # "idle" => InPlace(req[a].op, pc[a])
  BY DEF TypeInv, TypeOK, Placed
<1>2. CASE Insert(a)
  <2>1. req[a].op = "create"
    BY <1>1, <1>2 DEF Insert, InPlace
  <2>2. [st |-> req[a].st, amt |-> req[a].amt, settled |-> 0] \in Rows
    BY <1>1, <2>1, RequestFields DEF Rows
  <2> QED
    BY <1>1, <1>2, <2>2 DEF Insert, unread, TypeInv, TypeOK
<1>3. CASE SettleWrite(a)
  <2> DEFINE z == [snap[a] EXCEPT !.settled = @ + req[a].amt]
  <2>1. req[a].op = "settle"
    BY <1>1, <1>3 DEF SettleWrite, InPlace
  <2>2. req[a].pay \in Payments /\ req[a].amt \in Nat
    BY <1>1, <2>1, RequestFields
  <2>3. z \in [st : Statuses \cup {"none", "gone"}, amt : Nat, settled : Nat]
    BY <1>1, <2>2 DEF Rows
  <2>4. Settled(a) \in Rows
    <3>1. Settled(a) = IF Remaining(z) = 0 THEN [z EXCEPT !.st = "paid"] ELSE z
      BY DEF Settled
    <3> HIDE DEF z
    <3>2. [z EXCEPT !.st = "paid"] \in Rows
      BY <2>3 DEF Rows, Statuses
    <3> QED
      BY <2>3, <3>1, <3>2 DEF Rows
  <2>5. PICK st \in Statuses \cup {"none", "gone"}, m \in Nat :
          Settled(a).st = st /\ Settled(a).settled = m
    BY <2>4 DEF Rows
  <2>6. row' = [row EXCEPT ![req[a].pay] = [row[req[a].pay] EXCEPT !.settled = m, !.st = st]]
    BY <1>1, <1>3, <2>2, <2>5 DEF SettleWrite, Rows
  <2>7. [row[req[a].pay] EXCEPT !.settled = m, !.st = st] \in Rows
    BY <1>1, <2>2 DEF Rows
  <2> QED
    BY <1>1, <1>3, <2>2, <2>6, <2>7 DEF SettleWrite, Overtake, TypeInv, TypeOK
<1>4. CASE PutWrite(a)
  <2> DEFINE p == req[a].pay
  <2>1. req[a].op = "put"
    BY <1>1, <1>4 DEF PutWrite, InPlace
  <2>2. p \in Payments /\ req[a].amt \in Nat /\ req[a].st \in Statuses \cup {Keep}
    BY <1>1, <2>1, RequestFields
  <2>3. PICK n \in Nat, st \in Statuses \cup {"none", "gone"} :
          /\ n = IF req[a].amt = 0 THEN row[p].amt ELSE req[a].amt
          /\ st = IF req[a].st = Keep THEN row[p].st ELSE req[a].st
    BY <1>1, <2>2 DEF Rows
  <2>4. row' = row \/ row' = [row EXCEPT ![p] = [row[p] EXCEPT !.amt = n, !.st = st]]
    BY <1>1, <1>4, <2>2, <2>3 DEF PutWrite, Rows
  <2>5. [row[p] EXCEPT !.amt = n, !.st = st] \in Rows
    BY <1>1, <2>2 DEF Rows
  <2> QED
    BY <1>1, <1>4, <2>4, <2>5 DEF PutWrite, Overtake, TypeInv, TypeOK
<1>5. CASE DeleteWrite(a)
  <2>1. GoneRow \in Rows
    BY DEF GoneRow, Rows
  <2> QED
    BY <1>1, <1>5, <2>1 DEF DeleteWrite, unread, TypeInv, TypeOK
<1> QED
  BY <1>2, <1>3, <1>4, <1>5

LEMMA TypeStep ==
  ASSUME TypeInv, NEW a \in Actors, Step(a) PROVE TypeInv'
<1> USE DEF history, unread, asRead, counted
<1>0. /\ row \in [Payments -> Rows] /\ total \in Nat /\ snap \in [Actors -> Rows]
      /\ sum \in [Actors -> Nat] /\ inner \in [Actors -> 0..MaxTries]
      /\ acked \in [Payments -> Nat] /\ req[a] \in Requests
      /\ pc[a] # "idle" => InPlace(req[a].op, pc[a])
      /\ late \subseteq Actors /\ overwritten \subseteq Payments
  BY DEF TypeInv, TypeOK, Placed
<1>1. CASE Arrive(a)
  BY <1>1, ArriveTypes
<1>2. CASE Insert(a) \/ SettleWrite(a) \/ PutWrite(a) \/ DeleteWrite(a)
  <2>1. row' \in [Payments -> Rows] /\ late' \subseteq Actors /\ overwritten' \subseteq Payments
    BY <1>2, WriteTypes
  <2>2. "rSum" \in PCs /\ InPlace(req[a].op, "rSum")
    BY DEF PCs, InPlace
  <2>3. GoTo(a, "rSum") /\ UNCHANGED <<total, asRead>>
    BY <1>2 DEF Insert, SettleWrite, PutWrite, DeleteWrite
  <2> QED
    BY <1>0, <2>1, <2>2, <2>3, GoTypes
<1>3. CASE SettleRead(a)
  <2>1. req[a].op = "settle"
    BY <1>0, <1>3 DEF SettleRead, InPlace
  <2>2. row[req[a].pay] \in Rows
    BY <1>0, <2>1, RequestFields
  <2>3. "sWrite" \in PCs /\ InPlace(req[a].op, "sWrite")
    BY <2>1 DEF PCs, InPlace
  <2>4. snap' \in [Actors -> Rows]
    BY <1>0, <1>3, <2>2 DEF SettleRead
  <2> QED
    BY <1>0, <1>3, <2>3, <2>4, GoTypes DEF SettleRead
<1>4. CASE SettleReject(a) \/ SettleGone(a) \/ NotFound(a)
  BY <1>4, AgainTypes DEF SettleReject, SettleGone, NotFound
<1>5. CASE PutCheck(a) \/ PutRead(a) \/ DeleteRead(a)
  <2>1. PICK s \in PCs : GoTo(a, s) /\ InPlace(req[a].op, s)
    BY <1>0, <1>5 DEF PutCheck, PutRead, DeleteRead, PCs, InPlace
  <2>2. /\ UNCHANGED <<row, total, asRead, overwritten>> /\ late' \subseteq late
    BY <1>5 DEF PutCheck, PutRead, DeleteRead
  <2> QED
    BY <1>0, <2>1, <2>2, GoTypes
<1>6. CASE PutReject(a)
  BY <1>0, <1>6, RestTypes DEF PutReject
<1>7. CASE RecalcSum(a)
  <2>1. sum' \in [Actors -> Nat]
    BY <1>0, <1>7, SumOfType DEF RecalcSum, SumOfAmounts
  <2>2. "rWrite" \in PCs /\ InPlace(req[a].op, "rWrite")
    BY DEF PCs, InPlace
  <2> QED
    BY <1>0, <1>7, <2>1, <2>2, GoTypes DEF RecalcSum
<1>8. CASE RecalcWrite(a)
  <2>1. "log" \in PCs /\ InPlace(req[a].op, "log") /\ sum[a] \in Nat
    BY <1>0 DEF PCs, InPlace
  <2> QED
    BY <1>0, <1>8, <2>1, GoTypes DEF RecalcWrite
<1>9. CASE Answer(a)
  <2>1. acked' \in [Payments -> Nat]
    <3>1. CASE req[a].op = "settle"
      <4>1. req[a].pay \in Payments /\ req[a].amt \in Nat
        BY <1>0, <3>1, RequestFields
      <4>2. acked[req[a].pay] + req[a].amt \in Nat
        BY <1>0, <4>1
      <4> QED
        BY <1>0, <1>9, <3>1, <4>2 DEF Answer
    <3> QED
      BY <1>0, <1>9, <3>1 DEF Answer
  <2> QED
    BY <1>0, <1>9, <2>1, RestTypes DEF Answer
<1>10. CASE Fault(a)
  <2>1. CASE /\ inner[a] < MaxTries /\ inner' = [inner EXCEPT ![a] = @ + 1] /\ GoTo(a, "rSum")
             /\ UNCHANGED <<snap, sum, tries, req, lastOk, late>>
    <3>1. "rSum" \in PCs /\ InPlace(req[a].op, "rSum")
      BY DEF PCs, InPlace
    <3>2. inner' \in [Actors -> 0..MaxTries]
      BY <1>0, <2>1, SettlementAssumption
    <3> QED
      BY <1>0, <1>10, <2>1, <3>1, <3>2, GoTypes DEF Fault
  <2>2. CASE Again(a)
    BY <1>10, <2>2, AgainTypes DEF Fault
  <2> QED
    BY <1>10, <2>1, <2>2 DEF Fault
<1> QED
  BY <1>1, <1>2, <1>3, <1>4, <1>5, <1>6, <1>7, <1>8, <1>9, <1>10 DEF Step

(* Type correctness of the commission payments and of the requests that    *)
(* create, change, delete and settle them: in particular every stored and  *)
(* every computed total is a number, and no attempt goes beyond maxRetries *)
(* (executeWithRetry, recalculateSalesPartnerFinancials).                  *)
THEOREM SettlementTypes == Spec => []TypeOK
<1>1. TypeInv /\ [Next]_vars => TypeInv'
  <2>1. ASSUME TypeInv, Next PROVE TypeInv'
    BY <2>1, TypeStep DEF Next
  <2>2. ASSUME TypeInv, UNCHANGED vars PROVE TypeInv'
    BY <2>2 DEF vars, history, TypeInv, TypeOK, Placed
  <2> QED
    BY <2>1, <2>2
<1>2. TypeInv => TypeOK
  BY DEF TypeInv
<1> QED
  BY <1>1, <1>2, TypeInit, PTL DEF Spec
=============================================================================
