--------------------------- MODULE InvoiceProofs ----------------------------
(***************************************************************************)
(* Theorems about LedgerBackfill, and so about the requests of             *)
(* InvoiceLifecycle and PaymentRecords: the status and the debt that an    *)
(* undisturbed request leaves, for any invoices, payments, amounts, due    *)
(* dates, faults and numbers of requests, in progress or in all.           *)
(* What matters for them of the sums over the ledger (AllocatedIn, SalesIn,*)
(* PaidIn) is when they are taken and of which tables; the sums themselves *)
(* are looked into for the types and for AllocatedWithinPayment.           *)
(***************************************************************************)
EXTENDS LedgerBackfill, FiniteSetTheorems, NaturalsInduction, WellFoundedInduction, TLAPS

StatusOps == {"edit", "recalc", "attach"}
DebtOps == {"create", "edit", "pay", "repay", "unpay", "allocate"}

\* The shape of what the proofs look into.
Kinds ==
  /\ DOMAIN row = Invoices
  /\ \A i \in Invoices : DOMAIN row[i] = {"is", "amt", "st"}
  /\ DOMAIN got = Actors
  /\ \A a \in Actors : DOMAIN got[a] = {"amt", "st", "alloc", "sales"}
  /\ DOMAIN pc = Actors /\ DOMAIN req = Actors
  /\ clean \in [Actors -> BOOLEAN]

\* Which requests reach a statement.
InPlace(op, s) ==
  /\ s = "cInsert" => op = "create"
  /\ s \in {"eGet", "eUpdate"} => op = "edit"
  /\ s \in {"pGet", "pUpdate"} => op = "put"
  /\ s = "dGet" => op = "delete"
  /\ s = "rGet" => op = "recalc"
  /\ s \in {"kAmt", "kAlloc", "kWrite", "kDefault"} => op \in StatusOps
  /\ s \in {"nResolve", "nInsert"} => op = "pay"
  /\ s \in {"aRead", "aInsert", "aFlag"} => op \in {"pay", "allocate"}
  /\ s = "uUpdate" => op = "repay"
  /\ s \in {"uFind", "uDelete"} => op = "unpay"
  /\ s \in {"lLink", "lRead", "lWrite"} => op \in {"link", "attach"}
  /\ s \in {"ySales", "yPaid", "yWrite"} => op \in DebtOps \cup {"put", "delete"}

\* Two requests at a time are not undisturbed.
Alone ==
  \A a \in Actors : clean[a] =>
    pc[a] # "idle" /\ \A b \in Actors \ {a} : pc[b] = "idle"

StatusRight(i) == Live(i) => row[i].st = Coverage(i, row[i].amt, AllocatedTo(i))
DebtRight == debt = Debt(Sales, Paid)

\* What an undisturbed request has read is so, and what it has written is right.
StatusKnown(a) ==
  /\ pc[a] # "kDefault"
  /\ (pc[a] \in {"kAmt", "kAlloc", "kWrite"} /\ req[a].op # "attach" /\ Live(req[a].inv)) =>
       got[a].st = row[req[a].inv].st
  /\ pc[a] \in {"kAlloc", "kWrite"} =>
       Live(req[a].inv) /\ got[a].amt = row[req[a].inv].amt
  /\ pc[a] = "kWrite" => got[a].alloc = AllocatedTo(req[a].inv)
  /\ (req[a].op \in StatusOps /\ pc[a] \in {"ySales", "yPaid", "yWrite", "done"}) =>
       StatusRight(req[a].inv)

DebtKnown(a) ==
  req[a].op \in DebtOps =>
    /\ pc[a] \in {"yPaid", "yWrite"} => got[a].sales = Sales
    /\ pc[a] = "yWrite" => got[a].alloc = Paid
    /\ pc[a] = "done" => DebtRight

Known == \A a \in Actors : clean[a] => StatusKnown(a) /\ DebtKnown(a)

\* The request that ended last, while no other has begun.
LastRight ==
  /\ last # NoRequest => \A a \in Actors : pc[a] = "idle"
  /\ last.op \in StatusOps => StatusRight(last.inv)
  /\ last.op \in DebtOps => DebtRight

InvoiceInv ==
  /\ Kinds /\ Alone /\ Known /\ LastRight
  /\ \A a \in Actors : InPlace(req[a].op, pc[a])
-----------------------------------------------------------------------------
(* The kinds of steps. *)

\* While a request is in progress, no other one is undisturbed, and none has just ended.
LEMMA InProgress ==
  ASSUME InvoiceInv, NEW a \in Actors, pc[a] # "idle"
  PROVE  last = NoRequest /\ \A b \in Actors \ {a} : ~clean[b]
BY DEF InvoiceInv, Alone, LastRight

\* The next statement of a request, by what the request knows after it.
LEMMA Moves ==
  ASSUME InvoiceInv, NEW a \in Actors, pc[a] # "idle", NEW s, s # "idle",
         GoTo(a, s), InPlace(req[a].op, s), req' = req, last' = last,
         Kinds', \A b \in Actors : clean'[b] => clean[b],
         clean'[a] => StatusKnown(a)' /\ DebtKnown(a)'
  PROVE  InvoiceInv'
<1>1. last = NoRequest /\ \A b \in Actors \ {a} : ~clean[b]
  BY InProgress
<1>2. Kinds /\ \A b \in Actors : InPlace(req[b].op, pc[b])
  BY DEF InvoiceInv
<1>3. /\ pc'[a] = s
      /\ \A b \in Actors \ {a} : pc'[b] = pc[b]
  BY <1>2 DEF GoTo, Kinds
<1>4. Alone'
  <2>1. ASSUME NEW b \in Actors, clean'[b]
        PROVE  pc'[b] # "idle" /\ \A c \in Actors \ {b} : pc'[c] = "idle"
    <3>1. b = a /\ clean[a]
      BY <2>1, <1>1
    <3>2. \A c \in Actors \ {a} : pc[c] = "idle"
      BY <3>1 DEF InvoiceInv, Alone
    <3> QED
      BY <3>1, <3>2, <1>3
  <2> QED
    BY <2>1 DEF Alone
<1>5. Known'
  BY <1>1 DEF Known
<1>6. LastRight'
  BY <1>1 DEF LastRight, NoRequest, StatusOps, DebtOps
<1>7. ASSUME NEW b \in Actors PROVE InPlace(req'[b].op, pc'[b])
  BY <1>2, <1>3
<1> QED
  BY <1>4, <1>5, <1>6, <1>7 DEF InvoiceInv

\* The response.
LEMMA Responds ==
  ASSUME InvoiceInv, NEW a \in Actors, pc[a] # "idle", NEW ok \in BOOLEAN,
         Respond(a, ok), UNCHANGED tables, ok => pc[a] = "done"
  PROVE  InvoiceInv'
<1>1. last = NoRequest /\ \A b \in Actors \ {a} : ~clean[b]
  BY InProgress
<1>2. Kinds /\ \A b \in Actors : InPlace(req[b].op, pc[b])
  BY DEF InvoiceInv
<1>3. Kinds'
  BY <1>2 DEF Kinds, Respond, GoTo, tables, NoData
<1>4. \A b \in Actors : ~clean'[b]
  BY <1>1, <1>2 DEF Respond, Kinds
<1>5. Alone' /\ Known'
  BY <1>4 DEF Alone, Known
<1>6. /\ pc'[a] = "idle" /\ req'[a] = NoRequest
      /\ \A b \in Actors \ {a} : pc'[b] = pc[b] /\ req'[b] = req[b]
  BY <1>2 DEF Respond, GoTo, Kinds
<1>7. ASSUME NEW b \in Actors PROVE InPlace(req'[b].op, pc'[b])
  BY <1>2, <1>6 DEF InPlace
<1>8. LastRight'
  <2>1. CASE ok /\ clean[a]
    <3>1. PICK r : r = req[a]
      OBVIOUS
    <3>2. last' = r /\ pc[a] = "done"
      BY <2>1, <3>1 DEF Respond
    <3>3. \A b \in Actors : pc'[b] = "idle"
      BY <2>1, <1>6 DEF InvoiceInv, Alone
    <3>4. StatusKnown(a) /\ DebtKnown(a)
      BY <2>1 DEF InvoiceInv, Known
    <3>5. (r.op \in StatusOps => StatusRight(r.inv)) /\ (r.op \in DebtOps => DebtRight)
      BY <3>1, <3>2, <3>4 DEF StatusKnown, DebtKnown
    <3>6. (r.op \in StatusOps => StatusRight(r.inv)') /\ (r.op \in DebtOps => DebtRight')
      BY <3>5 DEF StatusRight, DebtRight, Live, AllocatedTo, Sales, Paid, tables
    <3> QED
      BY <3>2, <3>3, <3>6 DEF LastRight, StatusRight, Live, AllocatedTo
  <2>2. CASE ~(ok /\ clean[a])
    <3>1. last' = NoRequest
      BY <2>2 DEF Respond
    <3> QED
      BY <3>1 DEF LastRight, NoRequest, StatusOps, DebtOps
  <2> QED
    BY <2>1, <2>2
<1> QED
  BY <1>3, <1>5, <1>7, <1>8 DEF InvoiceInv

\* Statements of which nothing has to be known yet.
Quiet(op, s) ==
  /\ s \notin {"idle", "kAlloc", "kWrite", "kDefault", "yPaid", "yWrite"}
  /\ s = "kAmt" => op = "attach"
  /\ s \in {"ySales", "done"} => op \notin StatusOps
  /\ s = "done" => op \notin DebtOps

LEMMA QuietMoves ==
  ASSUME InvoiceInv, NEW a \in Actors, pc[a] # "idle", NEW s,
         GoTo(a, s), InPlace(req[a].op, s), Quiet(req[a].op, s), req' = req, last' = last,
         Kinds', \A b \in Actors : clean'[b] => clean[b]
  PROVE  InvoiceInv'
<1>1. pc'[a] = s /\ req'[a] = req[a]
  BY DEF GoTo, InvoiceInv, Kinds
<1>2. StatusKnown(a)'
  BY <1>1 DEF StatusKnown, Quiet
<1>3. DebtKnown(a)'
  BY <1>1 DEF DebtKnown, Quiet
<1> QED
  BY <1>2, <1>3, Moves DEF Quiet

\* A request that failed half way and goes on, or that was disturbed.
LEMMA DisturbedMoves ==
  ASSUME InvoiceInv, NEW a \in Actors, pc[a] # "idle", NEW s, s # "idle",
         GoTo(a, s), InPlace(req[a].op, s), req' = req, last' = last,
         Kinds', clean' = [clean EXCEPT ![a] = FALSE]
  PROVE  InvoiceInv'
<1>1. ~clean'[a] /\ \A b \in Actors : clean'[b] => clean[b]
  BY DEF InvoiceInv, Kinds
<1> QED
  BY <1>1, Moves
-----------------------------------------------------------------------------
(* The arrival of a request, and the requests about invoices. *)

LEMMA Arrives ==
  ASSUME InvoiceInv, NEW a \in Actors, NEW r, NEW first, NEW n,
         Arrive(a, r, first, n), InPlace(r.op, first), Quiet(r.op, first)
  PROVE  InvoiceInv'
<1>1. Kinds /\ \A b \in Actors : InPlace(req[b].op, pc[b])
  BY DEF InvoiceInv
<1>2. Kinds'
  BY <1>1 DEF Kinds, Arrive, GoTo, tables
<1>3. /\ pc'[a] = first /\ req'[a] = r /\ last' = NoRequest
      /\ \A b \in Actors \ {a} : pc'[b] = pc[b] /\ req'[b] = req[b]
  BY <1>1 DEF Arrive, GoTo, Kinds
<1>4. \A b \in Actors : clean'[b] => b = a /\ \A c \in Actors \ {a} : pc[c] = "idle"
  BY DEF Arrive
<1>5. Alone'
  BY <1>3, <1>4 DEF Alone, Quiet
<1>6. StatusKnown(a)' /\ DebtKnown(a)'
  BY <1>3 DEF StatusKnown, DebtKnown, Quiet
<1>7. Known'
  BY <1>4, <1>6 DEF Known
<1>8. LastRight'
  BY <1>3 DEF LastRight, NoRequest, StatusOps, DebtOps
<1>9. ASSUME NEW b \in Actors PROVE InPlace(req'[b].op, pc'[b])
  BY <1>1, <1>3
<1> QED
  BY <1>2, <1>5, <1>7, <1>8, <1>9 DEF InvoiceInv

\* What a request keeps of its readings has one shape, and so has an invoice.
LEMMA Shapes ==
  ASSUME Kinds, NEW a \in Actors
  PROVE  /\ Forget(a) => DOMAIN got' = Actors /\ got'[a] = NoData
                          /\ \A b \in Actors : DOMAIN got'[b] = {"amt", "st", "alloc", "sales"}
         /\ \A i \in Invoices : \A s : row' = [row EXCEPT ![i].st = s] =>
              /\ DOMAIN row' = Invoices /\ \A j \in Invoices : DOMAIN row'[j] = {"is", "amt", "st"}
              /\ row'[i].st = s /\ row'[i].amt = row[i].amt /\ row'[i].is = row[i].is
         /\ \A i \in Invoices : \A n : row' = [row EXCEPT ![i].amt = n] =>
              /\ DOMAIN row' = Invoices /\ \A j \in Invoices : DOMAIN row'[j] = {"is", "amt", "st"}
              /\ row'[i].st = row[i].st /\ row'[i].amt = n /\ row'[i].is = row[i].is
<1>1. Forget(a) => DOMAIN got' = Actors /\ got'[a] = NoData
                   /\ \A b \in Actors : DOMAIN got'[b] = {"amt", "st", "alloc", "sales"}
  BY DEF Kinds, Forget, NoData
<1>2. ASSUME NEW i \in Invoices, NEW s, row' = [row EXCEPT ![i].st = s]
      PROVE  /\ DOMAIN row' = Invoices /\ \A j \in Invoices : DOMAIN row'[j] = {"is", "amt", "st"}
             /\ row'[i].st = s /\ row'[i].amt = row[i].amt /\ row'[i].is = row[i].is
  BY <1>2 DEF Kinds
<1>3. ASSUME NEW i \in Invoices, NEW n, row' = [row EXCEPT ![i].amt = n]
      PROVE  /\ DOMAIN row' = Invoices /\ \A j \in Invoices : DOMAIN row'[j] = {"is", "amt", "st"}
             /\ row'[i].st = row[i].st /\ row'[i].amt = n /\ row'[i].is = row[i].is
  BY <1>3 DEF Kinds
<1> QED
  BY <1>1, <1>2, <1>3

\* calculateInvoicePaymentStatus and the update of the status.
LEMMA StatusSteps ==
  ASSUME InvoiceInv, NEW a \in Actors,
         CheckAmount(a) \/ CheckAlloc(a) \/ CheckDefault(a) \/ StatusWrite(a)
  PROVE  InvoiceInv'
<1> DEFINE i == req[a].inv
<1>1. Kinds /\ InPlace(req[a].op, pc[a])
  BY DEF InvoiceInv
<1>2. pc[a] # "idle" /\ pc[a] \in {"kAmt", "kAlloc", "kWrite", "kDefault"}
  BY DEF CheckAmount, CheckAlloc, CheckDefault, StatusWrite
<1>3. req[a].op \in StatusOps
  BY <1>1, <1>2 DEF InPlace
<1>4. clean[a] => StatusKnown(a) /\ DebtKnown(a)
  BY DEF InvoiceInv, Known
<1>5. CASE CheckAmount(a)
  <2>1. GoTo(a, "kAlloc") /\ UNCHANGED <<row, share, req, clean, last>>
    BY <1>5 DEF CheckAmount, tables, frame
  <2>2. pc'[a] = "kAlloc" /\ Live(i) /\ got'[a].amt = row[i].amt /\ got'[a].st = got[a].st
    BY <1>1, <1>5 DEF CheckAmount, GoTo, Kinds
  <2>3. Kinds'
    BY <1>1, <1>5, <2>1 DEF CheckAmount, GoTo, Kinds
  <2>4. ASSUME clean'[a] PROVE StatusKnown(a)' /\ DebtKnown(a)'
    BY <1>4, <1>5, <2>1, <2>2, <2>4 DEF StatusKnown, DebtKnown, Live, CheckAmount
  <2>5. InPlace(req[a].op, "kAlloc")
    BY <1>3 DEF InPlace
  <2> QED
    BY <1>2, <2>1, <2>3, <2>4, <2>5, Moves
<1>6. CASE CheckAlloc(a)
  <2>1. GoTo(a, "kWrite") /\ UNCHANGED <<row, share, req, clean, last>>
    BY <1>6 DEF CheckAlloc, tables, frame
  <2>2. /\ pc'[a] = "kWrite" /\ got'[a].alloc = AllocatedTo(i)
        /\ got'[a].amt = got[a].amt /\ got'[a].st = got[a].st
    BY <1>1, <1>6 DEF CheckAlloc, GoTo, Kinds
  <2>3. Kinds'
    BY <1>1, <1>6, <2>1 DEF CheckAlloc, GoTo, Kinds
  <2>4. ASSUME clean'[a] PROVE StatusKnown(a)' /\ DebtKnown(a)'
    BY <1>4, <1>6, <2>1, <2>2, <2>4 DEF StatusKnown, DebtKnown, Live, AllocatedTo, CheckAlloc
  <2>5. InPlace(req[a].op, "kWrite")
    BY <1>3 DEF InPlace
  <2> QED
    BY <1>2, <2>1, <2>3, <2>4, <2>5, Moves
<1>7. CASE CheckDefault(a)
  <2>1. GoTo(a, "kDefault") /\ clean' = [clean EXCEPT ![a] = FALSE]
        /\ UNCHANGED <<row, got, req, last>>
    BY <1>7 DEF CheckDefault, tables
  <2>2. Kinds'
    BY <1>1, <2>1 DEF GoTo, Kinds
  <2>3. InPlace(req[a].op, "kDefault")
    BY <1>3 DEF InPlace
  <2> QED
    BY <1>2, <2>1, <2>2, <2>3, DisturbedMoves
<1>8. CASE StatusWrite(a)
  <2>1. GoTo(a, AfterStatus(a)) /\ Forget(a) /\ UNCHANGED <<share, req, clean, last>>
    BY <1>8 DEF StatusWrite, ledger, frame
  <2>2. AfterStatus(a) \in {"ySales", "done"} /\ InPlace(req[a].op, AfterStatus(a))
        /\ (req[a].op = "edit" => AfterStatus(a) = "ySales")
    BY <1>3 DEF AfterStatus, InPlace, DebtOps, StatusOps
  <2>3. PICK new : /\ pc[a] = "kWrite" => new = Coverage(i, got[a].amt, got[a].alloc)
                   /\ row' = IF Live(i) /\ (req[a].op = "attach" \/ new # got[a].st)
                             THEN [row EXCEPT ![i].st = new] ELSE row
    BY <1>8 DEF StatusWrite
  <2>4. Kinds'
    <3>1. DOMAIN row' = Invoices /\ \A j \in Invoices : DOMAIN row'[j] = {"is", "amt", "st"}
      BY <1>1, <2>3, Shapes DEF Live, Kinds
    <3>2. DOMAIN got' = Actors /\ \A b \in Actors : DOMAIN got'[b] = {"amt", "st", "alloc", "sales"}
      BY <1>1, <2>1, Shapes
    <3> QED
      BY <1>1, <2>1, <3>1, <3>2 DEF Kinds, GoTo
  <2>5. ASSUME clean'[a] PROVE StatusKnown(a)' /\ DebtKnown(a)'
    <3>1. pc[a] = "kWrite" /\ Live(i) /\ got[a].amt = row[i].amt /\ got[a].alloc = AllocatedTo(i)
          /\ (req[a].op # "attach" => got[a].st = row[i].st)
      BY <1>4, <1>8, <2>1, <2>5 DEF StatusKnown, StatusWrite
    <3>2. new = Coverage(i, row[i].amt, AllocatedTo(i)) /\ i \in Invoices
      BY <2>3, <3>1 DEF Live
    <3>3. row'[i].st = new /\ row'[i].amt = row[i].amt
      BY <1>1, <2>3, <3>1, <3>2, Shapes
    <3>4. PICK j : j = req[a].inv
      OBVIOUS
    <3>5. StatusRight(j)'
      BY <2>1, <3>2, <3>3, <3>4 DEF StatusRight, AllocatedTo
    <3>6. pc'[a] = AfterStatus(a) /\ req'[a] = req[a]
      BY <1>1, <2>1 DEF GoTo, Kinds
    <3>7. StatusKnown(a)'
      BY <2>2, <3>4, <3>5, <3>6 DEF StatusKnown, StatusRight, Live, AllocatedTo
    <3>8. DebtKnown(a)'
      BY <1>3, <2>2, <3>6 DEF DebtKnown, StatusOps, DebtOps
    <3> QED
      BY <3>7, <3>8
  <2> QED
    BY <1>2, <2>1, <2>2, <2>4, <2>5, Moves
<1> QED
  BY <1>5, <1>6, <1>7, <1>8

\* updateRepresentativeFinancials and syncRepresentativeDebt.
LEMMA SyncSteps ==
  ASSUME InvoiceInv, NEW a \in Actors,
         SyncSales(a) \/ SyncPaid(a) \/ SyncWrite(a) \/ SyncRetry(a)
  PROVE  InvoiceInv'
<1>1. Kinds /\ InPlace(req[a].op, pc[a])
  BY DEF InvoiceInv
<1>2. pc[a] # "idle" /\ pc[a] \in {"ySales", "yPaid", "yWrite"}
  BY DEF SyncSales, SyncPaid, SyncWrite, SyncRetry
<1>3. req[a].op \in DebtOps \cup {"put", "delete"} /\ \A s \in {"ySales", "yPaid", "yWrite"} : InPlace(req[a].op, s)
  BY <1>1, <1>2 DEF InPlace
<1>4. clean[a] => StatusKnown(a) /\ DebtKnown(a)
  BY DEF InvoiceInv, Known
<1>5. CASE SyncSales(a)
  <2>1. GoTo(a, "yPaid") /\ UNCHANGED <<row, share, debt, req, clean, last>>
    BY <1>5 DEF SyncSales, tables, frame
  <2>2. pc'[a] = "yPaid" /\ got'[a].sales = Sales
    BY <1>1, <1>5 DEF SyncSales, GoTo, Kinds
  <2>3. Kinds'
    BY <1>1, <1>5, <2>1 DEF SyncSales, GoTo, Kinds
  <2>4. ASSUME clean'[a] PROVE StatusKnown(a)' /\ DebtKnown(a)'
    <3>1. StatusKnown(a)'
      BY <1>4, <1>5, <2>1, <2>2, <2>4 DEF StatusKnown, StatusRight, Live, AllocatedTo, SyncSales
    <3>2. DebtKnown(a)'
      BY <2>1, <2>2 DEF DebtKnown, Sales
    <3> QED
      BY <3>1, <3>2
  <2> QED
    BY <1>2, <1>3, <2>1, <2>3, <2>4, Moves
<1>6. CASE SyncPaid(a)
  <2>1. GoTo(a, "yWrite") /\ UNCHANGED <<row, share, debt, req, clean, last>>
    BY <1>6 DEF SyncPaid, tables, frame
  <2>2. pc'[a] = "yWrite" /\ got'[a].alloc = Paid /\ got'[a].sales = got[a].sales
    BY <1>1, <1>6 DEF SyncPaid, GoTo, Kinds
  <2>3. Kinds'
    BY <1>1, <1>6, <2>1 DEF SyncPaid, GoTo, Kinds
  <2>4. ASSUME clean'[a] PROVE StatusKnown(a)' /\ DebtKnown(a)'
    <3>1. StatusKnown(a)'
      BY <1>4, <1>6, <2>1, <2>2, <2>4 DEF StatusKnown, StatusRight, Live, AllocatedTo, SyncPaid
    <3>2. DebtKnown(a)'
      BY <1>4, <1>6, <2>1, <2>2, <2>4 DEF DebtKnown, Sales, Paid, SyncPaid
    <3> QED
      BY <3>1, <3>2
  <2> QED
    BY <1>2, <1>3, <2>1, <2>3, <2>4, Moves
<1>7. CASE SyncWrite(a)
  <2>1. GoTo(a, AfterSync(a)) /\ Forget(a) /\ UNCHANGED <<row, share, req, clean, last>>
    BY <1>7 DEF SyncWrite, ledger
  <2>2. AfterSync(a) \in {"ySales", "done"} \/ (AfterSync(a) = "aRead" /\ req[a].op = "pay")
    BY DEF AfterSync
  <2>3. InPlace(req[a].op, AfterSync(a)) /\ AfterSync(a) # "idle"
    BY <1>3, <2>2 DEF InPlace
  <2>4. Kinds'
    BY <1>1, <2>1, Shapes DEF Kinds, GoTo
  <2>5. pc'[a] = AfterSync(a) /\ debt' = Debt(got[a].sales, got[a].alloc)
    BY <1>1, <1>7 DEF SyncWrite, GoTo, Kinds
  <2>6. ASSUME clean'[a] PROVE StatusKnown(a)' /\ DebtKnown(a)'
    <3>1. StatusKnown(a)'
      BY <1>4, <1>7, <2>1, <2>2, <2>5, <2>6
         DEF StatusKnown, StatusRight, Live, AllocatedTo, SyncWrite, StatusOps
    <3>2. req[a].op \in DebtOps => debt' = Debt(Sales, Paid)
      BY <1>4, <1>7, <2>1, <2>5, <2>6 DEF DebtKnown, SyncWrite
    <3>3. DebtKnown(a)'
      BY <2>1, <2>2, <2>5, <3>2 DEF DebtKnown, DebtRight, Sales, Paid
    <3> QED
      BY <3>1, <3>3
  <2> QED
    BY <1>2, <2>1, <2>3, <2>4, <2>6, Moves
<1>8. CASE SyncRetry(a)
  <2>1. GoTo(a, "ySales") /\ Forget(a) /\ UNCHANGED <<row, share, req, clean, last>>
    BY <1>8 DEF SyncRetry, tables, frame
  <2>2. pc'[a] = "ySales"
    BY <1>1, <2>1 DEF GoTo, Kinds
  <2>3. Kinds'
    BY <1>1, <2>1, Shapes DEF Kinds, GoTo
  <2>4. ASSUME clean'[a] PROVE StatusKnown(a)' /\ DebtKnown(a)'
    BY <1>2, <1>4, <1>8, <2>1, <2>2, <2>4
       DEF StatusKnown, DebtKnown, StatusRight, Live, AllocatedTo, SyncRetry
  <2> QED
    BY <1>2, <1>3, <2>1, <2>3, <2>4, Moves
<1> QED
  BY <1>5, <1>6, <1>7, <1>8

\* The statements of a request before its status and its debt.
LEMMA InvoiceWrites ==
  ASSUME InvoiceInv, NEW a \in Actors,
         CreateInsert(a) \/ Get(a) \/ EditUpdate(a) \/ EditVanished(a) \/ PutUpdate(a)
           \/ DeleteStart(a) \/ Skip(a)
  PROVE  InvoiceInv'
<1> DEFINE i == req[a].inv
<1>1. Kinds /\ InPlace(req[a].op, pc[a])
  BY DEF InvoiceInv
<1>2. pc[a] # "idle"
  BY DEF CreateInsert, Get, EditUpdate, EditVanished, PutUpdate, DeleteStart, Skip
<1>3. CASE CreateInsert(a)
  <2>1. GoTo(a, "ySales") /\ req[a].op = "create" /\ UNCHANGED <<got, req, clean, last>>
    BY <1>1, <1>3 DEF CreateInsert, frame, InPlace
  <2>2. Kinds'
    BY <1>1, <1>3, <2>1 DEF CreateInsert, GoTo, Kinds
  <2>3. InPlace(req[a].op, "ySales") /\ Quiet(req[a].op, "ySales")
    BY <2>1 DEF InPlace, Quiet, StatusOps, DebtOps
  <2> QED
    BY <1>2, <2>1, <2>2, <2>3, QuietMoves
<1>4. CASE Get(a)
  <2>1. PICK s : /\ GoTo(a, s)
                 /\ \/ req[a].op = "edit" /\ s = "eUpdate" /\ got' = got
                    \/ req[a].op = "put" /\ s = "pUpdate" /\ got' = [got EXCEPT ![a].amt = row[i].amt]
                    \/ req[a].op = "recalc" /\ s = "kAmt" /\ got' = [got EXCEPT ![a].st = row[i].st]
    BY <1>1, <1>4 DEF Get, InPlace
  <2>2. UNCHANGED <<row, share, req, clean, last>>
    BY <1>4 DEF Get, tables, frame
  <2>3. DOMAIN got' = Actors /\ \A b \in Actors : DOMAIN got'[b] = {"amt", "st", "alloc", "sales"}
    BY <1>1, <2>1 DEF Kinds
  <2>4. Kinds'
    BY <1>1, <2>1, <2>2, <2>3 DEF Kinds, GoTo
  <2>5. InPlace(req[a].op, s) /\ s # "idle"
    BY <2>1 DEF InPlace, StatusOps
  <2>6. CASE req[a].op \in {"edit", "put"}
    <3>1. Quiet(req[a].op, s)
      BY <2>1, <2>6 DEF Quiet
    <3> QED
      BY <1>2, <2>1, <2>2, <2>4, <2>5, <3>1, QuietMoves
  <2>7. CASE req[a].op = "recalc"
    <3>1. pc'[a] = "kAmt" /\ got'[a].st = row[i].st
      BY <1>1, <2>1, <2>7 DEF GoTo, Kinds
    <3>2. StatusKnown(a)' /\ DebtKnown(a)'
      BY <2>2, <2>7, <3>1 DEF StatusKnown, DebtKnown, DebtOps
    <3> QED
      BY <1>2, <2>1, <2>2, <2>4, <2>5, <3>2, Moves
  <2> QED
    BY <2>1, <2>6, <2>7
<1>5. CASE EditUpdate(a)
  <2>1. GoTo(a, "kAmt") /\ req[a].op = "edit" /\ UNCHANGED <<share, req, clean, last>> /\ i \in Invoices
    BY <1>1, <1>5 DEF EditUpdate, frame, ledger, InPlace, Live
  <2>2. /\ DOMAIN row' = Invoices /\ \A j \in Invoices : DOMAIN row'[j] = {"is", "amt", "st"}
        /\ row'[i].st = row[i].st
    BY <1>1, <1>5, <2>1, Shapes DEF EditUpdate
  <2>3. /\ DOMAIN got' = Actors /\ \A b \in Actors : DOMAIN got'[b] = {"amt", "st", "alloc", "sales"}
        /\ got'[a].st = row[i].st
    BY <1>1, <1>5 DEF EditUpdate, Kinds
  <2>4. Kinds'
    BY <1>1, <2>1, <2>2, <2>3 DEF Kinds, GoTo
  <2>5. pc'[a] = "kAmt"
    BY <1>1, <2>1 DEF GoTo, Kinds
  <2>6. StatusKnown(a)' /\ DebtKnown(a)'
    BY <2>1, <2>2, <2>3, <2>5 DEF StatusKnown, DebtKnown
  <2>7. InPlace(req[a].op, "kAmt")
    BY <2>1 DEF InPlace, StatusOps
  <2> QED
    BY <1>2, <2>1, <2>4, <2>6, <2>7, Moves
<1>6. CASE EditVanished(a) \/ Skip(a)
  <2>1. /\ GoTo(a, "ySales") /\ Forget(a) /\ clean' = [clean EXCEPT ![a] = FALSE]
        /\ req[a].op = "edit" /\ UNCHANGED <<row, req, last>>
    BY <1>1, <1>6 DEF EditVanished, Skip, tables, InPlace
  <2>2. Kinds'
    BY <1>1, <2>1, Shapes DEF Kinds, GoTo
  <2>3. InPlace(req[a].op, "ySales")
    BY <2>1 DEF InPlace, DebtOps
  <2> QED
    BY <1>2, <2>1, <2>2, <2>3, DisturbedMoves
<1>7. CASE PutUpdate(a)
  <2>1. PICK s \in {"ySales", "done"} : GoTo(a, s)
    BY <1>7 DEF PutUpdate
  <2>2. Forget(a) /\ req[a].op = "put" /\ UNCHANGED <<req, clean, last>>
    BY <1>1, <1>7 DEF PutUpdate, frame, InPlace
  <2>3. DOMAIN row' = Invoices /\ \A j \in Invoices : DOMAIN row'[j] = {"is", "amt", "st"}
    BY <1>1, <1>7 DEF PutUpdate, Kinds
  <2>4. Kinds'
    BY <1>1, <2>1, <2>2, <2>3, Shapes DEF Kinds, GoTo
  <2>5. InPlace(req[a].op, s) /\ Quiet(req[a].op, s)
    BY <2>1, <2>2 DEF InPlace, Quiet, StatusOps, DebtOps
  <2> QED
    BY <1>2, <2>1, <2>2, <2>4, <2>5, QuietMoves
<1>8. CASE DeleteStart(a)
  <2>1. GoTo(a, "ySales") /\ req[a].op = "delete" /\ UNCHANGED <<row, got, req, clean, last>>
    BY <1>1, <1>8 DEF DeleteStart, tables, InPlace
  <2>2. Kinds'
    BY <1>1, <2>1 DEF Kinds, GoTo
  <2>3. InPlace(req[a].op, "ySales") /\ Quiet(req[a].op, "ySales")
    BY <2>1 DEF InPlace, Quiet, StatusOps
  <2> QED
    BY <1>2, <2>1, <2>2, <2>3, QuietMoves
<1> QED
  BY <1>3, <1>4, <1>5, <1>6, <1>7, <1>8

LEMMA InvoiceSteps ==
  ASSUME InvoiceInv, NEW a \in Actors, InvoiceStep(a)
  PROVE  InvoiceInv'
<1>1. ASSUME NEW r \in InvoiceRequests, NEW n, Arrive(a, r, InvoiceFirst(r), n)
      PROVE  InvoiceInv'
  <2>1. \/ r.op = "create" /\ InvoiceFirst(r) = "cInsert"
        \/ r.op = "edit" /\ InvoiceFirst(r) = "eGet"
        \/ r.op = "put" /\ InvoiceFirst(r) = "pGet"
        \/ r.op = "delete" /\ InvoiceFirst(r) = "dGet"
        \/ r.op = "recalc" /\ InvoiceFirst(r) = "rGet"
    BY DEF InvoiceRequests, InvoiceFirst
  <2>2. InPlace(r.op, InvoiceFirst(r)) /\ Quiet(r.op, InvoiceFirst(r))
    BY <2>1 DEF InPlace, Quiet
  <2> QED
    BY <1>1, <2>2, Arrives
<1>2. CASE NotFound(a) \/ Fault(a) \/ SyncFail(a)
  <2>1. pc[a] # "idle" /\ Respond(a, FALSE) /\ UNCHANGED tables
    BY <1>2 DEF NotFound, Fault, SyncFail
  <2> QED
    BY <2>1, Responds
<1>3. CASE Done(a)
  <2>1. pc[a] = "done" /\ Respond(a, TRUE) /\ UNCHANGED tables
    BY <1>3 DEF Done
  <2> QED
    BY <2>1, Responds
<1> QED
  BY <1>1, <1>2, <1>3, InvoiceWrites, StatusSteps, SyncSteps DEF InvoiceStep
-----------------------------------------------------------------------------
(* The requests about payments. *)

\* Each goes on to a statement of which nothing has to be known yet.
LEMMA PaymentSteps ==
  ASSUME InvoiceInv, NEW a \in Actors, PaymentStep(a)
  PROVE  InvoiceInv'
<1>0. Kinds /\ InPlace(req[a].op, pc[a])
  BY DEF InvoiceInv
<1>1. ASSUME NEW r \in PaymentRequests, NEW n, Arrive(a, r, PaymentFirst(r), n)
      PROVE  InvoiceInv'
  <2>1. \/ r.op = "pay" /\ PaymentFirst(r) \in {"nInsert", "nResolve"}
        \/ r.op = "repay" /\ PaymentFirst(r) = "uUpdate"
        \/ r.op = "unpay" /\ PaymentFirst(r) = "uFind"
        \/ r.op = "allocate" /\ PaymentFirst(r) = "aRead"
        \/ r.op \in {"link", "attach"} /\ PaymentFirst(r) = "lLink"
    BY DEF PaymentRequests, PaymentFirst
  <2>2. InPlace(r.op, PaymentFirst(r)) /\ Quiet(r.op, PaymentFirst(r))
    BY <2>1 DEF InPlace, Quiet
  <2> QED
    BY <1>1, <2>2, Arrives
<1>2. ASSUME NEW s, pc[a] # "idle", GoTo(a, s), UNCHANGED <<row, req, clean, last>>,
             UNCHANGED got \/ Forget(a), InPlace(req[a].op, s), Quiet(req[a].op, s)
      PROVE  InvoiceInv'
  <2>1. Kinds'
    BY <1>0, <1>2, Shapes DEF Kinds, GoTo
  <2> QED
    BY <1>2, <2>1, QuietMoves
<1>3. ASSUME pc[a] # "idle", Respond(a, FALSE), UNCHANGED tables
      PROVE  InvoiceInv'
  BY <1>3, Responds
<1>4. CASE Resolve(a)
  <2>1. CASE Live(req[a].inv)
    <3>1. pc[a] # "idle" /\ GoTo(a, "nInsert") /\ UNCHANGED <<row, req, clean, last, got>>
          /\ req[a].op = "pay"
      BY <1>0, <1>4, <2>1 DEF Resolve, tables, frame, InPlace
    <3>2. InPlace(req[a].op, "nInsert") /\ Quiet(req[a].op, "nInsert")
      BY <3>1 DEF InPlace, Quiet
    <3> QED
      BY <1>2, <3>1, <3>2
  <2>2. CASE ~Live(req[a].inv)
    BY <1>3, <1>4, <2>2 DEF Resolve
  <2> QED
    BY <2>1, <2>2
<1>5. CASE AllocateRead(a)
  <2>1. pc[a] = "aRead" /\ UNCHANGED tables
        /\ ((GoTo(a, "aInsert") /\ UNCHANGED <<got, frame>>) \/ Respond(a, FALSE))
    BY <1>5 DEF AllocateRead
  <2>2. CASE Respond(a, FALSE)
    BY <1>3, <2>1, <2>2
  <2>3. CASE GoTo(a, "aInsert") /\ UNCHANGED <<got, frame>>
    <3>1. InPlace(req[a].op, "aInsert") /\ Quiet(req[a].op, "aInsert")
      BY <1>0, <2>1 DEF InPlace, Quiet
    <3> QED
      BY <1>2, <2>1, <2>3, <3>1 DEF tables, frame
  <2> QED
    BY <2>1, <2>2, <2>3
<1>6. CASE PaymentRefused(a)
  <2>1. pc[a] # "idle" /\ Respond(a, FALSE) /\ UNCHANGED tables
    BY <1>6 DEF PaymentRefused
  <2> QED
    BY <1>3, <2>1
<1>7. CASE AllocateFail(a)
  <2>1. pc[a] # "idle" /\ UNCHANGED tables
        /\ (Respond(a, FALSE) \/ (GoTo(a, "aRead") /\ Forget(a) /\ UNCHANGED frame))
    BY <1>7 DEF AllocateFail, InAllocation
  <2>2. CASE Respond(a, FALSE)
    BY <1>3, <2>1, <2>2
  <2>3. CASE GoTo(a, "aRead") /\ Forget(a) /\ UNCHANGED frame
    <3>1. req[a].op \in {"pay", "allocate"}
      BY <1>0, <1>7 DEF AllocateFail, InAllocation, InPlace
    <3>2. InPlace(req[a].op, "aRead") /\ Quiet(req[a].op, "aRead")
      BY <3>1 DEF InPlace, Quiet
    <3> QED
      BY <1>2, <2>1, <2>3, <3>2 DEF tables, frame
  <2> QED
    BY <2>1, <2>2, <2>3
<1>8. CASE PaymentInsert(a) \/ AllocateFlag(a) \/ PaymentUpdate(a) \/ PaymentDelete(a)
  <2>1. /\ pc[a] \in {"nInsert", "aFlag", "uUpdate", "uDelete"} /\ GoTo(a, "ySales")
        /\ UNCHANGED <<row, got, req, clean, last>>
    BY <1>8 DEF PaymentInsert, AllocateFlag, PaymentUpdate, PaymentDelete, frame
  <2>2. req[a].op \in {"pay", "allocate", "repay", "unpay"}
    BY <1>0, <2>1 DEF InPlace
  <2>3. InPlace(req[a].op, "ySales") /\ Quiet(req[a].op, "ySales")
    BY <2>2 DEF InPlace, Quiet, DebtOps, StatusOps
  <2> QED
    BY <1>2, <2>1, <2>3
<1>9. CASE AllocateInsert(a)
  <2>1. pc[a] = "aInsert" /\ GoTo(a, "aFlag") /\ UNCHANGED <<row, got, req, clean, last>>
    BY <1>9 DEF AllocateInsert, frame
  <2>2. InPlace(req[a].op, "aFlag") /\ Quiet(req[a].op, "aFlag")
    BY <1>0, <2>1 DEF InPlace, Quiet
  <2> QED
    BY <1>2, <2>1, <2>2
<1>10. CASE PaymentUpdateRetry(a)
  <2>1. /\ pc[a] # "idle" /\ req[a].op = "repay" /\ GoTo(a, "uUpdate") /\ Forget(a)
        /\ UNCHANGED <<row, req, clean, last>>
    BY <1>10 DEF PaymentUpdateRetry, tables
  <2>2. InPlace(req[a].op, "uUpdate") /\ Quiet(req[a].op, "uUpdate")
    BY <2>1 DEF InPlace, Quiet
  <2> QED
    BY <1>2, <2>1, <2>2
<1>11. CASE PaymentFind(a)
  <2>1. pc[a] = "uFind" /\ GoTo(a, "uDelete") /\ UNCHANGED <<row, got, req, clean, last>>
    BY <1>11 DEF PaymentFind, tables, frame
  <2>2. InPlace(req[a].op, "uDelete") /\ Quiet(req[a].op, "uDelete")
    BY <1>0, <2>1 DEF InPlace, Quiet
  <2> QED
    BY <1>2, <2>1, <2>2
<1>12. CASE LinkPayment(a) \/ LinkRead(a) \/ LinkWrite(a) \/ LinkSkip(a)
  <2>1. /\ pc[a] \in {"lLink", "lRead", "lWrite"} /\ req[a].op \in {"link", "attach"}
        /\ UNCHANGED <<req, last>>
    BY <1>0, <1>12 DEF LinkPayment, LinkRead, LinkWrite, LinkSkip, InPlace, frame
  <2>2. PICK s \in {"lRead", "lWrite", AfterLink(a)} : GoTo(a, s)
    BY <1>12 DEF LinkPayment, LinkRead, LinkWrite, LinkSkip
  <2>3. InPlace(req[a].op, s) /\ Quiet(req[a].op, s)
    BY <2>1, <2>2 DEF AfterLink, InPlace, Quiet, StatusOps, DebtOps
  <2>4. DOMAIN row' = Invoices /\ \A j \in Invoices : DOMAIN row'[j] = {"is", "amt", "st"}
    BY <1>0, <1>12 DEF LinkPayment, LinkRead, LinkWrite, LinkSkip, tables, Kinds
  <2>5. DOMAIN got' = Actors /\ \A b \in Actors : DOMAIN got'[b] = {"amt", "st", "alloc", "sales"}
    <3>1. CASE LinkRead(a)
      BY <1>0, <3>1 DEF LinkRead, Kinds
    <3>2. CASE LinkPayment(a) \/ LinkWrite(a) \/ LinkSkip(a)
      BY <1>0, <3>2, Shapes DEF LinkPayment, LinkWrite, LinkSkip, Kinds
    <3> QED
      BY <1>12, <3>1, <3>2
  <2>6. clean' \in [Actors -> BOOLEAN] /\ \A b \in Actors : clean'[b] => clean[b]
    BY <1>0, <1>12 DEF LinkPayment, LinkRead, LinkWrite, LinkSkip, frame, Kinds
  <2>7. Kinds'
    BY <1>0, <2>1, <2>2, <2>4, <2>5, <2>6 DEF Kinds, GoTo
  <2> QED
    BY <2>1, <2>2, <2>3, <2>6, <2>7, QuietMoves
<1> QED
  BY <1>1, <1>4, <1>5, <1>6, <1>7, <1>8, <1>9, <1>10, <1>11, <1>12 DEF PaymentStep
-----------------------------------------------------------------------------
(* The detached deletion and the backfill, which disturb what is in progress. *)

\* What no step of a request changes is as right as it was.
LEMMA Stutters == InvoiceInv /\ UNCHANGED vars => InvoiceInv'
<1> SUFFICES ASSUME InvoiceInv, UNCHANGED vars PROVE InvoiceInv'
  OBVIOUS
<1>1. UNCHANGED <<row, share, debt, pc, req, got, clean, last>>
  BY DEF vars, tables, work
<1>2. Kinds' /\ Alone'
  BY <1>1 DEF InvoiceInv, Kinds, Alone
<1>3. Known'
  BY <1>1 DEF InvoiceInv, Known, StatusKnown, DebtKnown, StatusRight, DebtRight, Live,
              AllocatedTo, Sales, Paid
<1>4. LastRight'
  BY <1>1 DEF InvoiceInv, LastRight, StatusRight, DebtRight, Live, AllocatedTo, Sales, Paid
<1> QED
  BY <1>1, <1>2, <1>3, <1>4 DEF InvoiceInv

LEMMA DeletionInv ==
  ASSUME InvoiceInv, NEW i \in Invoices, DeleteRun(i)
  PROVE  InvoiceInv'
<1>1. Kinds /\ \A b \in Actors : InPlace(req[b].op, pc[b])
  BY DEF InvoiceInv
<1>2. UNCHANGED <<pc, req, got>> /\ \A b \in Actors : clean'[b] => clean[b] /\ req[b].op = "delete"
  BY DEF DeleteRun, work
<1>3. Kinds'
  <2>1. DOMAIN row' = Invoices /\ \A j \in Invoices : DOMAIN row'[j] = {"is", "amt", "st"}
    BY <1>1 DEF DeleteRun, NoRow, Kinds
  <2>2. clean' \in [Actors -> BOOLEAN]
    BY <1>1 DEF DeleteRun, Kinds
  <2> QED
    BY <1>1, <1>2, <2>1, <2>2 DEF Kinds
<1>4. Alone'
  BY <1>2 DEF InvoiceInv, Alone
<1>5. ASSUME NEW b \in Actors, clean'[b] PROVE StatusKnown(b)' /\ DebtKnown(b)'
  <2>1. req[b].op = "delete" /\ pc[b] \notin {"kAmt", "kAlloc", "kWrite", "kDefault"}
    BY <1>1, <1>2, <1>5 DEF InPlace, StatusOps
  <2> QED
    BY <1>2, <2>1 DEF StatusKnown, DebtKnown, StatusOps, DebtOps
<1>6. LastRight'
  <2>1. last'.op \notin StatusOps \cup DebtOps /\ (last' # NoRequest => last' = last)
    BY DEF DeleteRun, NoRequest, StatusOps, DebtOps
  <2> QED
    BY <1>2, <2>1 DEF InvoiceInv, LastRight
<1> QED
  BY <1>1, <1>2, <1>3, <1>4, <1>5, <1>6 DEF InvoiceInv, Known

LEMMA CrashInv ==
  ASSUME InvoiceInv, NEW i \in Invoices, DeleteCrash(i)
  PROVE  InvoiceInv'
<1>1. /\ UNCHANGED <<row, share, debt, last>>
      /\ \A b \in Actors : pc'[b] = "idle" /\ req'[b] = NoRequest /\ ~clean'[b]
  BY DEF DeleteCrash, tables
<1>2. Kinds'
  <2>1. DOMAIN got' = Actors /\ \A b \in Actors : DOMAIN got'[b] = {"amt", "st", "alloc", "sales"}
    BY DEF DeleteCrash, NoData
  <2>2. DOMAIN pc' = Actors /\ DOMAIN req' = Actors /\ clean' \in [Actors -> BOOLEAN]
    BY DEF DeleteCrash
  <2> QED
    BY <1>1, <2>1, <2>2 DEF InvoiceInv, Kinds
<1>3. Alone' /\ Known' /\ \A b \in Actors : InPlace(req'[b].op, pc'[b])
  BY <1>1 DEF Alone, Known, InPlace
<1>4. LastRight'
  BY <1>1 DEF InvoiceInv, LastRight, StatusRight, DebtRight, Live, AllocatedTo, Sales, Paid
<1> QED
  BY <1>2, <1>3, <1>4 DEF InvoiceInv

LEMMA BackfillInv ==
  ASSUME InvoiceInv, Backfill
  PROVE  InvoiceInv'
<1>1. UNCHANGED vars \/ \E key, amt : FillRow(key, amt)
  BY DEF Backfill, SelectUnrecorded, ActiveRow, SelectOrphans, ReadOpen, OrphanRow, NextOrphan,
         NoFillRow
<1>2. ASSUME NEW key, NEW amt, FillRow(key, amt)
      PROVE  InvoiceInv'
  <2>1. /\ UNCHANGED <<row, pc, req, got>> /\ last' = NoRequest
        /\ clean' = [a \in Actors |-> FALSE]
    BY <1>2 DEF FillRow, work
  <2>2. Kinds'
    BY <2>1 DEF InvoiceInv, Kinds
  <2>3. Alone' /\ Known'
    BY <2>1 DEF Alone, Known
  <2>4. LastRight'
    BY <2>1 DEF LastRight, NoRequest, StatusOps, DebtOps
  <2> QED
    BY <2>1, <2>2, <2>3, <2>4 DEF InvoiceInv
<1> QED
  BY <1>1, <1>2, Stutters
-----------------------------------------------------------------------------
(* The invariant.                                                          *)
LEMMA InvoiceAlways == Spec => []InvoiceInv
<1>1. FillInit => InvoiceInv
  <2> SUFFICES ASSUME FillInit PROVE InvoiceInv
    OBVIOUS
  <2>1. Kinds
    BY DEF FillInit, Init, Kinds, NoRow, NoData
  <2>2. Alone /\ Known /\ \A a \in Actors : InPlace(req[a].op, pc[a])
    BY DEF FillInit, Init, Alone, Known, InPlace
  <2>3. LastRight
    BY DEF FillInit, Init, LastRight, NoRequest, StatusOps, DebtOps
  <2> QED
    BY <2>1, <2>2, <2>3 DEF InvoiceInv
<1>2. InvoiceInv /\ [Next]_allVars => InvoiceInv'
  <2> SUFFICES ASSUME InvoiceInv, [Next]_allVars PROVE InvoiceInv'
    OBVIOUS
  <2>1. ASSUME NEW a \in Actors, Request(a) PROVE InvoiceInv'
    BY <2>1, InvoiceSteps, PaymentSteps DEF Request
  <2>2. CASE UNCHANGED allVars
    BY <2>2, Stutters DEF allVars
  <2> QED
    BY <2>1, <2>2, DeletionInv, CrashInv, BackfillInv DEF Next
<1> QED
  BY <1>1, <1>2, PTL DEF Spec

(* An edit, a recalculation or an allocation that nothing disturbed leaves *)
(* the status that the allocations call for (calculateInvoicePaymentStatus *)
(* and its callers), and a request that updates the debt and that nothing  *)
(* disturbed leaves the debt right (updateRepresentativeFinancials), for   *)
(* any invoices, payments, requests in progress, failures, deletions that  *)
(* nobody waits for, process exits, and the backfill beside them.          *)
THEOREM RepairSafety == Spec => [](StatusAfterCheck /\ DebtAfterRequest)
<1>1. InvoiceInv => StatusAfterCheck /\ DebtAfterRequest
  BY DEF InvoiceInv, LastRight, StatusRight, DebtRight, StatusOps, DebtOps,
         StatusAfterCheck, DebtAfterRequest
<1> QED
  BY <1>1, InvoiceAlways, PTL

(* Its part about the status (calculateInvoicePaymentStatus).              *)
THEOREM StatusRepaired == Spec => []StatusAfterCheck
  BY RepairSafety, PTL
-----------------------------------------------------------------------------
(***************************************************************************)
(* The sums over the ledger.  SumOver adds the values of a finite set in   *)
(* the order in which CHOOSE picks its elements, and the same order is     *)
(* used for every function; so two sums can be compared subset by subset.  *)
(***************************************************************************)
PickOf(s) == CHOOSE x \in s : TRUE

\* What SumOver computes, for all subsets of S.
Adds(g, f, S) ==
  /\ g \in [SUBSET S -> Nat] /\ g[{}] = 0
  /\ \A s \in SUBSET S : s # {} => PickOf(s) \in s /\ g[s] = f[PickOf(s)] + g[s \ {PickOf(s)}]

(* A set of naturals has a least element, and so has a set of finite sets. *)
LEMMA LeastNatural ==
  ASSUME NEW T \in SUBSET Nat, T # {}
  PROVE  \E n \in T : \A m \in T : n <= m
<1>1. PICK n \in T : \A m \in T : <<m, n>> \notin OpToRel(<, Nat)
  BY NatLessThanWellFounded, WFMin
<1>2. \A m \in T : ~(m < n)
  BY <1>1, Zenon DEF OpToRel
<1>3. QED
  BY <1>2

LEMMA LeastSubset ==
  ASSUME NEW S, IsFiniteSet(S), NEW T \in SUBSET SUBSET S, T # {}, {} \notin T
  PROVE  \E s \in T : s # {} /\ PickOf(s) \in s /\ s \ {PickOf(s)} \in (SUBSET S) \ T
<1> DEFINE N == {Cardinality(s) : s \in T}
<1>1. \A s \in SUBSET S : IsFiniteSet(s) /\ Cardinality(s) \in Nat
  BY FS_Subset, FS_CardinalityType
<1>2. N \in SUBSET Nat /\ N # {}
  BY <1>1
<1>3. PICK n \in N : \A m \in N : n <= m
  <2> HIDE DEF N
  <2>1. QED
    BY <1>2, LeastNatural
<1>4. PICK s \in T : Cardinality(s) = n
  BY <1>3
<1>5. s # {} /\ PickOf(s) \in s
  BY <1>4 DEF PickOf
<1>6. Cardinality(s \ {PickOf(s)}) = n - 1 /\ n \in Nat
  BY <1>1, <1>4, <1>5, FS_RemoveElement
<1>7. s \ {PickOf(s)} \notin T
  <2>1. ASSUME s \ {PickOf(s)} \in T PROVE FALSE
    <3>1. Cardinality(s \ {PickOf(s)}) \in N
      BY <2>1
    <3> HIDE DEF N
    <3>2. n <= Cardinality(s \ {PickOf(s)})
      BY <1>3, <3>1
    <3>3. QED
      BY <1>6, <3>2
  <2>2. QED
    BY <2>1
<1>8. QED
  BY <1>4, <1>5, <1>7

(* There is a function that computes the sums, by the size of the subsets. *)
LEMMA AddsExists ==
  ASSUME NEW S, IsFiniteSet(S), NEW f, \A x \in S : f[x] \in Nat
  PROVE  \E g : Adds(g, f, S)
<1> DEFINE D(n) == {s \in SUBSET S : Cardinality(s) <= n}
           Sums(g, n) == /\ g \in [D(n) -> Nat]
                         /\ \A s \in D(n) : g[s] = IF s = {} THEN 0
                                                   ELSE f[PickOf(s)] + g[s \ {PickOf(s)}]
           Good(n) == \E g : Sums(g, n)
           Bad == {n \in Nat : ~Good(n)}
<1>1. \A s \in SUBSET S : IsFiniteSet(s) /\ Cardinality(s) \in Nat
  BY FS_Subset, FS_CardinalityType
<1>2. \A s \in SUBSET S : s # {} =>
        /\ PickOf(s) \in s /\ PickOf(s) \in S /\ s \ {PickOf(s)} \in SUBSET S
        /\ Cardinality(s \ {PickOf(s)}) = Cardinality(s) - 1
  <2>1. \A s \in SUBSET S : s # {} => PickOf(s) \in s
    BY DEF PickOf
  <2>2. QED
    BY <1>1, <2>1, FS_RemoveElement
<1>3. Good(0)
  <2>1. \A s \in D(0) : s = {}
    BY <1>1, FS_EmptySet
  <2>2. Sums([s \in D(0) |-> 0], 0)
    BY <2>1
  <2>3. QED
    BY <2>2
<1>4. ASSUME NEW n \in Nat, Good(n) PROVE Good(n + 1)
  <2>1. PICK g : Sums(g, n)
    BY <1>4
  <2> DEFINE h == [s \in D(n + 1) |-> IF s \in D(n) THEN g[s] ELSE f[PickOf(s)] + g[s \ {PickOf(s)}]]
  <2>2. ASSUME NEW s \in D(n + 1)
        PROVE  h[s] \in Nat /\ h[s] = IF s = {} THEN 0 ELSE f[PickOf(s)] + h[s \ {PickOf(s)}]
    <3>1. CASE s = {}
      BY <1>1, <2>1, <3>1, FS_EmptySet
    <3>2. CASE s # {}
      <4>1. s \ {PickOf(s)} \in D(n) /\ s \ {PickOf(s)} \in D(n + 1) /\ PickOf(s) \in S
        BY <1>1, <1>2, <3>2
      <4>2. h[s \ {PickOf(s)}] = g[s \ {PickOf(s)}] /\ g[s \ {PickOf(s)}] \in Nat /\ f[PickOf(s)] \in Nat
        BY <2>1, <4>1
      <4>3. h[s] = f[PickOf(s)] + g[s \ {PickOf(s)}]
        BY <2>1, <3>2
      <4>4. QED
        BY <3>2, <4>2, <4>3
    <3>3. QED
      BY <3>1, <3>2
  <2>3. h \in [D(n + 1) -> Nat]
    BY <2>2
  <2>4. Sums(h, n + 1)
    BY <2>2, <2>3
  <2>5. QED
    BY <2>4
<1>5. \A n \in Nat : Good(n)
  <2> HIDE DEF Good
  <2> SUFFICES ASSUME Bad # {} PROVE FALSE
    OBVIOUS
  <2>1. PICK n \in Bad : \A m \in Bad : n <= m
    BY LeastNatural
  <2>2. n # 0
    BY <1>3, <2>1
  <2>3. n - 1 \in Nat /\ n - 1 \notin Bad
    BY <2>1, <2>2
  <2>4. QED
    BY <1>4, <2>3
<1>6. D(Cardinality(S)) = SUBSET S
  BY <1>1, FS_Subset, FS_CardinalityType
<1>7. PICK g : Sums(g, Cardinality(S))
  BY <1>1, <1>5
<1>8. g \in [SUBSET S -> Nat] /\ \A s \in SUBSET S : g[s] = IF s = {} THEN 0
                                                              ELSE f[PickOf(s)] + g[s \ {PickOf(s)}]
  <2> HIDE DEF D
  <2>1. QED
    BY <1>6, <1>7
<1>9. QED
  BY <1>2, <1>8 DEF Adds

(* SumOver is such a function.                                             *)
LEMMA SumAdds ==
  ASSUME NEW S, IsFiniteSet(S), NEW f, \A x \in S : f[x] \in Nat
  PROVE  \E g : Adds(g, f, S) /\ SumOver(f, S) = g[S]
<1> DEFINE Rec(g) == g = [s \in SUBSET S |->
                            IF s = {} THEN 0
                            ELSE f[CHOOSE x \in s : TRUE] + g[s \ {CHOOSE x \in s : TRUE}]]
           G == CHOOSE g : Rec(g)
           Bad == {s \in SUBSET S : G[s] \notin Nat}
<1>1. PICK g : Adds(g, f, S)
  BY AddsExists
<1>2. Rec(g)
  <2>1. \A s \in SUBSET S : g[s] = IF s = {} THEN 0
          ELSE f[CHOOSE x \in s : TRUE] + g[s \ {CHOOSE x \in s : TRUE}]
    BY <1>1 DEF Adds, PickOf
  <2>2. g = [s \in SUBSET S |-> g[s]]
    BY <1>1 DEF Adds
  <2>3. QED
    BY <2>1, <2>2
<1>3. SumOver(f, S) = G[S]
  BY DEF SumOver, FoldFunctionOnSet, MapThenFoldSet
<1>4. Rec(G)
  <2> HIDE DEF Rec
  <2>1. QED
    BY <1>2
<1>5. /\ G[{}] = 0
      /\ \A s \in SUBSET S : s # {} => PickOf(s) \in s /\ G[s] = f[PickOf(s)] + G[s \ {PickOf(s)}]
      /\ DOMAIN G = SUBSET S /\ G = [s \in SUBSET S |-> G[s]]
  BY <1>4 DEF PickOf
<1> HIDE DEF G
<1>6. \A s \in SUBSET S : G[s] \in Nat
  <2>1. ASSUME Bad # {} PROVE FALSE
    <3>1. Bad \in SUBSET SUBSET S /\ {} \notin Bad
      BY <1>5
    <3>2. PICK s \in Bad : s # {} /\ PickOf(s) \in s /\ s \ {PickOf(s)} \in (SUBSET S) \ Bad
      <4> HIDE DEF Bad
      <4>1. QED
        BY <2>1, <3>1, LeastSubset
    <3>3. G[s] = f[PickOf(s)] + G[s \ {PickOf(s)}] /\ G[s \ {PickOf(s)}] \in Nat
      BY <1>5, <3>2
    <3>4. QED
      BY <3>2, <3>3
  <2>2. QED
    BY <2>1
<1>7. Adds(G, f, S)
  BY <1>5, <1>6 DEF Adds
<1>8. QED
  BY <1>3, <1>7

(* A sum of naturals is a natural.                                         *)
LEMMA SumType ==
  ASSUME NEW S, IsFiniteSet(S), NEW f, \A x \in S : f[x] \in Nat
  PROVE  SumOver(f, S) \in Nat
<1>1. PICK g : Adds(g, f, S) /\ SumOver(f, S) = g[S]
  BY SumAdds
<1>2. QED
  BY <1>1 DEF Adds

(* A sum over nothing but zeros.                                           *)
LEMMA SumZero ==
  ASSUME NEW S, IsFiniteSet(S), NEW f, \A x \in S : f[x] = 0
  PROVE  SumOver(f, S) = 0
<1>1. PICK g : Adds(g, f, S) /\ SumOver(f, S) = g[S]
  BY SumAdds
<1> DEFINE Bad == {s \in SUBSET S : g[s] # 0}
<1>2. ASSUME Bad # {} PROVE FALSE
  <2>1. Bad \in SUBSET SUBSET S /\ {} \notin Bad
    BY <1>1 DEF Adds
  <2>2. PICK s \in Bad : s # {} /\ PickOf(s) \in s /\ s \ {PickOf(s)} \in (SUBSET S) \ Bad
    <3> HIDE DEF Bad
    <3>1. QED
      BY <1>2, <2>1, LeastSubset
  <2>3. g[s] = f[PickOf(s)] + g[s \ {PickOf(s)}] /\ f[PickOf(s)] = 0
    BY <1>1, <2>2 DEF Adds
  <2>4. QED
    BY <2>2, <2>3
<1>3. QED
  BY <1>1, <1>2

(* Smaller values have a smaller sum.                                      *)
LEMMA SumSmaller ==
  ASSUME NEW S, IsFiniteSet(S), NEW f, NEW h, \A x \in S : f[x] \in Nat /\ h[x] \in Nat /\ h[x] <= f[x]
  PROVE  SumOver(h, S) <= SumOver(f, S)
<1>1. PICK g : Adds(g, f, S) /\ SumOver(f, S) = g[S]
  BY SumAdds
<1>2. PICK k : Adds(k, h, S) /\ SumOver(h, S) = k[S]
  BY SumAdds
<1> DEFINE Bad == {s \in SUBSET S : ~(k[s] <= g[s])}
<1>3. ASSUME Bad # {} PROVE FALSE
  <2>1. Bad \in SUBSET SUBSET S /\ {} \notin Bad
    BY <1>1, <1>2 DEF Adds
  <2>2. PICK s \in Bad : s # {} /\ PickOf(s) \in s /\ s \ {PickOf(s)} \in (SUBSET S) \ Bad
    <3> HIDE DEF Bad
    <3>1. QED
      BY <1>3, <2>1, LeastSubset
  <2>3. /\ g[s] = f[PickOf(s)] + g[s \ {PickOf(s)}] /\ k[s] = h[PickOf(s)] + k[s \ {PickOf(s)}]
        /\ g[s \ {PickOf(s)}] \in Nat /\ k[s \ {PickOf(s)}] \in Nat /\ PickOf(s) \in S
    BY <1>1, <1>2, <2>2 DEF Adds
  <2>4. QED
    BY <2>2, <2>3
<1>4. QED
  BY <1>1, <1>2, <1>3

(* A sum in which one value grows.                                         *)
LEMMA SumGrows ==
  ASSUME NEW S, IsFiniteSet(S), NEW f, NEW h, NEW i \in S, NEW d \in Nat,
         \A x \in S : f[x] \in Nat /\ h[x] = IF x = i THEN f[x] + d ELSE f[x]
  PROVE  SumOver(h, S) = SumOver(f, S) + d
<1>1. PICK g : Adds(g, f, S) /\ SumOver(f, S) = g[S]
  BY SumAdds
<1>2. PICK k : Adds(k, h, S) /\ SumOver(h, S) = k[S]
  BY SumAdds
<1> DEFINE Bad == {s \in SUBSET S : k[s] # g[s] + (IF i \in s THEN d ELSE 0)}
<1>3. ASSUME Bad # {} PROVE FALSE
  <2>1. Bad \in SUBSET SUBSET S /\ {} \notin Bad
    BY <1>1, <1>2 DEF Adds
  <2>2. PICK s \in Bad : s # {} /\ PickOf(s) \in s /\ s \ {PickOf(s)} \in (SUBSET S) \ Bad
    <3> HIDE DEF Bad
    <3>1. QED
      BY <1>3, <2>1, LeastSubset
  <2>3. /\ g[s] = f[PickOf(s)] + g[s \ {PickOf(s)}] /\ k[s] = h[PickOf(s)] + k[s \ {PickOf(s)}]
        /\ g[s \ {PickOf(s)}] \in Nat /\ k[s \ {PickOf(s)}] \in Nat /\ PickOf(s) \in S
    BY <1>1, <1>2, <2>2 DEF Adds
  <2>4. k[s \ {PickOf(s)}] = g[s \ {PickOf(s)}] + (IF i \in s \ {PickOf(s)} THEN d ELSE 0)
    BY <2>2
  <2>5. CASE PickOf(s) = i
    BY <2>2, <2>3, <2>4, <2>5
  <2>6. CASE PickOf(s) # i
    BY <2>2, <2>3, <2>4, <2>6
  <2>7. QED
    BY <2>5, <2>6
<1>4. k[S] = g[S] + d
  BY <1>3
<1>5. QED
  BY <1>1, <1>2, <1>4
-----------------------------------------------------------------------------
(***************************************************************************)
(* The types.  They rest on the number of updates of the debt that a       *)
(* request has still to make: it is not zero where one is made.            *)
(***************************************************************************)
Rows == [is : {"none", "live", "gone"}, amt : Nat, st : Statuses]
Pays == [is : {"none", "live", "gone"}, amt : Nat, flag : BOOLEAN, link : Invoices \cup {NoInvoice}]
Data == [amt : Nat, st : Statuses, alloc : Nat, sales : Nat]
Lines == [pay : Payments, inv : Invoices \cup {NoInvoice}, amt : Nat]
Parts == [pay : Payments, amt : Nat]
Fills == [kind : {"none", "active", "select", "distribute"}, todo : SUBSET (Lines \cup Parts),
          left : Nat, open : [Invoices -> Nat], visited : SUBSET Invoices]

Tables ==
  /\ row \in [Invoices -> Rows] /\ pay \in [Payments -> Pays]
  /\ share \in [Payments -> [Invoices -> Nat]] /\ debt \in Nat
  /\ filled \subseteq {"p", "orph"} \X Payments \X Invoices

Works ==
  /\ pc \in [Actors -> PCs] /\ req \in [Actors -> Requests \cup {NoRequest}]
  /\ got \in [Actors -> Data] /\ updates \in [Actors -> 0..3]
  /\ \A a \in Actors :
       pc[a] \notin {"idle", "done"} /\ req[a].op \notin {"link", "attach"} => updates[a] # 0

History ==
  /\ deleting \subseteq Invoices /\ clean \in [Actors -> BOOLEAN]
  /\ last \in Requests \cup {NoRequest} /\ requests \in 0..MaxRequests /\ moved \subseteq Payments

FillTypes ==
  /\ fill \in Fills /\ (fill.kind = "none" <=> fill.todo = {})
  /\ fill.kind = "active" => fill.todo \subseteq Lines
  /\ fill.kind \in {"select", "distribute"} => fill.todo \subseteq Parts

TypeInv == Tables /\ Works /\ History /\ FillTypes

(* The fields that the statements of a request use.                        *)
LEMMA RequestFields ==
  ASSUME NEW r \in Requests \cup {NoRequest}
  PROVE  /\ r.op \in {"create", "edit", "put", "delete", "recalc", "allocate", "link", "attach"} =>
              r.inv \in Invoices
         /\ r.op = "pay" => r.inv \in Invoices \cup {NoInvoice}
         /\ r.op \in {"create", "edit", "put", "pay", "repay", "allocate"} => r.amt \in Nat
         /\ r.op \in {"pay", "allocate"} => r.amt # 0
         /\ r.op = "put" => r.st \in Statuses
         /\ r.op \in {"pay", "repay", "unpay", "allocate", "link", "attach"} => r.pay \in Payments
<1>1. Amounts \subseteq Nat \ {0}
  BY InvoiceAssumption
<1>2. CASE r \in [op : {"create"}, inv : Invoices, amt : Amounts]
  BY <1>1, <1>2
<1>3. CASE r \in [op : {"edit"}, inv : Invoices, amt : Amounts \cup {0}]
  <2>1. r.op = "edit" /\ r.inv \in Invoices /\ r.amt \in Amounts \cup {0}
    BY <1>3, Zenon
  <2>2. \A n \in Amounts \cup {0} : n \in Nat
    <3>1. 0 \in Nat /\ \A n \in Amounts : n \in Nat
      BY <1>1
    <3> QED
      BY <3>1, Zenon
  <2>3. r.amt \in Nat
    BY <2>1, <2>2, Zenon
  <2> QED
    BY <2>1, <2>3
<1>4. CASE r \in [op : {"put"}, inv : Invoices, amt : Amounts, st : Statuses]
  BY <1>1, <1>4
<1>5. CASE r \in [op : {"delete", "recalc"}, inv : Invoices]
  BY <1>5
<1>6. CASE r \in [op : {"pay"}, pay : Payments, amt : Amounts, inv : Invoices \cup {NoInvoice}]
  BY <1>1, <1>6
<1>7. CASE r \in [op : {"repay"}, pay : Payments, amt : Amounts]
  BY <1>1, <1>7
<1>8. CASE r \in [op : {"unpay"}, pay : Payments]
  BY <1>8
<1>9. CASE r \in [op : {"allocate"}, pay : Payments, amt : Amounts, inv : Invoices]
  BY <1>1, <1>9
<1>10. CASE r \in [op : {"link", "attach"}, pay : Payments, inv : Invoices]
  BY <1>10
<1>11. CASE r = NoRequest
  BY <1>11 DEF NoRequest
<1> QED
  BY <1>2, <1>3, <1>4, <1>5, <1>6, <1>7, <1>8, <1>9, <1>10, <1>11
     DEF Requests, InvoiceRequests, PaymentRequests

LEMMA SumTypes ==
  ASSUME Tables
  PROVE  /\ \A i \in Invoices : AllocatedTo(i) \in Nat
         /\ \A p \in Payments : AllocatedOf(p) \in Nat
         /\ Sales \in Nat /\ Paid \in Nat
<1>1. /\ IsFiniteSet(Invoices) /\ IsFiniteSet(Payments) /\ LiveIn(row) \subseteq Invoices
      /\ IsFiniteSet(LiveIn(row))
  BY InvoiceAssumption, FS_Subset DEF LiveIn
<1>2. ASSUME NEW i \in Invoices PROVE AllocatedIn(share, i) \in Nat
  <2> DEFINE f == [p \in Payments |-> share[p][i]]
  <2>1. \A p \in Payments : f[p] \in Nat
    BY DEF Tables
  <2> HIDE DEF f
  <2>2. SumOver(f, Payments) \in Nat
    BY <1>1, <2>1, SumType
  <2>3. QED
    BY <2>2 DEF AllocatedIn, f
<1>3. ASSUME NEW p \in Payments PROVE AllocatedOf(p) \in Nat
  BY <1>1, SumType DEF AllocatedOf, Tables
<1>4. Sales \in Nat
  <2> DEFINE f == [i \in Invoices |-> row[i].amt]
  <2>1. \A i \in LiveIn(row) : f[i] \in Nat
    BY <1>1 DEF Tables, Rows
  <2> HIDE DEF f
  <2>2. SumOver(f, LiveIn(row)) \in Nat
    BY <1>1, <2>1, SumType
  <2>3. QED
    BY <2>2 DEF Sales, SalesIn, f
<1>5. Paid \in Nat
  <2> DEFINE f == [i \in Invoices |-> AllocatedIn(share, i)]
  <2>1. \A i \in LiveIn(row) : f[i] \in Nat
    BY <1>1, <1>2
  <2> HIDE DEF f
  <2>2. SumOver(f, LiveIn(row)) \in Nat
    BY <1>1, <2>1, SumType
  <2>3. QED
    BY <2>2 DEF Paid, PaidIn, f
<1> QED
  BY <1>2, <1>3, <1>4, <1>5 DEF AllocatedTo

(* The kinds of steps.                                                     *)
LEMMA TypeArrive ==
  ASSUME TypeInv, NEW a \in Actors, NEW r \in Requests, NEW s \in PCs, NEW n \in 0..3,
         r.op \notin {"link", "attach"} => n # 0,
         Arrive(a, r, s, n), UNCHANGED fill, moved' \subseteq Payments
  PROVE  TypeInv'
<1>1. Tables' /\ FillTypes'
  BY DEF TypeInv, Arrive, tables, Tables, FillTypes
<1>2. /\ pc' = [pc EXCEPT ![a] = s] /\ req' = [req EXCEPT ![a] = r]
      /\ updates' = [updates EXCEPT ![a] = n] /\ got' = got
  BY DEF Arrive, GoTo
<1>3. Works'
  BY <1>2 DEF TypeInv, Works
<1>4. History'
  BY InvoiceAssumption DEF TypeInv, Arrive, History
<1> QED
  BY <1>1, <1>3, <1>4 DEF TypeInv

LEMMA TypeGo ==
  ASSUME TypeInv, NEW a \in Actors, NEW s \in PCs, GoTo(a, s), s # "done" => pc[a] \notin {"idle", "done"},
         UNCHANGED <<req, updates, fill>>, got' \in [Actors -> Data], Tables', History'
  PROVE  TypeInv'
<1>1. Works'
  BY DEF TypeInv, Works, GoTo
<1>2. FillTypes'
  BY DEF TypeInv, FillTypes
<1> QED
  BY <1>1, <1>2 DEF TypeInv

LEMMA TypeRespond ==
  ASSUME TypeInv, NEW a \in Actors, NEW ok \in BOOLEAN, Respond(a, ok), UNCHANGED <<tables, fill>>,
         moved' \subseteq Payments
  PROVE  TypeInv'
<1>1. Tables' /\ FillTypes'
  BY DEF TypeInv, tables, Tables, FillTypes
<1>2. NoData \in Data /\ "idle" \in PCs
  BY DEF NoData, Data, Statuses, PCs
<1>3. Works'
  BY <1>2 DEF TypeInv, Works, Respond, GoTo
<1>4. req[a] \in Requests \cup {NoRequest}
  BY DEF TypeInv, Works
<1>5. History'
  BY <1>4 DEF TypeInv, Respond, History
<1> QED
  BY <1>1, <1>3, <1>5 DEF TypeInv

(* What a step leaves alone.                                               *)
LEMMA TypeKept ==
  ASSUME TypeInv
  PROVE  /\ UNCHANGED tables => Tables'
         /\ UNCHANGED <<deleting, last, requests>> /\ clean' \in [Actors -> BOOLEAN]
              /\ moved' \subseteq Payments => History'
         /\ \A a \in Actors : Forget(a) => got' \in [Actors -> Data]
         /\ got' = got => got' \in [Actors -> Data]
<1>1. NoData \in Data
  BY DEF NoData, Data, Statuses
<1> QED
  BY <1>1 DEF TypeInv, tables, Tables, History, Works, Forget
\* What a statement may rely on.
LEMMA TypeFields ==
  ASSUME TypeInv, InvoiceInv, NEW a \in Actors
  PROVE  /\ req[a] \in Requests \cup {NoRequest} /\ InPlace(req[a].op, pc[a])
         /\ row \in [Invoices -> Rows] /\ pay \in [Payments -> Pays]
         /\ share \in [Payments -> [Invoices -> Nat]] /\ debt \in Nat
         /\ got \in [Actors -> Data] /\ clean \in [Actors -> BOOLEAN] /\ moved \subseteq Payments
         /\ got[a].amt \in Nat /\ got[a].alloc \in Nat /\ got[a].sales \in Nat
         /\ got[a].st \in Statuses
BY DEF TypeInv, InvoiceInv, Tables, Works, History, Data

(* The requests about invoices.                                            *)
LEMMA TypeWrites ==
  ASSUME TypeInv, InvoiceInv, NEW a \in Actors, UNCHANGED fill, moved' \subseteq Payments,
         CreateInsert(a) \/ EditUpdate(a) \/ EditVanished(a) \/ PutUpdate(a) \/ DeleteStart(a)
           \/ Get(a) \/ Skip(a)
  PROVE  TypeInv'
<1>0. PICK r : r = req[a]
  OBVIOUS
<1>1. r \in Requests \cup {NoRequest} /\ InPlace(r.op, pc[a])
  BY <1>0, TypeFields
<1>2. /\ row \in [Invoices -> Rows] /\ got \in [Actors -> Data] /\ clean \in [Actors -> BOOLEAN]
  BY TypeFields
<1>3. /\ Forget(a) => got' \in [Actors -> Data]
      /\ got' = got => got' \in [Actors -> Data]
      /\ UNCHANGED tables => Tables'
      /\ UNCHANGED <<deleting, last, requests>> /\ clean' \in [Actors -> BOOLEAN] => History'
  BY TypeKept
<1>4. ASSUME row' \in [Invoices -> Rows], UNCHANGED <<pay, share, filled, debt>> PROVE Tables'
  BY <1>4 DEF TypeInv, Tables
<1>5. CASE CreateInsert(a)
  <2>1. r.inv \in Invoices /\ r.amt \in Nat
    BY <1>0, <1>1, <1>5, RequestFields DEF CreateInsert, InPlace
  <2>2. row' \in [Invoices -> Rows]
    <3>1. [is |-> "live", amt |-> r.amt, st |-> "unpaid"] \in Rows
      BY <2>1 DEF Rows, Statuses
    <3> QED
      BY <1>0, <1>2, <1>5, <3>1 DEF CreateInsert
  <2>3. Tables' /\ History' /\ got' \in [Actors -> Data]
    BY <1>2, <1>3, <1>4, <1>5, <2>2 DEF CreateInsert, ledger, frame
  <2>4. GoTo(a, "ySales") /\ UNCHANGED <<req, updates, fill>> /\ pc[a] \notin {"idle", "done"}
        /\ "ySales" \in PCs
    BY <1>5 DEF CreateInsert, frame, PCs
  <2> QED
    BY <2>3, <2>4, TypeGo
<1>6. CASE EditUpdate(a)
  <2>1. r.inv \in Invoices /\ r.amt \in Nat
    BY <1>0, <1>1, <1>6, RequestFields DEF EditUpdate, InPlace
  <2>2. row' \in [Invoices -> Rows]
    BY <1>0, <1>2, <1>6, <2>1 DEF EditUpdate, Rows
  <2>3. got' \in [Actors -> Data]
    <3>1. row[r.inv].st \in Statuses
      BY <1>2, <2>1 DEF Rows
    <3> QED
      BY <1>0, <1>2, <1>6, <3>1 DEF EditUpdate, Data
  <2>4. Tables' /\ History'
    BY <1>2, <1>3, <1>4, <1>6, <2>2 DEF EditUpdate, ledger, frame
  <2>5. GoTo(a, "kAmt") /\ UNCHANGED <<req, updates, fill>> /\ pc[a] \notin {"idle", "done"}
        /\ "kAmt" \in PCs
    BY <1>6 DEF EditUpdate, frame, PCs
  <2> QED
    BY <2>3, <2>4, <2>5, TypeGo
<1>7. CASE EditVanished(a) \/ Skip(a)
  <2>1. clean' \in [Actors -> BOOLEAN]
    BY <1>2, <1>7 DEF EditVanished, Skip
  <2>2. Tables' /\ History' /\ got' \in [Actors -> Data]
    BY <1>3, <1>7, <2>1 DEF EditVanished, Skip
  <2>3. GoTo(a, "ySales") /\ UNCHANGED <<req, updates, fill>> /\ pc[a] \notin {"idle", "done"}
        /\ "ySales" \in PCs
    BY <1>7 DEF EditVanished, Skip, PCs
  <2> QED
    BY <2>2, <2>3, TypeGo
<1>8. CASE PutUpdate(a)
  <2>1. r.inv \in Invoices /\ r.amt \in Nat /\ r.st \in Statuses
    BY <1>0, <1>1, <1>8, RequestFields DEF PutUpdate, InPlace
  <2>2. row' \in [Invoices -> Rows]
    BY <1>0, <1>2, <1>8, <2>1 DEF PutUpdate, Rows
  <2>3. Tables' /\ History' /\ got' \in [Actors -> Data]
    BY <1>2, <1>3, <1>4, <1>8, <2>2 DEF PutUpdate, ledger, frame
  <2>4. PICK s \in {"ySales", "done"} : GoTo(a, s)
    BY <1>8 DEF PutUpdate
  <2>5. UNCHANGED <<req, updates, fill>> /\ pc[a] \notin {"idle", "done"} /\ s \in PCs
    BY <1>8 DEF PutUpdate, frame, PCs
  <2> QED
    BY <2>3, <2>4, <2>5, TypeGo
<1>9. CASE DeleteStart(a)
  <2>1. r.inv \in Invoices
    BY <1>0, <1>9 DEF DeleteStart, Live
  <2>2. History' /\ Tables' /\ got' \in [Actors -> Data]
    BY <1>0, <1>3, <1>9, <2>1 DEF DeleteStart, TypeInv, History
  <2>3. GoTo(a, "ySales") /\ UNCHANGED <<req, updates, fill>> /\ pc[a] \notin {"idle", "done"}
        /\ "ySales" \in PCs
    BY <1>9 DEF DeleteStart, PCs
  <2> QED
    BY <2>2, <2>3, TypeGo
<1>10. CASE Get(a)
  <2>1. r.inv \in Invoices
    BY <1>0, <1>10 DEF Get, Live
  <2>2. row[r.inv].amt \in Nat /\ row[r.inv].st \in Statuses
    BY <1>2, <2>1 DEF Rows
  <2>3. r.op \in {"edit", "put", "recalc"}
    BY <1>0, <1>1, <1>10 DEF Get, InPlace
  <2>4. got' \in [Actors -> Data]
    <3>1. CASE r.op = "put"
      <4>1. got' = [got EXCEPT ![a].amt = row[r.inv].amt]
        BY <1>0, <1>10, <3>1 DEF Get
      <4> QED
        BY <1>2, <2>2, <4>1 DEF Data
    <3>2. CASE r.op = "recalc"
      <4>1. got' = [got EXCEPT ![a].st = row[r.inv].st]
        BY <1>0, <1>10, <3>2 DEF Get
      <4> QED
        BY <1>2, <2>2, <4>1 DEF Data
    <3>3. CASE r.op = "edit"
      <4>1. got' = got
        BY <1>0, <1>10, <3>3 DEF Get
      <4> QED
        BY <1>2, <4>1
    <3> QED
      BY <2>3, <3>1, <3>2, <3>3
  <2>5. PICK s \in {"eUpdate", "pUpdate", "kAmt"} : GoTo(a, s)
    BY <1>0, <1>10, <2>3 DEF Get
  <2>6. Tables' /\ History' /\ UNCHANGED <<req, updates, fill>> /\ pc[a] \notin {"idle", "done"}
        /\ s \in PCs
    BY <1>2, <1>3, <1>10 DEF Get, frame, PCs
  <2> QED
    BY <2>4, <2>5, <2>6, TypeGo
<1> QED
  BY <1>5, <1>6, <1>7, <1>8, <1>9, <1>10

(* The computation of the status.                                          *)
LEMMA TypeStatus ==
  ASSUME TypeInv, InvoiceInv, NEW a \in Actors, UNCHANGED fill, moved' \subseteq Payments,
         CheckAmount(a) \/ CheckAlloc(a) \/ CheckDefault(a) \/ StatusWrite(a)
  PROVE  TypeInv'
<1>0. PICK i : i = req[a].inv
  OBVIOUS
<1>1. InPlace(req[a].op, pc[a])
  BY TypeFields
<1>2. /\ row \in [Invoices -> Rows] /\ got \in [Actors -> Data] /\ clean \in [Actors -> BOOLEAN]
  BY TypeFields
<1>3. /\ Forget(a) => got' \in [Actors -> Data]
      /\ got' = got => got' \in [Actors -> Data]
      /\ UNCHANGED tables => Tables'
      /\ UNCHANGED <<deleting, last, requests>> /\ clean' \in [Actors -> BOOLEAN] => History'
  BY TypeKept
<1>4. i \in Invoices
  <2>1. req[a].op \in {"edit", "recalc", "attach"}
    BY <1>1 DEF InPlace, StatusOps, CheckAmount, CheckAlloc, CheckDefault, StatusWrite
  <2>2. PICK r \in Requests \cup {NoRequest} : r = req[a]
    BY TypeFields
  <2>3. r.op \in {"edit", "recalc", "attach"} => r.inv \in Invoices
    BY RequestFields DEF Requests, PaymentRequests, InvoiceRequests, NoRequest
  <2> QED
    BY <1>0, <2>1, <2>2, <2>3
<1>5. CASE CheckAmount(a)
  <2>1. row[i].amt \in Nat
    BY <1>2, <1>4 DEF Rows
  <2>2. got' \in [Actors -> Data]
    BY <1>0, <1>2, <1>5, <2>1 DEF CheckAmount, Data
  <2>3. Tables' /\ History' /\ GoTo(a, "kAlloc") /\ UNCHANGED <<req, updates, fill>>
        /\ pc[a] \notin {"idle", "done"} /\ "kAlloc" \in PCs
    BY <1>2, <1>3, <1>5 DEF CheckAmount, frame, PCs
  <2> QED
    BY <2>2, <2>3, TypeGo
<1>6. CASE CheckAlloc(a)
  <2>1. AllocatedTo(i) \in Nat
    BY <1>4, SumTypes DEF TypeInv
  <2>2. got' \in [Actors -> Data]
    BY <1>0, <1>2, <1>6, <2>1 DEF CheckAlloc, Data
  <2>3. Tables' /\ History' /\ GoTo(a, "kWrite") /\ UNCHANGED <<req, updates, fill>>
        /\ pc[a] \notin {"idle", "done"} /\ "kWrite" \in PCs
    BY <1>2, <1>3, <1>6 DEF CheckAlloc, frame, PCs
  <2> QED
    BY <2>2, <2>3, TypeGo
<1>7. CASE CheckDefault(a)
  <2>1. clean' \in [Actors -> BOOLEAN]
    BY <1>2, <1>7 DEF CheckDefault
  <2>2. Tables' /\ History' /\ got' \in [Actors -> Data] /\ GoTo(a, "kDefault")
        /\ UNCHANGED <<req, updates, fill>> /\ pc[a] \notin {"idle", "done"} /\ "kDefault" \in PCs
    BY <1>3, <1>7, <2>1 DEF CheckDefault, PCs
  <2> QED
    BY <2>2, TypeGo
<1>8. CASE StatusWrite(a)
  <2>1. PICK new \in Statuses :
          row' = IF Live(i) /\ (req[a].op = "attach" \/ new # got[a].st)
                 THEN [row EXCEPT ![i].st = new] ELSE row
    BY <1>0, <1>8 DEF StatusWrite, Coverage, Statuses
  <2>2. row' \in [Invoices -> Rows]
    BY <1>2, <1>4, <2>1 DEF Rows
  <2>3. Tables'
    BY <1>8, <2>2 DEF StatusWrite, ledger, TypeInv, Tables
  <2>4. PICK s \in {"ySales", "done"} : GoTo(a, s)
    BY <1>8 DEF StatusWrite, AfterStatus
  <2>5. History' /\ got' \in [Actors -> Data] /\ UNCHANGED <<req, updates, fill>>
        /\ pc[a] \notin {"idle", "done"} /\ s \in PCs
    BY <1>2, <1>3, <1>8 DEF StatusWrite, frame, PCs
  <2> QED
    BY <2>3, <2>4, <2>5, TypeGo
<1> QED
  BY <1>5, <1>6, <1>7, <1>8

(* The update of the debt.                                                 *)
LEMMA TypeSync ==
  ASSUME TypeInv, InvoiceInv, NEW a \in Actors, UNCHANGED fill, moved' \subseteq Payments,
         SyncSales(a) \/ SyncPaid(a) \/ SyncWrite(a) \/ SyncRetry(a)
  PROVE  TypeInv'
<1>1. InPlace(req[a].op, pc[a])
  BY TypeFields
<1>2. /\ got \in [Actors -> Data] /\ clean \in [Actors -> BOOLEAN] /\ Sales \in Nat /\ Paid \in Nat
  BY TypeFields, SumTypes DEF TypeInv
<1>3. /\ Forget(a) => got' \in [Actors -> Data]
      /\ UNCHANGED tables => Tables'
      /\ UNCHANGED <<deleting, last, requests>> /\ clean' \in [Actors -> BOOLEAN] => History'
  BY TypeKept
<1>4. CASE SyncSales(a)
  <2>1. got' \in [Actors -> Data]
    BY <1>2, <1>4 DEF SyncSales, Data
  <2>2. Tables' /\ History' /\ GoTo(a, "yPaid") /\ UNCHANGED <<req, updates, fill>>
        /\ pc[a] \notin {"idle", "done"} /\ "yPaid" \in PCs
    BY <1>2, <1>3, <1>4 DEF SyncSales, frame, PCs
  <2> QED
    BY <2>1, <2>2, TypeGo
<1>5. CASE SyncPaid(a)
  <2>1. got' \in [Actors -> Data]
    BY <1>2, <1>5 DEF SyncPaid, Data
  <2>2. Tables' /\ History' /\ GoTo(a, "yWrite") /\ UNCHANGED <<req, updates, fill>>
        /\ pc[a] \notin {"idle", "done"} /\ "yWrite" \in PCs
    BY <1>2, <1>3, <1>5 DEF SyncPaid, frame, PCs
  <2> QED
    BY <2>1, <2>2, TypeGo
<1>6. CASE SyncRetry(a)
  <2>1. Tables' /\ History' /\ got' \in [Actors -> Data] /\ GoTo(a, "ySales")
        /\ UNCHANGED <<req, updates, fill>> /\ pc[a] \notin {"idle", "done"} /\ "ySales" \in PCs
    BY <1>2, <1>3, <1>6 DEF SyncRetry, frame, PCs
  <2> QED
    BY <2>1, TypeGo
<1>7. CASE SyncWrite(a)
  <2>1. debt' \in Nat
    <3>1. got[a].sales \in Nat /\ got[a].alloc \in Nat
      BY TypeFields
    <3> QED
      BY <1>7, <3>1 DEF SyncWrite, Debt
  <2>2. Tables'
    BY <1>7, <2>1 DEF SyncWrite, ledger, TypeInv, Tables
  <2>3. History' /\ got' \in [Actors -> Data]
    BY <1>2, <1>3, <1>7 DEF SyncWrite
  <2>4. req[a].op \notin {"link", "attach"} /\ pc[a] = "yWrite"
    BY <1>1, <1>7 DEF SyncWrite, InPlace, DebtOps
  <2>5. updates[a] \in 1..3
    BY <2>4 DEF TypeInv, Works
  <2>6. /\ AfterSync(a) \in {"done", "aRead", "ySales"} /\ AfterSync(a) \in PCs
        /\ updates[a] = 1 => AfterSync(a) = "done"
    BY DEF AfterSync, PCs
  <2>7. /\ pc' = [pc EXCEPT ![a] = AfterSync(a)] /\ req' = req
        /\ updates' = [updates EXCEPT ![a] = updates[a] - 1]
    BY <1>7 DEF SyncWrite, GoTo
  <2>8. updates[a] - 1 \in 0..3 /\ (updates[a] # 1 => updates[a] - 1 # 0)
    BY <2>5
  <2>9. Works'
    BY <2>3, <2>4, <2>6, <2>7, <2>8 DEF TypeInv, Works
  <2>10. FillTypes'
    BY DEF TypeInv, FillTypes
  <2> QED
    BY <2>2, <2>3, <2>9, <2>10 DEF TypeInv
<1> QED
  BY <1>4, <1>5, <1>6, <1>7

LEMMA TypeInvoice ==
  ASSUME TypeInv, InvoiceInv, NEW a \in Actors, InvoiceStep(a), UNCHANGED fill, moved' \subseteq Payments
  PROVE  TypeInv'
<1>1. ASSUME NEW r \in InvoiceRequests, Arrive(a, r, InvoiceFirst(r), IF r.op = "delete" THEN 2 ELSE 1)
      PROVE  TypeInv'
  <2>1. r.op \in {"create", "edit", "put", "delete", "recalc"}
    BY DEF InvoiceRequests
  <2>2. r \in Requests /\ InvoiceFirst(r) \in PCs
    BY <2>1 DEF Requests, InvoiceFirst, PCs
  <2>3. PICK n \in 1..2 : Arrive(a, r, InvoiceFirst(r), n)
    BY <1>1
  <2>4. n \in 0..3 /\ n # 0
    BY <2>3
  <2> QED
    BY <2>2, <2>3, <2>4, TypeArrive
<1>2. CASE NotFound(a) \/ Fault(a) \/ SyncFail(a)
  BY <1>2, TypeRespond DEF NotFound, Fault, SyncFail
<1>3. CASE Done(a)
  BY <1>3, TypeRespond DEF Done
<1> QED
  BY <1>1, <1>2, <1>3, TypeWrites, TypeStatus, TypeSync DEF InvoiceStep
(* The requests about payments.                                            *)
LEMMA TypePaymentArrive ==
  ASSUME TypeInv, NEW a \in Actors, UNCHANGED fill, moved' \subseteq Payments,
         NEW r \in PaymentRequests, Arrive(a, r, PaymentFirst(r), UpdatesOf(r))
  PROVE  TypeInv'
<1>1. r.op \in {"pay", "repay", "unpay", "allocate", "link", "attach"}
  BY DEF PaymentRequests
<1>2. r \in Requests /\ PaymentFirst(r) \in PCs
  BY <1>1 DEF Requests, PaymentFirst, PCs
<1>3. UpdatesOf(r) \in 0..3 /\ (r.op \notin {"link", "attach"} => UpdatesOf(r) # 0)
  BY <1>1 DEF UpdatesOf
<1> QED
  BY <1>2, <1>3, TypeArrive

LEMMA TypePayWrites ==
  ASSUME TypeInv, InvoiceInv, NEW a \in Actors, UNCHANGED fill, moved' \subseteq Payments,
         PaymentInsert(a) \/ AllocateInsert(a) \/ AllocateFlag(a) \/ PaymentUpdate(a)
           \/ PaymentDelete(a)
  PROVE  TypeInv'
<1>0. PICK r \in Requests \cup {NoRequest} : r = req[a]
  BY TypeFields
<1>1. InPlace(r.op, pc[a])
  BY <1>0, TypeFields
<1>2. /\ pay \in [Payments -> Pays] /\ share \in [Payments -> [Invoices -> Nat]]
      /\ clean \in [Actors -> BOOLEAN]
  BY TypeFields
<1>3. /\ got' = got => got' \in [Actors -> Data]
      /\ UNCHANGED <<deleting, last, requests>> /\ clean' \in [Actors -> BOOLEAN] => History'
  BY TypeKept
<1>4. UNCHANGED <<row, debt, got, frame>> /\ pc[a] \notin {"idle", "done"}
      /\ r.op \in {"pay", "allocate", "repay", "unpay"}
  BY <1>0, <1>1 DEF PaymentInsert, AllocateInsert, AllocateFlag, PaymentUpdate, PaymentDelete, InPlace
<1>5. History' /\ got' \in [Actors -> Data] /\ UNCHANGED <<req, updates, fill>>
  BY <1>2, <1>3, <1>4 DEF frame
<1>6. PICK s \in {"ySales", "aFlag"} : GoTo(a, s)
  BY DEF PaymentInsert, AllocateInsert, AllocateFlag, PaymentUpdate, PaymentDelete
<1>7. r.pay \in Payments
  BY <1>4, RequestFields
<1>8. Tables'
  <2>1. ASSUME pay' \in [Payments -> Pays], share' \in [Payments -> [Invoices -> Nat]],
               filled' \subseteq filled
        PROVE  Tables'
    BY <1>4, <2>1 DEF TypeInv, Tables
  <2>2. CASE PaymentInsert(a)
    <3>1. r.amt \in Nat
      BY <1>0, <1>1, <2>2, RequestFields DEF PaymentInsert, InPlace
    <3>2. [NoPayment EXCEPT !.is = "live", !.amt = r.amt] \in Pays
      BY <3>1 DEF NoPayment, Pays
    <3>3. pay' = [pay EXCEPT ![r.pay] = [NoPayment EXCEPT !.is = "live", !.amt = r.amt]]
          /\ UNCHANGED <<share, filled>>
      BY <1>0, <2>2 DEF PaymentInsert
    <3> QED
      BY <1>2, <2>1, <3>2, <3>3
  <2>3. CASE AllocateInsert(a)
    <3>1. r.amt \in Nat /\ r.inv \in Invoices
      BY <1>0, <1>1, <2>3, RequestFields DEF AllocateInsert, InPlace, Live
    <3>2. share' = [share EXCEPT ![r.pay][r.inv] = share[r.pay][r.inv] + r.amt]
          /\ UNCHANGED <<pay, filled>>
      BY <1>0, <2>3 DEF AllocateInsert
    <3>3. share[r.pay][r.inv] + r.amt \in Nat
      BY <1>2, <1>7, <3>1
    <3> QED
      BY <1>2, <1>7, <2>1, <3>1, <3>2, <3>3
  <2>4. CASE AllocateFlag(a)
    <3>1. pay' \in [Payments -> Pays] /\ UNCHANGED <<share, filled>>
      BY <1>0, <1>2, <1>7, <2>4 DEF AllocateFlag, Pays
    <3> QED
      BY <1>2, <2>1, <3>1
  <2>5. CASE PaymentUpdate(a)
    <3>1. r.amt \in Nat
      BY <1>0, <1>1, <2>5, RequestFields DEF PaymentUpdate, InPlace
    <3>2. pay' \in [Payments -> Pays] /\ UNCHANGED <<share, filled>>
      BY <1>0, <1>2, <1>7, <2>5, <3>1 DEF PaymentUpdate, Pays
    <3> QED
      BY <1>2, <2>1, <3>2
  <2>6. CASE PaymentDelete(a)
    <3>1. [NoPayment EXCEPT !.is = "gone"] \in Pays
      BY DEF NoPayment, Pays
    <3>2. /\ pay' = [pay EXCEPT ![r.pay] = [NoPayment EXCEPT !.is = "gone"]]
          /\ share' = [share EXCEPT ![r.pay] = [i \in Invoices |-> 0]]
          /\ filled' \subseteq filled
      BY <1>0, <2>6 DEF PaymentDelete
    <3>3. [i \in Invoices |-> 0] \in [Invoices -> Nat]
      OBVIOUS
    <3> QED
      BY <1>2, <2>1, <3>1, <3>2, <3>3
  <2> QED
    BY <2>2, <2>3, <2>4, <2>5, <2>6
<1>9. s \in PCs
  BY DEF PCs
<1> QED
  BY <1>4, <1>5, <1>6, <1>8, <1>9, TypeGo

LEMMA TypeLinks ==
  ASSUME TypeInv, InvoiceInv, NEW a \in Actors, UNCHANGED fill, moved' \subseteq Payments,
         LinkPayment(a) \/ LinkRead(a) \/ LinkWrite(a) \/ LinkSkip(a)
  PROVE  TypeInv'
<1>0. PICK r \in Requests \cup {NoRequest} : r = req[a]
  BY TypeFields
<1>1. InPlace(r.op, pc[a])
  BY <1>0, TypeFields
<1>2. /\ row \in [Invoices -> Rows] /\ pay \in [Payments -> Pays]
      /\ got \in [Actors -> Data] /\ clean \in [Actors -> BOOLEAN]
  BY TypeFields
<1>3. /\ Forget(a) => got' \in [Actors -> Data]
      /\ got' = got => got' \in [Actors -> Data]
      /\ UNCHANGED tables => Tables'
      /\ UNCHANGED <<deleting, last, requests>> /\ clean' \in [Actors -> BOOLEAN] => History'
  BY TypeKept
<1>4. r.op \in {"link", "attach"} /\ pc[a] \notin {"idle", "done"}
  BY <1>0, <1>1 DEF LinkPayment, LinkRead, LinkWrite, LinkSkip, InPlace
<1>5. r.pay \in Payments /\ r.inv \in Invoices
  BY <1>4, RequestFields
<1>6. PICK s \in {"lRead", "lWrite", "kAmt", "done"} : GoTo(a, s)
  BY DEF LinkPayment, LinkRead, LinkWrite, LinkSkip, AfterLink
<1>7. s \in PCs /\ UNCHANGED <<req, updates, fill>>
  BY DEF PCs, LinkPayment, LinkRead, LinkWrite, LinkSkip, frame
<1>8. clean' \in [Actors -> BOOLEAN]
  <2>1. CASE LinkPayment(a)
    BY <1>2, <2>1 DEF LinkPayment, Held
  <2>2. CASE LinkSkip(a)
    BY <1>2, <2>2 DEF LinkSkip
  <2>3. CASE LinkRead(a) \/ LinkWrite(a)
    BY <1>2, <2>3 DEF LinkRead, LinkWrite, frame
  <2> QED
    BY <2>1, <2>2, <2>3
<1>9. History'
  BY <1>3, <1>8 DEF LinkPayment, LinkRead, LinkWrite, LinkSkip, frame
<1>10. Tables' /\ got' \in [Actors -> Data]
  <2>1. CASE LinkPayment(a)
    <3>1. pay' = pay \/ pay' = [pay EXCEPT ![r.pay] = [pay[r.pay] EXCEPT !.flag = TRUE, !.link = r.inv]]
      BY <1>0, <2>1 DEF LinkPayment
    <3>2. pay[r.pay] \in Pays
      BY <1>2, <1>5
    <3>3. [pay[r.pay] EXCEPT !.flag = TRUE, !.link = r.inv] \in Pays
      BY <1>5, <3>2 DEF Pays
    <3>4. pay' \in [Payments -> Pays]
      BY <1>2, <3>1, <3>3
    <3> QED
      BY <1>3, <2>1, <3>4 DEF LinkPayment, TypeInv, Tables
  <2>2. CASE LinkRead(a)
    <3>1. AllocatedTo(r.inv) \in Nat /\ row[r.inv].st \in Statuses
      BY <1>2, <1>5, SumTypes DEF TypeInv, Rows
    <3>2. got' = got \/ got' = [got EXCEPT ![a] = [got[a] EXCEPT !.st = row[r.inv].st,
                                                                  !.alloc = AllocatedTo(r.inv)]]
      BY <1>0, <2>2 DEF LinkRead
    <3>3. got[a] \in Data
      BY <1>2
    <3>4. [got[a] EXCEPT !.st = row[r.inv].st, !.alloc = AllocatedTo(r.inv)] \in Data
      BY <3>1, <3>3 DEF Data
    <3>5. got' \in [Actors -> Data]
      BY <1>2, <3>2, <3>4
    <3> QED
      BY <1>3, <2>2, <3>5 DEF LinkRead
  <2>3. CASE LinkWrite(a)
    <3>1. row' \in [Invoices -> Rows]
      BY <1>0, <1>2, <1>5, <2>3 DEF LinkWrite, Rows, Statuses
    <3> QED
      BY <1>3, <2>3, <3>1 DEF LinkWrite, ledger, TypeInv, Tables
  <2>4. CASE LinkSkip(a)
    BY <1>3, <2>4 DEF LinkSkip
  <2> QED
    BY <2>1, <2>2, <2>3, <2>4
<1> QED
  BY <1>4, <1>6, <1>7, <1>9, <1>10, TypeGo

LEMMA TypePayment ==
  ASSUME TypeInv, InvoiceInv, NEW a \in Actors, PaymentStep(a), UNCHANGED fill,
         moved' \subseteq Payments
  PROVE  TypeInv'
<1>1. clean \in [Actors -> BOOLEAN] /\ got \in [Actors -> Data]
  BY TypeFields
<1>2. /\ Forget(a) => got' \in [Actors -> Data]
      /\ got' = got => got' \in [Actors -> Data]
      /\ UNCHANGED tables => Tables'
      /\ UNCHANGED <<deleting, last, requests>> /\ clean' \in [Actors -> BOOLEAN] => History'
  BY TypeKept
<1>3. ASSUME NEW s \in PCs, GoTo(a, s), got' \in [Actors -> Data], UNCHANGED <<tables, frame>>,
             pc[a] \notin {"idle", "done"}
      PROVE  TypeInv'
  BY <1>1, <1>2, <1>3, TypeGo DEF frame
<1>4. {"nInsert", "aInsert", "aRead", "uUpdate", "uDelete"} \subseteq PCs
  BY DEF PCs
<1>5. CASE Resolve(a) \/ AllocateRead(a)
  <2>1. pc[a] \notin {"idle", "done"} /\ UNCHANGED tables
    BY <1>5 DEF Resolve, AllocateRead
  <2>2. CASE Respond(a, FALSE)
    BY <2>1, <2>2, TypeRespond
  <2>3. CASE \E s \in {"nInsert", "aInsert"} : GoTo(a, s) /\ UNCHANGED <<got, frame>>
    BY <1>1, <1>3, <1>4, <2>1, <2>3
  <2> QED
    BY <1>5, <2>2, <2>3 DEF Resolve, AllocateRead
<1>6. CASE AllocateFail(a)
  <2>1. pc[a] \notin {"idle", "done"} /\ UNCHANGED tables
    BY <1>6 DEF AllocateFail, InAllocation
  <2>2. CASE Respond(a, FALSE)
    BY <2>1, <2>2, TypeRespond
  <2>3. CASE GoTo(a, "aRead") /\ Forget(a) /\ UNCHANGED frame
    BY <1>2, <1>3, <1>4, <2>1, <2>3
  <2> QED
    BY <1>6, <2>2, <2>3 DEF AllocateFail
<1>7. CASE PaymentRefused(a)
  BY <1>7, TypeRespond DEF PaymentRefused
<1>8. CASE PaymentFind(a)
  BY <1>1, <1>3, <1>4, <1>8 DEF PaymentFind
<1>9. CASE PaymentUpdateRetry(a)
  <2>1. Tables' /\ History' /\ got' \in [Actors -> Data]
    BY <1>1, <1>2, <1>9 DEF PaymentUpdateRetry
  <2>2. pc' = [pc EXCEPT ![a] = "uUpdate"] /\ req' = req /\ updates' = [updates EXCEPT ![a] = 1]
    BY <1>9 DEF PaymentUpdateRetry, GoTo
  <2>3. Works'
    BY <1>4, <2>1, <2>2 DEF TypeInv, Works
  <2>4. FillTypes'
    BY DEF TypeInv, FillTypes
  <2> QED
    BY <2>1, <2>3, <2>4 DEF TypeInv
<1> QED
  BY <1>5, <1>6, <1>7, <1>8, <1>9, TypePaymentArrive, TypePayWrites, TypeLinks DEF PaymentStep
(* The deletion that nobody waits for.                                     *)
LEMMA TypeDelete ==
  ASSUME TypeInv, InvoiceInv, NEW i \in Invoices,
         \/ DeleteRun(i) /\ UNCHANGED fillVars
         \/ DeleteCrash(i) /\ fill' = NoFill /\ UNCHANGED moved
  PROVE  TypeInv'
<1>1. NoData \in Data /\ [NoRow EXCEPT !.is = "gone"] \in Rows /\ NoFill \in Fills
      /\ "idle" \in PCs /\ NoRequest \in Requests \cup {NoRequest}
  BY DEF NoData, NoRow, NoFill, Data, Rows, Fills, Statuses, PCs
<1>2. CASE DeleteRun(i) /\ UNCHANGED fillVars
  <2>1. Tables'
    <3>1. row' \in [Invoices -> Rows] /\ UNCHANGED <<pay, debt>> /\ filled' \subseteq filled
      BY <1>1, <1>2 DEF DeleteRun, TypeInv, Tables
    <3>2. share' \in [Payments -> [Invoices -> Nat]]
      <4>1. \A p \in Payments : [share[p] EXCEPT ![i] = 0] \in [Invoices -> Nat]
        BY DEF TypeInv, Tables
      <4> QED
        BY <1>2, <4>1 DEF DeleteRun
    <3> QED
      BY <3>1, <3>2 DEF TypeInv, Tables
  <2>2. Works' /\ FillTypes'
    BY <1>2 DEF DeleteRun, work, fillVars, TypeInv, Works, FillTypes
  <2>3. History'
    <3>1. clean' \in [Actors -> BOOLEAN]
      BY <1>2 DEF DeleteRun, TypeInv, History
    <3> QED
      BY <1>2, <3>1 DEF DeleteRun, fillVars, TypeInv, History
  <2> QED
    BY <2>1, <2>2, <2>3 DEF TypeInv
<1>3. CASE DeleteCrash(i) /\ fill' = NoFill /\ UNCHANGED moved
  <2>1. Tables' /\ History'
    BY <1>3 DEF DeleteCrash, tables, TypeInv, Tables, History
  <2>2. Works'
    BY <1>1, <1>3 DEF DeleteCrash, TypeInv, Works
  <2>3. FillTypes'
    BY <1>1, <1>3 DEF FillTypes, NoFill
  <2> QED
    BY <2>1, <2>2, <2>3 DEF TypeInv
<1> QED
  BY <1>2, <1>3

(* The backfill.                                                           *)
LEMMA CurrentIn ==
  ASSUME NEW T \in SUBSET Parts, T # {}
  PROVE  Current(T) \in T /\ Current(T).amt \in Nat
<1>1. \A c \in T : c.pay \in Nat /\ c.amt \in Nat
  BY InvoiceAssumption DEF Parts
<1> DEFINE N == {c.pay : c \in T}
<1>2. N \in SUBSET Nat /\ N # {}
  BY <1>1
<1>3. PICK n \in N : \A m \in N : n <= m
  <2> HIDE DEF N
  <2>1. QED
    BY <1>2, LeastNatural
<1>4. \E c \in T : \A d \in T : c.pay <= d.pay
  BY <1>3
<1>5. Current(T) \in T
  BY <1>4 DEF Current
<1> QED
  BY <1>1, <1>5

LEMMA AheadIn ==
  ASSUME Ahead # {}
  PROVE  Min(Ahead) \in Ahead
<1>1. Ahead \in SUBSET Nat
  BY InvoiceAssumption DEF Ahead
<1>2. \E i \in Ahead : \A j \in Ahead : i <= j
  BY <1>1, LeastNatural
<1> QED
  BY <1>2 DEF Min

LEMMA TypeFillOnly ==
  ASSUME TypeInv, UNCHANGED <<vars, moved>>, FillTypes'
  PROVE  TypeInv'
BY DEF TypeInv, Tables, Works, History, vars, tables, work

LEMMA TypeFillRow ==
  ASSUME TypeInv, NEW k \in {"p", "orph"}, NEW p \in Payments, NEW i, NEW n \in Nat,
         FillRow(<<k, p, i>>, n) \/ NoFillRow(<<k, p, i>>), FillTypes'
  PROVE  TypeInv'
<1>1. CASE NoFillRow(<<k, p, i>>)
  BY <1>1, TypeFillOnly DEF NoFillRow
<1>2. CASE FillRow(<<k, p, i>>, n)
  <2>1. i \in Invoices
    BY <1>2 DEF FillRow, CanFill, Live
  <2>2. /\ share' = [share EXCEPT ![p][i] = share[p][i] + n]
        /\ filled' = filled \cup {<<k, p, i>>}
        /\ UNCHANGED <<row, pay, debt, deleting, work, requests>>
        /\ clean' = [a \in Actors |-> FALSE] /\ last' = NoRequest
    BY <1>2 DEF FillRow
  <2>3. share[p][i] + n \in Nat
    BY <2>1 DEF TypeInv, Tables
  <2>4. share' \in [Payments -> [Invoices -> Nat]]
    BY <2>1, <2>2, <2>3 DEF TypeInv, Tables
  <2>5. Tables'
    BY <2>1, <2>2, <2>4 DEF TypeInv, Tables
  <2>6. moved' \subseteq Payments
    BY <1>2 DEF FillRow, TypeInv, History
  <2>7. Works' /\ History'
    BY <2>2, <2>6 DEF TypeInv, Works, History, work
  <2> QED
    BY <2>5, <2>7 DEF TypeInv
<1> QED
  BY <1>1, <1>2

LEMMA TypeBackfill ==
  ASSUME TypeInv, Backfill
  PROVE  TypeInv'
<1>1. /\ fill \in Fills /\ (fill.kind = "none" <=> fill.todo = {})
      /\ fill.kind = "active" => fill.todo \subseteq Lines
      /\ fill.kind \in {"select", "distribute"} => fill.todo \subseteq Parts
  BY DEF TypeInv, FillTypes
<1>2. NoFill \in Fills /\ NoFill.kind = "none" /\ NoFill.todo = {}
  BY DEF NoFill, Fills
<1>3. pay \in [Payments -> Pays]
  BY DEF TypeInv, Tables
<1>4. fill' = NoFill => FillTypes'
  BY <1>2 DEF FillTypes
<1>5. CASE SelectUnrecorded
  <2> DEFINE found == {p \in Payments : Unrecorded(p)}
             todo == {[pay |-> p, inv |-> pay[p].link, amt |-> pay[p].amt] : p \in found}
  <2>1. found # {} /\ fill' = [NoFill EXCEPT !.kind = "active", !.todo = todo]
        /\ UNCHANGED <<vars, moved>>
    BY <1>5 DEF SelectUnrecorded
  <2>2. todo \subseteq Lines
    BY <1>3 DEF Lines, Pays
  <2>3. todo # {}
    BY <2>1
  <2> HIDE DEF todo, found
  <2>4. FillTypes'
    BY <1>2, <2>1, <2>2, <2>3 DEF FillTypes, Fills
  <2> QED
    BY <2>1, <2>4, TypeFillOnly
<1>6. CASE SelectOrphans
  <2> DEFINE found == {p \in Payments : Orphan(p)}
             todo == {[pay |-> p, amt |-> pay[p].amt] : p \in found}
  <2>1. found # {} /\ fill' = [NoFill EXCEPT !.kind = "select", !.todo = todo]
        /\ UNCHANGED <<vars, moved>>
    BY <1>6 DEF SelectOrphans
  <2>2. todo \subseteq Parts
    BY <1>3 DEF Parts, Pays
  <2>3. todo # {}
    BY <2>1
  <2> HIDE DEF todo, found
  <2>4. FillTypes'
    BY <1>2, <2>1, <2>2, <2>3 DEF FillTypes, Fills
  <2> QED
    BY <2>1, <2>4, TypeFillOnly
<1>7. CASE ReadOpen
  <2>1. fill.kind = "select" /\ UNCHANGED <<vars, moved>>
    BY <1>7 DEF ReadOpen
  <2>2. fill.todo \in SUBSET Parts /\ fill.todo # {}
    BY <1>1, <2>1
  <2>3. Current(fill.todo).amt \in Nat
    BY <2>2, CurrentIn
  <2> DEFINE open == [i \in Invoices |-> Remaining(i)]
  <2>4. open \in [Invoices -> Nat]
    <3>1. ASSUME NEW i \in Invoices PROVE Remaining(i) \in Nat
      <4>1. row[i].amt \in Nat /\ AllocatedTo(i) \in Nat
        BY SumTypes DEF TypeInv, Tables, Rows
      <4> QED
        BY <4>1 DEF Remaining
    <3> QED
      BY <3>1
  <2>5. fill' = NoFill
        \/ fill' = [fill EXCEPT !.kind = "distribute", !.left = Current(fill.todo).amt, !.open = open]
    BY <1>7 DEF ReadOpen
  <2> HIDE DEF open
  <2>6. FillTypes'
    BY <1>1, <1>4, <2>2, <2>3, <2>4, <2>5 DEF FillTypes, Fills
  <2> QED
    BY <2>1, <2>6, TypeFillOnly
<1>8. CASE NextOrphan
  <2>1. fill.kind = "distribute" /\ UNCHANGED <<vars, moved>>
    BY <1>8 DEF NextOrphan
  <2> DEFINE rest == fill.todo \ {Current(fill.todo)}
  <2>2. rest \in SUBSET Parts /\ rest \in SUBSET (Lines \cup Parts)
    BY <1>1, <2>1
  <2>3. rest # {} => Current(rest).amt \in Nat
    <3> HIDE DEF rest
    <3> QED
      BY <2>2, CurrentIn
  <2>4. \/ fill' = NoFill
        \/ rest # {} /\ fill' = [fill EXCEPT !.todo = rest, !.left = Current(rest).amt, !.visited = {}]
    BY <1>8 DEF NextOrphan
  <2> HIDE DEF rest
  <2>5. FillTypes'
    BY <1>1, <1>4, <2>1, <2>2, <2>3, <2>4 DEF FillTypes, Fills
  <2> QED
    BY <2>1, <2>5, TypeFillOnly
<1>9. CASE ActiveRow
  <2>1. PICK c \in fill.todo : /\ \/ FillRow(<<"p", c.pay, c.inv>>, c.amt)
                                  \/ NoFillRow(<<"p", c.pay, c.inv>>)
                               /\ fill' = Without(c)
    BY <1>9 DEF ActiveRow
  <2>2. fill.kind = "active" /\ c \in Lines
    BY <1>1, <1>9, <2>1 DEF ActiveRow
  <2>3. FillTypes'
    <3>1. CASE fill.todo = {c}
      BY <1>4, <2>1, <3>1 DEF Without
    <3>2. CASE fill.todo # {c}
      <4>1. fill' = [fill EXCEPT !.todo = fill.todo \ {c}] /\ fill.todo \ {c} # {}
        BY <2>1, <3>2 DEF Without
      <4>2. fill.todo \ {c} \in SUBSET (Lines \cup Parts) /\ fill.todo \ {c} \subseteq Lines
        BY <1>1, <2>2
      <4> QED
        BY <1>1, <2>2, <4>1, <4>2 DEF FillTypes, Fills
    <3> QED
      BY <3>1, <3>2
  <2>4. c.pay \in Payments /\ c.amt \in Nat
    BY <2>2 DEF Lines
  <2> QED
    BY <2>1, <2>3, <2>4, TypeFillRow
<1>10. CASE OrphanRow
  <2>1. fill.kind = "distribute" /\ Ahead # {} /\ fill.left > 0
    BY <1>10 DEF OrphanRow
  <2>2. PICK i : i = Min(Ahead)
    OBVIOUS
  <2>3. i \in Invoices /\ fill.open[i] > 0
    BY <2>1, <2>2, AheadIn DEF Ahead
  <2>4. PICK c : c = Current(fill.todo)
    OBVIOUS
  <2>5. c \in Parts
    BY <1>1, <2>1, <2>4, CurrentIn
  <2>6. PICK n : n = IF fill.left < fill.open[i] THEN fill.left ELSE fill.open[i]
    OBVIOUS
  <2>7. fill.left \in Nat /\ fill.open \in [Invoices -> Nat]
    BY <1>1 DEF Fills
  <2>8. n \in Nat /\ fill.left - n \in Nat /\ fill.open[i] - n \in Nat
    BY <2>3, <2>6, <2>7
  <2> DEFINE next == [fill EXCEPT !.visited = fill.visited \cup {i}]
  <2>9. \/ /\ FillRow(<<"orph", c.pay, i>>, n)
           /\ fill' = [next EXCEPT !.left = next.left - n, !.open[i] = next.open[i] - n]
        \/ NoFillRow(<<"orph", c.pay, i>>) /\ fill' = next
    BY <1>10, <2>2, <2>4, <2>6 DEF OrphanRow
  <2>10. next \in Fills /\ next.kind = "distribute" /\ next.todo = fill.todo
         /\ next.left = fill.left /\ next.open = fill.open
    BY <1>1, <2>1, <2>3 DEF Fills
  <2> HIDE DEF next
  <2>11. FillTypes'
    <3>1. CASE fill' = next
      BY <1>1, <2>1, <2>10, <3>1 DEF FillTypes
    <3>2. CASE fill' = [next EXCEPT !.left = next.left - n, !.open[i] = next.open[i] - n]
      <4>1. [next.open EXCEPT ![i] = next.open[i] - n] \in [Invoices -> Nat]
        BY <2>3, <2>7, <2>8, <2>10
      <4>2. fill' = [next EXCEPT !.left = next.left - n,
                                 !.open = [next.open EXCEPT ![i] = next.open[i] - n]]
        BY <3>2
      <4>3. fill' \in Fills /\ fill'.kind = "distribute" /\ fill'.todo = fill.todo
        BY <2>8, <2>10, <4>1, <4>2 DEF Fills
      <4> QED
        BY <1>1, <2>1, <4>3 DEF FillTypes
    <3> QED
      BY <2>9, <3>1, <3>2
  <2>12. c.pay \in Payments
    BY <2>5 DEF Parts
  <2> QED
    BY <2>8, <2>9, <2>11, <2>12, TypeFillRow
<1> QED
  BY <1>5, <1>6, <1>7, <1>8, <1>9, <1>10 DEF Backfill

(* Every step keeps the types.                                             *)
LEMMA TypeAlways == Spec => []TypeInv
<1>1. FillInit => TypeInv
  <2> SUFFICES ASSUME FillInit PROVE TypeInv
    OBVIOUS
  <2>1. NoRow \in Rows /\ NoPayment \in Pays /\ NoData \in Data /\ NoFill \in Fills
        /\ "idle" \in PCs /\ [i \in Invoices |-> 0] \in [Invoices -> Nat]
    BY DEF NoRow, NoPayment, NoData, NoFill, Rows, Pays, Data, Fills, Statuses, PCs
  <2>2. Tables
    BY <2>1 DEF FillInit, Init, Tables
  <2>3. Works
    BY <2>1 DEF FillInit, Init, Works
  <2>4. History
    BY InvoiceAssumption DEF FillInit, Init, History
  <2>5. FillTypes
    BY <2>1 DEF FillInit, FillTypes, NoFill
  <2> QED
    BY <2>2, <2>3, <2>4, <2>5 DEF TypeInv
<1>2. TypeInv /\ InvoiceInv /\ [Next]_allVars => TypeInv'
  <2> SUFFICES ASSUME TypeInv, InvoiceInv, [Next]_allVars PROVE TypeInv'
    OBVIOUS
  <2>1. ASSUME NEW a \in Actors, Request(a) PROVE TypeInv'
    <3>1. UNCHANGED fill /\ moved' \subseteq Payments
      BY <2>1 DEF Request, TypeInv, History
    <3> QED
      BY <2>1, <3>1, TypeInvoice, TypePayment DEF Request
  <2>2. CASE UNCHANGED allVars
    <3>1. UNCHANGED <<vars, moved>> /\ FillTypes'
      BY <2>2 DEF allVars, fillVars, TypeInv, FillTypes
    <3> QED
      BY <3>1, TypeFillOnly
  <2> QED
    BY <2>1, <2>2, TypeDelete, TypeBackfill DEF Next
<1> QED
  BY <1>1, <1>2, InvoiceAlways, PTL DEF Spec

(* Types: in every state of the requests, the deletions and the backfill   *)
(* the columns, the readings, the debt and what the backfill keeps are of  *)
(* their types; the debt is never negative, and neither is what a          *)
(* distribution has left (routes.ts, storage.ts, backfill-service.ts).     *)
THEOREM InvoiceTypes == Spec => []TypeOK
<1>1. TypeInv => TypeOK
  BY DEF TypeInv, Tables, Works, History, FillTypes, Rows, Pays, Data, Fills, TypeOK
<1> QED
  BY <1>1, TypeAlways, PTL-----------------------------------------------------------------------------
(***************************************************************************)
(* The rows of a payment.  What a request or the backfill is about to      *)
(* write is a claim on the payment: unless the payment was moved or is     *)
(* gone, there is room for each claim beside the rows, and claims of the   *)
(* same payment are counted as moved when the first of them is written.    *)
(***************************************************************************)

\* What the backfill will write for a payment it has selected.
Due(c) == IF fill.kind = "distribute" /\ c = Current(fill.todo) THEN fill.left ELSE c.amt

Claim(p, n) ==
  \/ \E a \in Actors : Allocating(a, p) /\ req[a].amt = n
  \/ \E c \in fill.todo : c.pay = p /\ Due(c) = n

Covered(p, n) ==
  \/ p \in moved \/ pay[p].is = "gone"
  \/ Held(p) /\ n + AllocatedOf(p) <= pay[p].amt

Room == \A p \in Payments, n \in Nat : Claim(p, n) => Covered(p, n)

OneEach == \A c, d \in fill.todo : c.pay = d.pay => c = d

AllocInv == AllocatedWithinPayment /\ Room /\ OneEach

\* A step that leaves the rows of a payment no worse than they were.
Eased(p) ==
  \/ p \in moved'
  \/ pay'[p].is = "gone" /\ AllocatedOf(p)' = 0
  \/ /\ AllocatedOf(p)' <= AllocatedOf(p)
     /\ pay'[p].amt = pay[p].amt /\ pay'[p].is = pay[p].is
  \/ pay[p] = NoPayment /\ AllocatedOf(p)' <= AllocatedOf(p)

LEMMA PaymentTypes ==
  ASSUME TypeInv, TypeInv', NEW p \in Payments
  PROVE  /\ pay[p].amt \in Nat /\ AllocatedOf(p) \in Nat /\ share[p] \in [Invoices -> Nat]
         /\ pay'[p].amt \in Nat /\ AllocatedOf(p)' \in Nat /\ share'[p] \in [Invoices -> Nat]
<1>1. IsFiniteSet(Invoices)
  BY InvoiceAssumption
<1>2. share[p] \in [Invoices -> Nat] /\ share'[p] \in [Invoices -> Nat]
      /\ pay[p].amt \in Nat /\ pay'[p].amt \in Nat
  BY DEF TypeInv, Tables, Pays
<1>3. SumOver(share[p], Invoices) \in Nat /\ SumOver(share'[p], Invoices) \in Nat
  <2>1. ASSUME NEW f \in [Invoices -> Nat] PROVE SumOver(f, Invoices) \in Nat
    BY <1>1, SumType
  <2> QED
    BY <1>2, <2>1
<1> QED
  BY <1>2, <1>3 DEF AllocatedOf

\* A claim that was covered stays so, and rows that fitted still fit.
LEMMA Easing ==
  ASSUME TypeInv, TypeInv', moved \subseteq moved', NEW p \in Payments, Eased(p)
  PROVE  /\ (p \notin moved => AllocatedOf(p) <= pay[p].amt)
              => p \in moved' \/ AllocatedOf(p)' <= pay'[p].amt
         /\ \A n \in Nat : Covered(p, n) => Covered(p, n)'
<1>1. /\ pay[p].amt \in Nat /\ AllocatedOf(p) \in Nat
      /\ pay'[p].amt \in Nat /\ AllocatedOf(p)' \in Nat
  BY PaymentTypes
<1>2. CASE p \in moved'
  BY <1>2 DEF Covered
<1>3. CASE p \notin moved' /\ pay'[p].is = "gone" /\ AllocatedOf(p)' = 0
  BY <1>1, <1>3 DEF Covered
<1>4. CASE /\ p \notin moved' /\ AllocatedOf(p)' <= AllocatedOf(p)
           /\ pay'[p].amt = pay[p].amt /\ pay'[p].is = pay[p].is
  <2>1. p \notin moved
    BY <1>4
  <2> QED
    BY <1>1, <1>4, <2>1 DEF Covered, Held
<1>5. CASE p \notin moved' /\ pay[p] = NoPayment /\ AllocatedOf(p)' <= AllocatedOf(p)
  <2>1. pay[p].is = "none" /\ pay[p].amt = 0 /\ p \notin moved
    BY <1>5 DEF NoPayment
  <2> QED
    BY <1>1, <1>5, <2>1 DEF Covered, Held
<1> QED
  BY <1>2, <1>3, <1>4, <1>5 DEF Eased

\* A step that eases every payment and makes no claim that is not covered.
LEMMA EasingSteps ==
  ASSUME TypeInv, TypeInv', AllocInv, moved \subseteq moved', \A p \in Payments : Eased(p),
         \A p \in Payments, n \in Nat : Claim(p, n)' => Claim(p, n) \/ Covered(p, n)',
         OneEach'
  PROVE  AllocInv'
<1>1. AllocatedWithinPayment'
  BY Easing DEF AllocInv, AllocatedWithinPayment
<1>2. Room'
  BY Easing DEF AllocInv, Room
<1> QED
  BY <1>1, <1>2 DEF AllocInv
LEMMA SameEases ==
  ASSUME TypeInv, TypeInv', NEW p \in Payments, share'[p] = share[p],
         pay'[p].amt = pay[p].amt, pay'[p].is = pay[p].is
  PROVE  Eased(p)
<1>1. AllocatedOf(p)' = AllocatedOf(p) /\ AllocatedOf(p) \in Nat
  BY PaymentTypes DEF AllocatedOf
<1> QED
  BY <1>1 DEF Eased

\* The next statement of one request.
Turn(a) ==
  /\ pc'[a] # "aInsert"
  /\ \A b \in Actors \ {a} : pc'[b] = pc[b] /\ req'[b] = req[b]

LEMMA Claims ==
  ASSUME NEW a \in Actors, Turn(a), UNCHANGED fill, NEW p \in Payments, NEW n \in Nat, Claim(p, n)'
  PROVE  Claim(p, n)
<1>1. CASE \E b \in Actors : Allocating(b, p)' /\ req'[b].amt = n
  BY <1>1 DEF Claim, Turn, Allocating
<1>2. CASE \E c \in fill.todo : c.pay = p /\ Due(c)' = n
  <2>1. \A c : Due(c)' = Due(c)
    BY DEF Due, Current
  <2> QED
    BY <1>2, <2>1 DEF Claim
<1> QED
  BY <1>1, <1>2 DEF Claim

LEMMA TurnSteps ==
  ASSUME TypeInv, TypeInv', AllocInv, NEW a \in Actors, Turn(a), UNCHANGED fill,
         moved \subseteq moved', \A p \in Payments : Eased(p)
  PROVE  AllocInv'
<1>1. OneEach'
  BY DEF AllocInv, OneEach
<1> QED
  BY <1>1, Claims, EasingSteps

\* The requests about invoices write no rows and no payments.
LEMMA InvoiceTurns ==
  ASSUME TypeInv, InvoiceInv, NEW a \in Actors, InvoiceStep(a)
  PROVE  Turn(a) /\ UNCHANGED <<pay, share>>
<1>1. pc \in [Actors -> PCs] /\ DOMAIN req = Actors
  BY DEF TypeInv, Works
<1>2. ASSUME NEW s, s # "aInsert", GoTo(a, s), req' = req
      PROVE  Turn(a)
  BY <1>1, <1>2 DEF GoTo, Turn
<1>3. ASSUME NEW ok, Respond(a, ok)
      PROVE  Turn(a)
  BY <1>1, <1>3 DEF Respond, GoTo, Turn
<1>4. ASSUME NEW r \in InvoiceRequests, NEW n, Arrive(a, r, InvoiceFirst(r), n)
      PROVE  Turn(a) /\ UNCHANGED <<pay, share>>
  <2>1. r.op \in {"create", "edit", "put", "delete", "recalc"}
    BY DEF InvoiceRequests
  <2>2. InvoiceFirst(r) # "aInsert"
    BY <2>1 DEF InvoiceFirst
  <2> QED
    BY <1>1, <1>4, <2>2 DEF Arrive, GoTo, Turn, tables
<1>5. CASE NotFound(a) \/ Done(a) \/ Fault(a) \/ SyncFail(a)
  BY <1>3, <1>5 DEF NotFound, Done, Fault, SyncFail, tables
<1>6. CASE Get(a)
  <2>1. req[a].op \in {"edit", "put", "recalc"}
    BY <1>6, TypeFields DEF Get, InPlace
  <2>2. PICK s \in {"eUpdate", "pUpdate", "kAmt"} : GoTo(a, s)
    BY <1>6, <2>1 DEF Get
  <2>3. UNCHANGED <<pay, share>> /\ req' = req
    BY <1>6 DEF Get, tables, frame
  <2> QED
    BY <1>2, <2>2, <2>3
<1>7. CASE Skip(a) \/ CreateInsert(a) \/ EditUpdate(a) \/ EditVanished(a) \/ DeleteStart(a)
  BY <1>2, <1>7 DEF Skip, CreateInsert, EditUpdate, EditVanished, DeleteStart, tables, ledger, frame
<1>8. CASE PutUpdate(a)
  BY <1>2, <1>8 DEF PutUpdate, ledger, frame
<1>9. CASE CheckAmount(a) \/ CheckAlloc(a) \/ CheckDefault(a)
  BY <1>2, <1>9 DEF CheckAmount, CheckAlloc, CheckDefault, tables, frame
<1>10. CASE StatusWrite(a)
  BY <1>2, <1>10 DEF StatusWrite, AfterStatus, ledger, frame
<1>11. CASE SyncSales(a) \/ SyncPaid(a) \/ SyncRetry(a)
  BY <1>2, <1>11 DEF SyncSales, SyncPaid, SyncRetry, tables, frame
<1>12. CASE SyncWrite(a)
  <2>1. AfterSync(a) # "aInsert"
    BY DEF AfterSync
  <2>2. GoTo(a, AfterSync(a)) /\ req' = req /\ UNCHANGED <<pay, share>>
    BY <1>12 DEF SyncWrite, ledger
  <2> QED
    BY <1>2, <2>1, <2>2
<1> QED
  BY <1>4, <1>5, <1>6, <1>7, <1>8, <1>9, <1>10, <1>11, <1>12 DEF InvoiceStep
\* Nor do most of those about payments; a new amount is counted as a move.
LEMMA PaymentTurns ==
  ASSUME TypeInv, TypeInv', InvoiceInv, NEW a \in Actors, PaymentStep(a), UNCHANGED fill,
         moved \subseteq moved', \A p \in Payments : pc[a] = "uUpdate" /\ pay'[p] # pay[p] => p \in moved'
  PROVE  \/ Turn(a) /\ \A p \in Payments : Eased(p)
         \/ AllocateRead(a) \/ AllocateInsert(a)
<1>1. /\ pc \in [Actors -> PCs] /\ DOMAIN req = Actors /\ pay \in [Payments -> Pays]
      /\ IsFiniteSet(Invoices)
  BY InvoiceAssumption DEF TypeInv, Works, Tables
<1>2. ASSUME NEW s, s # "aInsert", GoTo(a, s), req' = req
      PROVE  Turn(a)
  BY <1>1, <1>2 DEF GoTo, Turn
<1>3. ASSUME NEW ok, Respond(a, ok)
      PROVE  Turn(a)
  BY <1>1, <1>3 DEF Respond, GoTo, Turn
<1>4. UNCHANGED <<pay, share>> => \A p \in Payments : Eased(p)
  BY SameEases
<1>5. PICK r \in Requests \cup {NoRequest} : r = req[a]
  BY TypeFields
<1>6. InPlace(r.op, pc[a])
  BY <1>5, TypeFields
<1>7. ASSUME NEW q \in PaymentRequests, NEW n, Arrive(a, q, PaymentFirst(q), n)
      PROVE  Turn(a) /\ \A p \in Payments : Eased(p)
  <2>1. q.op \in {"pay", "repay", "unpay", "allocate", "link", "attach"}
    BY DEF PaymentRequests
  <2>2. PaymentFirst(q) # "aInsert"
    BY <2>1 DEF PaymentFirst
  <2> QED
    BY <1>1, <1>4, <1>7, <2>2 DEF Arrive, GoTo, Turn, tables
<1>8. CASE Resolve(a)
  <2>1. UNCHANGED <<pay, share>>
    BY <1>8 DEF Resolve, tables
  <2>2. Respond(a, FALSE) \/ (GoTo(a, "nInsert") /\ req' = req)
    BY <1>8 DEF Resolve, frame
  <2> QED
    BY <1>2, <1>3, <1>4, <2>1, <2>2
<1>9. CASE PaymentRefused(a) \/ PaymentFind(a) \/ PaymentUpdateRetry(a)
  <2>1. UNCHANGED <<pay, share>>
    BY <1>9 DEF PaymentRefused, PaymentFind, PaymentUpdateRetry, tables
  <2>2. Respond(a, FALSE) \/ (req' = req /\ (GoTo(a, "uDelete") \/ GoTo(a, "uUpdate")))
    BY <1>9 DEF PaymentRefused, PaymentFind, PaymentUpdateRetry, frame
  <2> QED
    BY <1>2, <1>3, <1>4, <2>1, <2>2
<1>10. CASE AllocateFail(a)
  <2>1. UNCHANGED <<pay, share>>
    BY <1>10 DEF AllocateFail, tables
  <2>2. Respond(a, FALSE) \/ (GoTo(a, "aRead") /\ req' = req)
    BY <1>10 DEF AllocateFail, frame
  <2> QED
    BY <1>2, <1>3, <1>4, <2>1, <2>2
<1>11. CASE LinkRead(a) \/ LinkWrite(a) \/ LinkSkip(a)
  <2>1. UNCHANGED <<pay, share>>
    BY <1>11 DEF LinkRead, LinkWrite, LinkSkip, tables, ledger
  <2>2. PICK s \in {"lWrite", "kAmt", "done"} : GoTo(a, s)
    BY <1>11 DEF LinkRead, LinkWrite, LinkSkip, AfterLink
  <2>3. req' = req
    BY <1>11 DEF LinkRead, LinkWrite, LinkSkip, frame
  <2> QED
    BY <1>2, <1>4, <2>1, <2>2, <2>3
<1>12. CASE LinkPayment(a) \/ AllocateFlag(a)
  <2>1. PICK s \in {"lRead", "ySales"} : GoTo(a, s)
    BY <1>12 DEF LinkPayment, AllocateFlag
  <2>2. req' = req /\ share' = share
    BY <1>12 DEF LinkPayment, AllocateFlag, frame
  <2>3. ASSUME NEW p \in Payments PROVE pay'[p].amt = pay[p].amt /\ pay'[p].is = pay[p].is
    <3>1. pay[r.pay] \in Pays
      <4>1. r.op \in {"pay", "allocate", "link", "attach"}
        BY <1>5, <1>6, <1>12 DEF LinkPayment, AllocateFlag, InPlace
      <4> QED
        BY <1>1, <4>1, RequestFields
    <3> DEFINE x == [pay[r.pay] EXCEPT !.flag = TRUE, !.link = r.inv]
               y == [pay[r.pay] EXCEPT !.flag = TRUE]
    <3>2. \/ pay' = pay \/ pay' = [pay EXCEPT ![r.pay] = x] \/ pay' = [pay EXCEPT ![r.pay] = y]
      BY <1>5, <1>12 DEF LinkPayment, AllocateFlag
    <3>3. x.amt = pay[r.pay].amt /\ x.is = pay[r.pay].is /\ y.amt = pay[r.pay].amt /\ y.is = pay[r.pay].is
      BY <3>1 DEF Pays
    <3> HIDE DEF x, y
    <3> QED
      BY <1>1, <3>2, <3>3
  <2>4. \A p \in Payments : Eased(p)
    BY <2>2, <2>3, SameEases
  <2> QED
    BY <1>2, <2>1, <2>2, <2>4
<1>13. CASE PaymentInsert(a)
  <2>1. /\ pay[r.pay] = NoPayment /\ GoTo(a, "ySales") /\ req' = req /\ share' = share
        /\ pay' = [pay EXCEPT ![r.pay] = [NoPayment EXCEPT !.is = "live", !.amt = r.amt]]
    BY <1>5, <1>13 DEF PaymentInsert, frame
  <2>2. ASSUME NEW p \in Payments PROVE Eased(p)
    <3>1. CASE p = r.pay
      <4>1. AllocatedOf(p)' = AllocatedOf(p) /\ AllocatedOf(p) \in Nat
        BY <2>1, PaymentTypes DEF AllocatedOf
      <4> QED
        BY <2>1, <3>1, <4>1 DEF Eased
    <3>2. CASE p # r.pay
      <4>1. pay'[p] = pay[p] /\ share'[p] = share[p]
        BY <1>1, <2>1, <3>2
      <4> QED
        BY <4>1, SameEases
    <3> QED
      BY <3>1, <3>2
  <2> QED
    BY <1>2, <2>1, <2>2
<1>14. CASE PaymentUpdate(a)
  <2>1. pc[a] = "uUpdate" /\ GoTo(a, "ySales") /\ req' = req /\ share' = share
    BY <1>14 DEF PaymentUpdate, frame
  <2>2. ASSUME NEW p \in Payments PROVE Eased(p)
    <3>1. CASE pay'[p] = pay[p]
      BY <2>1, <3>1, SameEases
    <3>2. CASE pay'[p] # pay[p]
      BY <2>1, <3>2 DEF Eased
    <3> QED
      BY <3>1, <3>2
  <2> QED
    BY <1>2, <2>1, <2>2
<1>15. CASE PaymentDelete(a)
  <2>1. /\ GoTo(a, "ySales") /\ req' = req
        /\ pay' = [pay EXCEPT ![r.pay] = [NoPayment EXCEPT !.is = "gone"]]
        /\ share' = [share EXCEPT ![r.pay] = [i \in Invoices |-> 0]]
    BY <1>5, <1>15 DEF PaymentDelete, frame
  <2>2. ASSUME NEW p \in Payments PROVE Eased(p)
    <3>1. CASE p = r.pay
      <4>1. pay'[p].is = "gone"
        BY <1>1, <2>1, <3>1 DEF NoPayment
      <4>2. share'[p] = [i \in Invoices |-> 0]
        BY <2>1, <3>1 DEF TypeInv, Tables
      <4>3. AllocatedOf(p)' = 0
        <5>1. \A i \in Invoices : share'[p][i] = 0
          BY <4>2
        <5>2. PICK f : f = share'[p]
          OBVIOUS
        <5>3. SumOver(f, Invoices) = 0
          BY <1>1, <5>1, <5>2, SumZero
        <5> QED
          BY <5>2, <5>3 DEF AllocatedOf
      <4> QED
        BY <4>1, <4>3 DEF Eased
    <3>2. CASE p # r.pay
      <4>1. pay'[p] = pay[p] /\ share'[p] = share[p]
        BY <1>1, <2>1, <3>2 DEF TypeInv, Tables
      <4> QED
        BY <4>1, SameEases
    <3> QED
      BY <3>1, <3>2
  <2> QED
    BY <1>2, <2>1, <2>2
<1> QED
  BY <1>7, <1>8, <1>9, <1>10, <1>11, <1>12, <1>13, <1>14, <1>15 DEF PaymentStep
\* A manual allocation that has read goes on only with room for it.
LEMMA ReadClaims ==
  ASSUME TypeInv, TypeInv', InvoiceInv, AllocInv, NEW a \in Actors, AllocateRead(a), UNCHANGED fill,
         moved \subseteq moved'
  PROVE  AllocInv'
<1>1. pc \in [Actors -> PCs] /\ DOMAIN req = Actors
  BY DEF TypeInv, Works
<1>2. UNCHANGED <<pay, share>> /\ \A p \in Payments : Eased(p)
  BY SameEases DEF AllocateRead, tables
<1>3. CASE Respond(a, FALSE)
  <2>1. Turn(a)
    BY <1>1, <1>3 DEF Respond, GoTo, Turn
  <2> QED
    BY <1>2, <2>1, TurnSteps
<1>4. CASE /\ Held(req[a].pay) /\ req[a].amt <= pay[req[a].pay].amt - AllocatedOf(req[a].pay)
           /\ GoTo(a, "aInsert") /\ UNCHANGED frame
  <2>1. req' = req /\ \A b \in Actors \ {a} : pc'[b] = pc[b]
    BY <1>1, <1>4 DEF GoTo, frame
  <2>2. ASSUME NEW p \in Payments, NEW n \in Nat, Claim(p, n)'
        PROVE  Claim(p, n) \/ Covered(p, n)'
    <3>1. CASE \E c \in fill.todo : c.pay = p /\ Due(c)' = n
      <4>1. \A c : Due(c)' = Due(c)
        BY DEF Due, Current
      <4> QED
        BY <3>1, <4>1 DEF Claim
    <3>2. CASE \E b \in Actors \ {a} : Allocating(b, p)' /\ req'[b].amt = n
      BY <2>1, <3>2 DEF Claim, Allocating
    <3>3. CASE req[a].pay = p /\ req[a].amt = n
      <4>1. Held(p) /\ n <= pay[p].amt - AllocatedOf(p)
        BY <1>4, <3>3
      <4>2. pay[p].amt \in Nat /\ AllocatedOf(p) \in Nat /\ AllocatedOf(p)' = AllocatedOf(p)
        BY <1>2, PaymentTypes DEF AllocatedOf
      <4>3. Held(p)' /\ n + AllocatedOf(p)' <= pay'[p].amt
        BY <1>2, <4>1, <4>2 DEF Held
      <4> QED
        BY <4>3 DEF Covered
    <3> QED
      BY <2>1, <2>2, <3>1, <3>2, <3>3 DEF Claim, Allocating
  <2>3. OneEach'
    BY DEF AllocInv, OneEach
  <2> QED
    BY <1>2, <2>2, <2>3, EasingSteps
<1> QED
  BY <1>3, <1>4 DEF AllocateRead

\* A row more in the ledger.
LEMMA OneMore ==
  ASSUME TypeInv, TypeInv', NEW p \in Payments, NEW i \in Invoices, NEW n \in Nat,
         share' = [share EXCEPT ![p][i] = share[p][i] + n]
  PROVE  /\ AllocatedOf(p)' = AllocatedOf(p) + n
         /\ \A q \in Payments \ {p} : share'[q] = share[q]
<1>1. IsFiniteSet(Invoices) /\ share \in [Payments -> [Invoices -> Nat]]
  BY InvoiceAssumption DEF TypeInv, Tables
<1>2. PICK f, h : f = share[p] /\ h = share'[p]
  OBVIOUS
<1>3. h = [f EXCEPT ![i] = f[i] + n] /\ f \in [Invoices -> Nat]
  BY <1>1, <1>2
<1>4. \A x \in Invoices : f[x] \in Nat /\ h[x] = IF x = i THEN f[x] + n ELSE f[x]
  BY <1>3
<1>5. SumOver(h, Invoices) = SumOver(f, Invoices) + n
  BY <1>1, <1>4, SumGrows
<1> QED
  BY <1>1, <1>2, <1>5 DEF AllocatedOf

\* The rows written for a claim that is covered: the payment still covers them, and every
\* other claim on the payment is gone or moved.
LEMMA WrittenClaims ==
  ASSUME TypeInv, TypeInv', AllocInv, moved \subseteq moved',
         NEW p \in Payments, NEW i \in Invoices, NEW n \in Nat, Covered(p, n), Held(p),
         share' = [share EXCEPT ![p][i] = share[p][i] + n],
         \A q \in Payments : pay'[q].amt = pay[q].amt /\ pay'[q].is = pay[q].is,
         \A q \in Payments, m \in Nat : Claim(q, m)' =>
           IF q = p THEN p \in moved' \/ m + AllocatedOf(p)' <= pay[p].amt ELSE Claim(q, m),
         OneEach'
  PROVE  AllocInv'
<1>1. AllocatedOf(p)' = AllocatedOf(p) + n /\ \A q \in Payments \ {p} : share'[q] = share[q]
  BY OneMore
<1>2. pay[p].is = "live" /\ (p \in moved \/ n + AllocatedOf(p) <= pay[p].amt)
  BY DEF Covered, Held
<1>3. pay[p].amt \in Nat /\ AllocatedOf(p) \in Nat
  BY PaymentTypes
<1>4. ASSUME NEW q \in Payments, q # p PROVE Eased(q)
  BY <1>1, <1>4, SameEases
<1>5. AllocatedWithinPayment'
  <2>1. ASSUME NEW q \in Payments \ moved' PROVE AllocatedOf(q)' <= pay'[q].amt
    <3>1. CASE q = p
      BY <1>1, <1>2, <1>3, <2>1, <3>1
    <3>2. CASE q # p
      BY <1>4, <2>1, <3>2, Easing DEF AllocInv, AllocatedWithinPayment
    <3> QED
      BY <3>1, <3>2
  <2> QED
    BY <2>1 DEF AllocatedWithinPayment
<1>6. Room'
  <2>1. ASSUME NEW q \in Payments, NEW m \in Nat, Claim(q, m)' PROVE Covered(q, m)'
    <3>1. CASE q = p
      BY <1>2, <2>1, <3>1 DEF Covered, Held
    <3>2. CASE q # p
      BY <1>4, <2>1, <3>2, Easing DEF AllocInv, Room
    <3> QED
      BY <3>1, <3>2
  <2> QED
    BY <2>1 DEF Room
<1> QED
  BY <1>5, <1>6 DEF AllocInv

LEMMA InsertClaims ==
  ASSUME TypeInv, TypeInv', InvoiceInv, AllocInv, NEW a \in Actors, AllocateInsert(a), UNCHANGED fill,
         moved \subseteq moved',
         \A p \in Payments :
           pc[a] = "aInsert" /\ share'[p] # share[p]
             /\ (Selected(p) \/ \E b \in Actors \ {a} : Allocating(b, p)) => p \in moved'
  PROVE  AllocInv'
<1>1. PICK r \in Requests \cup {NoRequest} : r = req[a]
  BY TypeFields
<1>2. r.op \in {"pay", "allocate"} /\ pc[a] = "aInsert"
  BY <1>1, TypeFields DEF AllocateInsert, InPlace
<1>3. r.pay \in Payments /\ r.inv \in Invoices /\ r.amt \in Nat /\ r.amt # 0
  BY <1>1, <1>2, RequestFields DEF AllocateInsert, Live
<1>4. PICK p, i, n : p = r.pay /\ i = r.inv /\ n = r.amt
  OBVIOUS
<1>5. /\ p \in Payments /\ i \in Invoices /\ n \in Nat /\ n # 0
      /\ share' = [share EXCEPT ![p][i] = share[p][i] + n] /\ Held(p)
      /\ GoTo(a, "aFlag") /\ req' = req /\ pay' = pay
  BY <1>1, <1>3, <1>4 DEF AllocateInsert, frame
<1>6. pc'[a] = "aFlag" /\ \A b \in Actors \ {a} : pc'[b] = pc[b]
  BY <1>5 DEF GoTo, TypeInv, Works
<1>7. Turn(a)
  BY <1>5, <1>6 DEF Turn
<1>8. Covered(p, n)
  BY <1>1, <1>2, <1>4, <1>5 DEF AllocInv, Room, Claim, Allocating
<1>9. share'[p] # share[p]
  <2>1. share'[p][i] = share[p][i] + n /\ share[p][i] \in Nat
    BY <1>5 DEF TypeInv, Tables
  <2> QED
    BY <1>5, <2>1
<1>10. ASSUME NEW q \in Payments, NEW m \in Nat, Claim(q, m)'
       PROVE  IF q = p THEN p \in moved' ELSE Claim(q, m)
  <2>1. Claim(q, m)
    BY <1>7, <1>10, Claims
  <2>2. CASE q = p
    <3>1. Selected(p) \/ \E b \in Actors \ {a} : Allocating(b, p)
      BY <1>5, <1>6, <1>10, <2>2 DEF Claim, Selected, Allocating
    <3> QED
      BY <1>2, <1>5, <1>9, <2>2, <3>1
  <2> QED
    BY <2>1, <2>2
<1>11. OneEach'
  BY DEF AllocInv, OneEach
<1> QED
  BY <1>5, <1>8, <1>10, <1>11, WrittenClaims
\* A step of the backfill that writes nothing.
LEMMA FillTurns ==
  ASSUME TypeInv, TypeInv', AllocInv, UNCHANGED <<vars, moved>>, OneEach',
         \A p \in Payments, n \in Nat, c \in fill'.todo :
           c.pay = p /\ Due(c)' = n => Claim(p, n) \/ Covered(p, n)
  PROVE  AllocInv'
<1>1. UNCHANGED <<pay, share, pc, req>>
  BY DEF vars, tables, work
<1>2. \A p \in Payments : Eased(p)
  BY <1>1, SameEases
<1>3. ASSUME NEW p \in Payments, NEW n \in Nat, Claim(p, n)' PROVE Claim(p, n) \/ Covered(p, n)'
  <2>1. Covered(p, n) => Covered(p, n)'
    BY <1>1 DEF Covered, Held, AllocatedOf
  <2>2. CASE \E a \in Actors : Allocating(a, p)' /\ req'[a].amt = n
    BY <1>1, <2>2 DEF Claim, Allocating
  <2>3. CASE \E c \in fill'.todo : c.pay = p /\ Due(c)' = n
    BY <2>1, <2>3
  <2> QED
    BY <1>3, <2>2, <2>3 DEF Claim
<1> QED
  BY <1>2, <1>3, EasingSteps

LEMMA RowlessRoom ==
  ASSUME TypeInv, NEW p \in Payments, Held(p), Rowless(p)
  PROVE  pay[p].amt \in Nat /\ Covered(p, pay[p].amt)
<1>1. IsFiniteSet(Invoices)
  BY InvoiceAssumption
<1>2. PICK f : f = share[p]
  OBVIOUS
<1>3. AllocatedOf(p) = 0
  <2>1. SumOver(f, Invoices) = 0
    BY <1>1, <1>2, SumZero DEF Rowless
  <2> QED
    BY <1>2, <2>1 DEF AllocatedOf
<1>4. pay[p].amt \in Nat
  BY DEF TypeInv, Tables, Pays
<1> QED
  BY <1>3, <1>4 DEF Covered

LEMMA SelectClaims ==
  ASSUME TypeInv, TypeInv', AllocInv, SelectUnrecorded \/ SelectOrphans
  PROVE  AllocInv'
<1>1. UNCHANGED <<vars, moved>> /\ fill'.kind \in {"active", "select"}
  BY DEF SelectUnrecorded, SelectOrphans, NoFill
<1>2. PICK found \in SUBSET Payments : /\ \A p \in found : Held(p) /\ Rowless(p)
                                       /\ \/ fill'.todo = {[pay |-> p, inv |-> pay[p].link, amt |-> pay[p].amt] : p \in found}
                                          \/ fill'.todo = {[pay |-> p, amt |-> pay[p].amt] : p \in found}
  <2>1. CASE SelectUnrecorded
    <3>1. fill'.todo = {[pay |-> p, inv |-> pay[p].link, amt |-> pay[p].amt]
                        : p \in {q \in Payments : Unrecorded(q)}}
      BY <2>1 DEF SelectUnrecorded, NoFill
    <3> QED
      BY <3>1 DEF Unrecorded
  <2>2. CASE SelectOrphans
    <3>1. fill'.todo = {[pay |-> p, amt |-> pay[p].amt] : p \in {q \in Payments : Orphan(q)}}
      BY <2>2 DEF SelectOrphans, NoFill
    <3> QED
      BY <3>1 DEF Orphan
  <2> QED
    BY <2>1, <2>2
<1>3. \A c \in fill'.todo : c.pay \in found /\ c.amt = pay[c.pay].amt
  BY <1>2
<1>4. OneEach'
  <2>1. \/ fill'.todo = {[pay |-> p, inv |-> pay[p].link, amt |-> pay[p].amt] : p \in found}
        \/ fill'.todo = {[pay |-> p, amt |-> pay[p].amt] : p \in found}
    BY <1>2
  <2> QED
    BY <2>1 DEF OneEach
<1>5. ASSUME NEW p \in Payments, NEW n \in Nat, NEW c \in fill'.todo, c.pay = p, Due(c)' = n
      PROVE  Covered(p, n)
  <2>1. n = pay[p].amt /\ Held(p) /\ Rowless(p)
    BY <1>1, <1>2, <1>3, <1>5 DEF Due
  <2> QED
    BY <2>1, RowlessRoom
<1> QED
  BY <1>1, <1>4, <1>5, FillTurns

LEMMA NextClaims ==
  ASSUME TypeInv, TypeInv', AllocInv, ReadOpen \/ NextOrphan
  PROVE  AllocInv'
<1>1. UNCHANGED <<vars, moved>>
  BY DEF ReadOpen, NextOrphan
<1> DEFINE Left(rest) ==
      /\ rest \subseteq fill.todo
      /\ fill.kind = "distribute" => Current(fill.todo) \notin rest
      /\ fill'.todo = {} \/ (fill'.todo = rest /\ fill'.left = Current(rest).amt)
<1>2. PICK rest : Left(rest)
  <2>1. CASE ReadOpen
    <3>1. fill \in Fills
      BY DEF TypeInv, FillTypes
    <3>2. fill.kind = "select" /\ (fill' = NoFill \/ (fill'.todo = fill.todo /\ fill'.left = Current(fill.todo).amt))
      BY <2>1, <3>1 DEF ReadOpen, Fills
    <3>3. PICK rest : rest = fill.todo
      OBVIOUS
    <3>4. Left(rest)
      BY <3>2, <3>3 DEF NoFill
    <3> QED
      BY <3>4
  <2>2. CASE NextOrphan
    <3>1. fill \in Fills
      BY DEF TypeInv, FillTypes
    <3> DEFINE others == fill.todo \ {Current(fill.todo)}
    <3>2. fill' = NoFill \/ (fill'.todo = others /\ fill'.left = Current(others).amt)
      BY <2>2, <3>1 DEF NextOrphan, Fills
    <3>3. PICK rest : rest = others
      OBVIOUS
    <3>4. Left(rest)
      BY <3>2, <3>3 DEF NoFill
    <3> QED
      BY <3>4
  <2> QED
    BY <2>1, <2>2
<1>3. OneEach'
  BY <1>2 DEF AllocInv, OneEach
<1>4. ASSUME NEW p \in Payments, NEW n \in Nat, NEW c \in fill'.todo, c.pay = p, Due(c)' = n
      PROVE  Claim(p, n)
  <2>1. c \in rest /\ fill'.todo = rest /\ fill'.left = Current(rest).amt
    BY <1>2, <1>4
  <2>2. n = c.amt
    BY <1>4, <2>1 DEF Due
  <2>3. c \in fill.todo /\ Due(c) = n
    BY <1>2, <2>1, <2>2 DEF Due
  <2> QED
    BY <1>4, <2>3 DEF Claim
<1> QED
  BY <1>1, <1>3, <1>4, FillTurns

\* What writing a row leaves to the requests.
LEMMA FillRowClaims ==
  ASSUME TypeInv, AllocInv, NEW k, NEW p \in Payments, NEW i, NEW n \in Nat, FillRow(<<k, p, i>>, n)
  PROVE  /\ i \in Invoices /\ Held(p) /\ moved \subseteq moved' /\ UNCHANGED <<pay, pc, req>>
         /\ share' = [share EXCEPT ![p][i] = share[p][i] + n]
         /\ \A q \in Payments : \A m : (\E a \in Actors : Allocating(a, q)' /\ req'[a].amt = m) =>
              (q = p => p \in moved') /\ Claim(q, m)
<1>1. /\ i \in Invoices /\ Held(p) /\ UNCHANGED <<pay, pc, req>>
      /\ share' = [share EXCEPT ![p][i] = share[p][i] + n]
      /\ moved' = moved \cup {q \in {p} : \E a \in Actors : Allocating(a, q)}
  BY DEF FillRow, CanFill, Live, work
<1>2. \A a \in Actors : \A q : Allocating(a, q)' <=> Allocating(a, q)
  BY <1>1 DEF Allocating
<1> QED
  BY <1>1, <1>2 DEF Claim

LEMMA ActiveClaims ==
  ASSUME TypeInv, TypeInv', AllocInv, ActiveRow
  PROVE  AllocInv'
<1>1. PICK c \in fill.todo : /\ \/ FillRow(<<"p", c.pay, c.inv>>, c.amt)
                                \/ NoFillRow(<<"p", c.pay, c.inv>>)
                             /\ fill' = Without(c)
  BY DEF ActiveRow
<1>2. fill.kind = "active" /\ c \in Lines /\ fill \in Fills /\ fill.todo \subseteq Lines
  BY <1>1 DEF ActiveRow, TypeInv, FillTypes
<1>3. fill'.todo \subseteq fill.todo \ {c} /\ fill'.kind # "distribute"
  BY <1>1, <1>2 DEF Without, NoFill, Fills
<1>4. OneEach'
  BY <1>3 DEF AllocInv, OneEach
<1>5. ASSUME NEW q \in Payments, NEW m \in Nat, NEW d \in fill'.todo, d.pay = q, Due(d)' = m
      PROVE  Claim(q, m) /\ q # c.pay
  <2>1. d \in fill.todo /\ d # c /\ Due(d) = m
    BY <1>2, <1>3, <1>5 DEF Due
  <2> QED
    BY <1>1, <1>5, <2>1 DEF Claim, AllocInv, OneEach
<1>6. CASE NoFillRow(<<"p", c.pay, c.inv>>)
  BY <1>4, <1>5, <1>6, FillTurns DEF NoFillRow
<1>7. CASE FillRow(<<"p", c.pay, c.inv>>, c.amt)
  <2>1. PICK p, i, n : p = c.pay /\ i = c.inv /\ n = c.amt
    OBVIOUS
  <2>2. p \in Payments /\ n \in Nat
    BY <1>2, <2>1 DEF Lines
  <2>3. /\ i \in Invoices /\ Held(p) /\ moved \subseteq moved' /\ UNCHANGED <<pay, pc, req>>
        /\ share' = [share EXCEPT ![p][i] = share[p][i] + n]
        /\ \A q \in Payments : \A m : (\E a \in Actors : Allocating(a, q)' /\ req'[a].amt = m) =>
             (q = p => p \in moved') /\ Claim(q, m)
    BY <1>7, <2>1, <2>2, FillRowClaims
  <2>4. Covered(p, n)
    <3>1. Due(c) = n
      BY <1>2, <2>1 DEF Due
    <3>2. Claim(p, n)
      BY <1>1, <2>1, <3>1 DEF Claim
    <3> QED
      BY <2>2, <3>2 DEF AllocInv, Room
  <2>5. ASSUME NEW q \in Payments, NEW m \in Nat, Claim(q, m)'
        PROVE  IF q = p THEN p \in moved' ELSE Claim(q, m)
    <3>1. CASE \E a \in Actors : Allocating(a, q)' /\ req'[a].amt = m
      BY <2>3, <3>1
    <3>2. CASE \E d \in fill'.todo : d.pay = q /\ Due(d)' = m
      BY <1>5, <2>1, <3>2
    <3> QED
      BY <2>5, <3>1, <3>2 DEF Claim
  <2> QED
    BY <1>4, <2>2, <2>3, <2>4, <2>5, WrittenClaims
<1> QED
  BY <1>1, <1>6, <1>7

LEMMA OrphanClaims ==
  ASSUME TypeInv, TypeInv', AllocInv, OrphanRow
  PROVE  AllocInv'
<1>1. /\ fill.kind = "distribute" /\ Ahead # {} /\ fill \in Fills
      /\ fill.todo \subseteq Parts /\ fill.todo # {}
  BY DEF OrphanRow, TypeInv, FillTypes
<1>2. PICK c, i : c = Current(fill.todo) /\ i = Min(Ahead)
  OBVIOUS
<1>3. c \in fill.todo /\ c \in Parts
  BY <1>1, <1>2, CurrentIn
<1>4. i \in Invoices /\ fill.left \in Nat /\ fill.open \in [Invoices -> Nat]
  BY <1>1, <1>2, AheadIn DEF Ahead, Fills
<1>5. PICK n : n = IF fill.left < fill.open[i] THEN fill.left ELSE fill.open[i]
  OBVIOUS
<1>6. n \in Nat /\ n <= fill.left /\ fill.left - n \in Nat
  BY <1>4, <1>5
<1>7. PICK p : p = c.pay
  OBVIOUS
<1>8. p \in Payments
  BY <1>3, <1>7 DEF Parts
<1>9. fill'.todo = fill.todo /\ fill'.kind = "distribute"
      /\ \/ FillRow(<<"orph", p, i>>, n) /\ fill'.left = fill.left - n
         \/ NoFillRow(<<"orph", p, i>>) /\ fill'.left = fill.left
  <2> DEFINE next == [fill EXCEPT !.visited = fill.visited \cup {i}]
  <2>1. \/ /\ FillRow(<<"orph", p, i>>, n)
           /\ fill' = [next EXCEPT !.left = next.left - n, !.open[i] = next.open[i] - n]
        \/ NoFillRow(<<"orph", p, i>>) /\ fill' = next
    BY <1>2, <1>5, <1>7 DEF OrphanRow
  <2>2. next \in Fills /\ next.kind = "distribute" /\ next.todo = fill.todo /\ next.left = fill.left
    BY <1>1, <1>4 DEF Fills
  <2> HIDE DEF next
  <2> QED
    BY <2>1, <2>2 DEF Fills
<1>10. OneEach'
  BY <1>9 DEF AllocInv, OneEach
<1>11. Claim(p, fill.left) /\ Covered(p, fill.left)
  <2>1. Due(c) = fill.left
    BY <1>1, <1>2 DEF Due
  <2>2. Claim(p, fill.left)
    BY <1>3, <1>7, <2>1 DEF Claim
  <2> QED
    BY <1>4, <1>8, <2>2 DEF AllocInv, Room
<1>12. ASSUME NEW q \in Payments, NEW m \in Nat, NEW d \in fill'.todo, d.pay = q, Due(d)' = m
       PROVE  IF q = p THEN m = fill'.left ELSE Claim(q, m)
  <2>1. d \in fill.todo /\ m = IF d = c THEN fill'.left ELSE d.amt
    BY <1>2, <1>9, <1>12 DEF Due
  <2>2. CASE q = p
    <3>1. d = c
      BY <1>3, <1>7, <1>12, <2>1, <2>2 DEF AllocInv, OneEach
    <3> QED
      BY <2>1, <2>2, <3>1
  <2>3. CASE q # p
    <3>1. d # c
      BY <1>7, <1>12, <2>3
    <3>2. Due(d) = m
      BY <1>2, <2>1, <3>1 DEF Due
    <3> QED
      BY <1>12, <2>1, <2>3, <3>2 DEF Claim
  <2> QED
    BY <2>2, <2>3
<1>13. CASE NoFillRow(<<"orph", p, i>>) /\ fill'.left = fill.left
  <2>1. UNCHANGED <<vars, moved>>
    BY <1>13 DEF NoFillRow
  <2>2. \A q \in Payments, m \in Nat, d \in fill'.todo : d.pay = q /\ Due(d)' = m => Claim(q, m)
    BY <1>11, <1>12, <1>13
  <2> QED
    BY <1>10, <2>1, <2>2, FillTurns
<1>14. CASE FillRow(<<"orph", p, i>>, n) /\ fill'.left = fill.left - n
  <2>1. /\ i \in Invoices /\ Held(p) /\ moved \subseteq moved' /\ UNCHANGED <<pay, pc, req>>
        /\ share' = [share EXCEPT ![p][i] = share[p][i] + n]
        /\ \A q \in Payments : \A m : (\E a \in Actors : Allocating(a, q)' /\ req'[a].amt = m) =>
             (q = p => p \in moved') /\ Claim(q, m)
    BY <1>6, <1>8, <1>14, FillRowClaims
  <2>2. pay[p].amt \in Nat /\ AllocatedOf(p) \in Nat
    BY <1>8, PaymentTypes
  <2>3. Covered(p, n)
    BY <1>4, <1>6, <1>11, <2>2 DEF Covered
  <2>4. AllocatedOf(p)' = AllocatedOf(p) + n
    BY <1>6, <1>8, <2>1, OneMore
  <2>5. p \in moved' \/ fill'.left + AllocatedOf(p)' <= pay[p].amt
    BY <1>4, <1>6, <1>11, <1>14, <2>1, <2>2, <2>4 DEF Covered, Held
  <2>6. ASSUME NEW q \in Payments, NEW m \in Nat, Claim(q, m)'
        PROVE  IF q = p THEN p \in moved' \/ m + AllocatedOf(p)' <= pay[p].amt ELSE Claim(q, m)
    <3>1. CASE \E a \in Actors : Allocating(a, q)' /\ req'[a].amt = m
      BY <2>1, <3>1
    <3>2. CASE \E d \in fill'.todo : d.pay = q /\ Due(d)' = m
      BY <1>12, <2>5, <3>2
    <3> QED
      BY <2>6, <3>1, <3>2 DEF Claim
  <2> QED
    BY <1>6, <1>8, <1>10, <2>1, <2>3, <2>6, WrittenClaims
<1> QED
  BY <1>9, <1>13, <1>14

\* The deletion of an invoice takes its rows; a process that ends takes the claims.
LEMMA DeleteClaims ==
  ASSUME TypeInv, TypeInv', AllocInv, NEW i \in Invoices,
         \/ DeleteRun(i) /\ UNCHANGED fillVars
         \/ DeleteCrash(i) /\ fill' = NoFill /\ UNCHANGED moved
  PROVE  AllocInv'
<1>1. CASE DeleteRun(i) /\ UNCHANGED fillVars
  <2>1. UNCHANGED <<pay, pc, req, fill, moved>> /\ share' = [p \in Payments |-> [share[p] EXCEPT ![i] = 0]]
    BY <1>1 DEF DeleteRun, work, fillVars
  <2>2. ASSUME NEW p \in Payments PROVE Eased(p)
    <3>1. IsFiniteSet(Invoices) /\ share[p] \in [Invoices -> Nat] /\ share'[p] = [share[p] EXCEPT ![i] = 0]
      BY <2>1, <2>2, InvoiceAssumption DEF TypeInv, Tables
    <3>2. PICK f, h : f = share[p] /\ h = share'[p]
      OBVIOUS
    <3>3. \A x \in Invoices : f[x] \in Nat /\ h[x] \in Nat /\ h[x] <= f[x]
      BY <3>1, <3>2
    <3>4. SumOver(h, Invoices) <= SumOver(f, Invoices)
      BY <3>1, <3>3, SumSmaller
    <3>5. AllocatedOf(p)' <= AllocatedOf(p)
      BY <3>2, <3>4 DEF AllocatedOf
    <3> QED
      BY <2>1, <3>5 DEF Eased
  <2>3. ASSUME NEW p \in Payments, NEW n \in Nat, Claim(p, n)' PROVE Claim(p, n)
    BY <2>1, <2>3 DEF Claim, Allocating, Due, Current
  <2>4. OneEach'
    BY <2>1 DEF AllocInv, OneEach
  <2> QED
    BY <2>1, <2>2, <2>3, <2>4, EasingSteps
<1>2. CASE DeleteCrash(i) /\ fill' = NoFill /\ UNCHANGED moved
  <2>1. UNCHANGED <<pay, share, moved>> /\ fill'.todo = {} /\ \A a \in Actors : pc'[a] = "idle"
    BY <1>2 DEF DeleteCrash, tables, NoFill
  <2>2. \A p \in Payments : Eased(p)
    BY <2>1, SameEases
  <2>3. \A p \in Payments, n \in Nat : ~Claim(p, n)'
    BY <2>1 DEF Claim, Allocating
  <2>4. OneEach'
    BY <2>1 DEF OneEach
  <2> QED
    BY <2>1, <2>2, <2>3, <2>4, EasingSteps
<1> QED
  BY <1>1, <1>2

(* The rows of a payment never add up to more than its amount: whatever    *)
(* manual allocations (manualAllocatePaymentToInvoice), backfills, links,  *)
(* retries, deletions and process exits there were, for any number of      *)
(* requests in progress - unless the amount was changed, or another writer *)
(* came between a read or selection and the row written for it.            *)
THEOREM AllocatedSafety == Spec => []AllocatedWithinPayment
<1>1. FillInit => AllocInv
  <2> SUFFICES ASSUME FillInit PROVE AllocInv
    OBVIOUS
  <2>1. fill.todo = {} /\ \A a \in Actors : pc[a] = "idle"
    BY DEF FillInit, Init, NoFill
  <2>2. Room /\ OneEach
    BY <2>1 DEF Room, OneEach, Claim, Allocating
  <2>3. ASSUME NEW p \in Payments PROVE AllocatedOf(p) <= pay[p].amt
    <3>1. IsFiniteSet(Invoices) /\ share[p] = [i \in Invoices |-> 0] /\ pay[p].amt = 0
      BY InvoiceAssumption DEF FillInit, Init, NoPayment
    <3>2. PICK f : f = share[p]
      OBVIOUS
    <3>3. SumOver(f, Invoices) = 0
      BY <3>1, <3>2, SumZero
    <3> QED
      BY <3>1, <3>2, <3>3 DEF AllocatedOf
  <2> QED
    BY <2>2, <2>3 DEF AllocInv, AllocatedWithinPayment
<1>2. TypeInv /\ TypeInv' /\ InvoiceInv /\ AllocInv /\ [Next]_allVars => AllocInv'
  <2> SUFFICES ASSUME TypeInv, TypeInv', InvoiceInv, AllocInv, [Next]_allVars PROVE AllocInv'
    OBVIOUS
  <2>1. ASSUME NEW a \in Actors, Request(a) PROVE AllocInv'
    <3>1. /\ UNCHANGED fill /\ moved \subseteq moved'
          /\ \A p \in Payments :
               \/ pc[a] = "uUpdate" /\ pay'[p] # pay[p]
               \/ /\ pc[a] = "aInsert" /\ share'[p] # share[p]
                  /\ Selected(p) \/ \E b \in Actors \ {a} : Allocating(b, p)
               => p \in moved'
      BY <2>1 DEF Request
    <3>2. CASE InvoiceStep(a)
      <4>1. Turn(a) /\ UNCHANGED <<pay, share>>
        BY <3>2, InvoiceTurns
      <4>2. \A p \in Payments : Eased(p)
        BY <4>1, SameEases
      <4> QED
        BY <3>1, <4>1, <4>2, TurnSteps
    <3>3. CASE PaymentStep(a)
      <4>1. \/ Turn(a) /\ \A p \in Payments : Eased(p)
            \/ AllocateRead(a) \/ AllocateInsert(a)
        BY <3>1, <3>3, PaymentTurns
      <4> QED
        BY <3>1, <4>1, TurnSteps, ReadClaims, InsertClaims
    <3> QED
      BY <2>1, <3>2, <3>3 DEF Request
  <2>2. CASE UNCHANGED allVars
    <3>1. UNCHANGED <<vars, moved>> /\ fill' = fill
      BY <2>2 DEF allVars, fillVars
    <3>2. OneEach'
      BY <3>1 DEF AllocInv, OneEach
    <3>3. \A p \in Payments, n \in Nat, c \in fill'.todo : c.pay = p /\ Due(c)' = n => Claim(p, n)
      BY <3>1 DEF Claim, Due, Current
    <3> QED
      BY <3>1, <3>2, <3>3, FillTurns
  <2> QED
    BY <2>1, <2>2, DeleteClaims, SelectClaims, NextClaims, ActiveClaims, OrphanClaims DEF Next, Backfill
<1>3. AllocInv => AllocatedWithinPayment
  BY DEF AllocInv
<1> QED
  BY <1>1, <1>2, <1>3, TypeAlways, InvoiceAlways, PTL DEF Spec
=============================================================================
