---------------------------- MODULE BillingProofs ----------------------------
(***************************************************************************)
(* What holds of the repairs of the stored debts and of the batches of     *)
(* invoices, for any number of requests, representatives, invoices and     *)
(* batches, whatever statements fail.                                      *)
(***************************************************************************)
EXTENDS InvoiceBatches, FiniteSetTheorems, NaturalsInduction, WellFoundedInduction, TLAPS

(* Sums over finite sets: the recursion of the fold has a solution, by the *)
(* least size of a set for which it had none.                              *)
LEMMA LeastNatural ==
  ASSUME NEW T \in SUBSET Nat, T # {}
  PROVE  \E n \in T : \A m \in T : n <= m
<1>1. PICK n \in T : \A m \in T : <<m, n>> \notin OpToRel(<, Nat)
  BY NatLessThanWellFounded, WFMin
<1>2. \A m \in T : ~(m < n)
  BY <1>1, Zenon DEF OpToRel
<1>3. QED
  BY <1>2

Picks(c, S) == \A s \in SUBSET S : s # {} => c[s] \in s

\* The recursion of a fold that adds v[x] for the element x that c picks.
Recursion(g, v, c, S) ==
  \A s \in SUBSET S : g[s] = IF s = {} THEN 0 ELSE v[c[s]] + g[s \ {c[s]}]

(* It has a solution for every finite set and every way to pick. *)
LEMMA FoldExists ==
  ASSUME NEW S, IsFiniteSet(S), NEW v \in [S -> Nat], NEW c, Picks(c, S)
  PROVE  \E g \in [SUBSET S -> Nat] : Recursion(g, v, c, S)
<1> DEFINE D(n) == {s \in SUBSET S : Cardinality(s) <= n}
           Good(n) == \E g \in [D(n) -> Nat] : \A s \in D(n) :
                        g[s] = IF s = {} THEN 0 ELSE v[c[s]] + g[s \ {c[s]}]
           Bad == {n \in Nat : ~Good(n)}
<1>1. \A s \in SUBSET S : IsFiniteSet(s) /\ Cardinality(s) \in Nat
  BY FS_Subset, FS_CardinalityType
<1>2. \A s \in SUBSET S : s # {} =>
        /\ c[s] \in S /\ s \ {c[s]} \in SUBSET S
        /\ Cardinality(s \ {c[s]}) = Cardinality(s) - 1
  BY <1>1, FS_RemoveElement DEF Picks
<1>3. Good(0)
  <2>1. \A s \in D(0) : s = {}
    BY <1>1, FS_EmptySet
  <2> DEFINE g == [s \in D(0) |-> 0]
  <2>2. g \in [D(0) -> Nat]
    OBVIOUS
  <2>3. QED
    BY <2>1, <2>2
<1>4. ASSUME NEW n \in Nat, Good(n) PROVE Good(n + 1)
  <2>1. PICK g \in [D(n) -> Nat] : \A s \in D(n) :
          g[s] = IF s = {} THEN 0 ELSE v[c[s]] + g[s \ {c[s]}]
    BY <1>4
  <2> DEFINE h == [s \in D(n + 1) |-> IF s \in D(n) THEN g[s] ELSE v[c[s]] + g[s \ {c[s]}]]
  <2>2. ASSUME NEW s \in D(n + 1)
        PROVE  h[s] \in Nat /\ h[s] = IF s = {} THEN 0 ELSE v[c[s]] + h[s \ {c[s]}]
    <3>1. CASE s = {}
      BY <1>1, <2>1, <3>1, FS_EmptySet
    <3>2. CASE s # {}
      <4>1. s \ {c[s]} \in D(n) /\ s \ {c[s]} \in D(n + 1) /\ c[s] \in S
        BY <1>1, <1>2, <3>2
      <4>2. h[s \ {c[s]}] = g[s \ {c[s]}] /\ g[s \ {c[s]}] \in Nat /\ v[c[s]] \in Nat
        BY <2>1, <4>1
      <4>3. h[s] = v[c[s]] + g[s \ {c[s]}]
        BY <2>1, <3>2
      <4>4. QED
        BY <3>2, <4>2, <4>3
    <3>3. QED
      BY <3>1, <3>2
  <2>3. h \in [D(n + 1) -> Nat]
    BY <2>2
  <2>4. QED
    BY <2>2, <2>3
<1>5. \A n \in Nat : Good(n)
  <2> HIDE DEF Good
  <2> SUFFICES ASSUME Bad # {} PROVE FALSE
    OBVIOUS
  <2>1. PICK n \in Bad : \A m \in Bad : n <= m
    BY LeastNatural
  <2>2. n # 0
    BY <1>3, <2>1
  <2>3. n - 1 \in Nat /\ n - 1 \notin Bad
    BY <2>1, <2>2
  <2>4. QED
    BY <1>4, <2>3
<1>6. D(Cardinality(S)) = SUBSET S
  BY <1>1, FS_Subset, FS_CardinalityType
<1>7. Good(Cardinality(S))
  BY <1>1, <1>5
<1>8. QED
  <2> HIDE DEF D
  <2>1. QED
    BY <1>6, <1>7 DEF Recursion

(* A sum of naturals is a natural. *)
LEMMA SumType ==
  ASSUME NEW S, IsFiniteSet(S), NEW f, \A x \in S : f[x] \in Nat
  PROVE  SumOver(f, S) \in Nat
<1> DEFINE v == [x \in S |-> f[x]]
           c == [s \in SUBSET S |-> CHOOSE x \in s : TRUE]
           Rec(g) == g = [s \in SUBSET S |->
                            IF s = {} THEN 0
                            ELSE f[CHOOSE x \in s : TRUE] + g[s \ {CHOOSE x \in s : TRUE}]]
           G == CHOOSE g : Rec(g)
<1>1. v \in [S -> Nat]
  OBVIOUS
<1>2. \A s \in SUBSET S : s # {} => (CHOOSE x \in s : TRUE) \in s
  OBVIOUS
<1>3. Picks(c, S)
  BY <1>2 DEF Picks
<1>4. PICK g \in [SUBSET S -> Nat] : Recursion(g, v, c, S)
  <2> HIDE DEF v, c, Rec
  <2>1. QED
    BY <1>1, <1>3, FoldExists
<1>5. \A s \in SUBSET S : g[s] = IF s = {} THEN 0
        ELSE f[CHOOSE x \in s : TRUE] + g[s \ {CHOOSE x \in s : TRUE}]
  <2> TAKE s \in SUBSET S
  <2>1. CASE s = {}
    BY <1>4, <2>1 DEF Recursion
  <2>2. CASE s # {}
    <3>1. c[s] = (CHOOSE x \in s : TRUE) /\ c[s] \in S
      BY <1>2, <2>2
    <3>2. v[c[s]] = f[c[s]]
      BY <3>1
    <3>3. g[s] = v[c[s]] + g[s \ {c[s]}]
      BY <1>4, <2>2 DEF Recursion
    <3>4. QED
      BY <2>2, <3>1, <3>2, <3>3
  <2>3. QED
    BY <2>1, <2>2
<1>6. Rec(g)
  <2>1. g = [s \in SUBSET S |-> g[s]]
    BY <1>4
  <2>2. QED
    BY <1>5, <2>1
<1>7. SumOver(f, S) = G[S]
  BY DEF SumOver, FoldFunctionOnSet, MapThenFoldSet
<1>8. Rec(G)
  <2> HIDE DEF Rec
  <2>1. QED
    BY <1>6
<1>9. /\ \A s \in SUBSET S : s # {} => \E x \in s : G[s] = f[x] + G[s \ {x}]
      /\ G[{}] = 0
  BY <1>2, <1>8
<1> HIDE DEF G
<1>10. \A s \in SUBSET S : G[s] \in Nat
  <2> DEFINE Bad == {n \in Nat : \E s \in SUBSET S : Cardinality(s) = n /\ G[s] \notin Nat}
  <2>1. \A s \in SUBSET S : IsFiniteSet(s) /\ Cardinality(s) \in Nat
    BY FS_Subset, FS_CardinalityType
  <2>2. ASSUME Bad # {} PROVE FALSE
    <3>1. PICK n \in Bad : \A m \in Bad : n <= m
      <4>1. Bad \in SUBSET Nat
        OBVIOUS
      <4> HIDE DEF Bad
      <4>2. QED
        BY <2>2, <4>1, LeastNatural
    <3>2. PICK s \in SUBSET S : Cardinality(s) = n /\ G[s] \notin Nat
      BY <3>1
    <3>3. PICK x \in s : G[s] = f[x] + G[s \ {x}]
      <4>1. s # {}
        <5>1. G[{}] = 0 /\ 0 \in Nat
          BY <1>9, Zenon
        <5>2. QED
          BY <3>2, <5>1
      <4>2. QED
        BY <1>9, <4>1, Zenon
    <3>4. /\ s \ {x} \in SUBSET S /\ Cardinality(s \ {x}) = n - 1 /\ n - 1 \in Nat
          /\ ~(n <= n - 1)
      BY <2>1, <3>2, <3>3, FS_RemoveElement
    <3>5. n - 1 \notin Bad
      BY <3>1, <3>4
    <3>6. G[s \ {x}] \in Nat
      BY <3>4, <3>5
    <3>7. QED
      BY <3>2, <3>3, <3>6
  <2>3. QED
    BY <2>1, <2>2
<1>11. QED
  BY <1>7, <1>10

(* A sum depends on what is added. *)
LEMMA SumLocal ==
  ASSUME NEW S, NEW f, NEW h, \A x \in S : f[x] = h[x]
  PROVE  SumOver(f, S) = SumOver(h, S)
<1> DEFINE F(g) == g = [s \in SUBSET S |->
                          IF s = {} THEN 0
                          ELSE f[CHOOSE x \in s : TRUE] + g[s \ {CHOOSE x \in s : TRUE}]]
           H(g) == g = [s \in SUBSET S |->
                          IF s = {} THEN 0
                          ELSE h[CHOOSE x \in s : TRUE] + g[s \ {CHOOSE x \in s : TRUE}]]
<1>1. \A s \in SUBSET S : s # {} => (CHOOSE x \in s : TRUE) \in s
  OBVIOUS
<1>2. \A s \in SUBSET S : s # {} => f[CHOOSE x \in s : TRUE] = h[CHOOSE x \in s : TRUE]
  BY <1>1
<1>3. \A g : F(g) <=> H(g)
  BY <1>2
<1>4. (CHOOSE g : F(g)) = (CHOOSE g : H(g))
  <2> HIDE DEF F, H
  <2>1. QED
    BY <1>3, Zenon
<1>5. /\ SumOver(f, S) = (CHOOSE g : F(g))[S]
      /\ SumOver(h, S) = (CHOOSE g : H(g))[S]
  BY DEF SumOver, FoldFunctionOnSet, MapThenFoldSet
<1>6. QED
  BY <1>4, <1>5
-----------------------------------------------------------------------------
(* What a request knows of the representatives that nobody has disturbed   *)
(* since it last looked.                                                   *)
Plans == UNION {[D -> Nat] : D \in SUBSET Reps}

Ops == {"none", "view", "sync", "correct", "monitor", "rollback", "reconcile", "generate", "complete"}

\* Without a representative, and with one.
Between == {"idle", "next", "find", "delete", "restore", "select", "detect", "planned", "adjust",
            "batch", "create", "count", "total"}
AtWork == {"sales", "paid", "compare", "write", "after", "project", "ledger", "cache", "update", "name"}

JobRecords ==
  [op : Ops, pc : Between \cup AtWork, todo : SUBSET Reps, rep : Reps \cup {"none"}, seen : Nat,
   val : Nat, plan : Plans, targets : SUBSET Dated, fixed : BOOLEAN, dirty : SUBSET Reps]

Placed(j) ==
  /\ j.rep = "none" <=> j.pc \in Between
  /\ j.pc \in {"restore", "project"} => j.targets = {} /\ j.todo \subseteq DOMAIN j.plan
  /\ j.pc = "project" => j.rep \in DOMAIN j.plan
  /\ j.pc \in {"delete", "name"} => j.targets # {}
  /\ j.op \notin {"rollback", "reconcile"} => DOMAIN j.plan = {}
  /\ j.op = "reconcile" =>
       /\ j.pc \in {"select", "detect", "ledger", "planned", "adjust", "cache"}
       /\ j.pc = "select" => j.plan = Nothing
       /\ j.pc \in {"detect", "ledger", "adjust", "cache"} => j.todo \subseteq DOMAIN j.plan
       /\ j.pc = "ledger" => j.rep \in j.todo

\* Representatives whose entry in the cache the rollback itself has invalidated.
Renewed(j) == {r \in DOMAIN j.plan : j.targets = {} /\ (j.pc \in {"restore", "project"} => r \notin j.todo)}

Knows(j, sales, debt, led, st, ch) ==
  /\ j.pc \in {"paid", "ledger"} /\ j.rep \notin j.dirty => j.seen = sales[j.rep]
  /\ j.pc \in {"compare", "write"} /\ j.rep \notin j.dirty => j.val = debt[j.rep]
  /\ j.op = "rollback" =>
       \A r \in Renewed(j) \ j.dirty : r \in DOMAIN ch => ch[r] = debt[r]
  /\ j.op = "reconcile" =>
       \A r \in DOMAIN j.plan \ j.dirty :
         IF j.pc \in {"detect", "ledger"} /\ r \in j.todo
           THEN j.plan[r] = st[r]
           ELSE j.pc \in {"detect", "ledger", "planned"} \/ r \in j.todo =>
                  j.plan[r] = led[r] /\ Distance(st[r], j.plan[r]) <= MaxAdjust

JobOK(j, sales, debt, led, st, ch) == j \in JobRecords /\ Placed(j) /\ Knows(j, sales, debt, led, st, ch)

SalesOf == [r \in Reps |-> Sales(r)]
DebtOf == [r \in Reps |-> Debt(r)]
LedgerOf == [r \in Reps |-> LedgerDebt(r)]

DebtTypes ==
  /\ live \in SUBSET Invoices /\ alloc \in [Invoices \X Reps -> Nat]
  /\ \A i \in Invoices, s \in Reps :
       alloc[<<i, s>>] <= Amount[i] /\ (i \notin live => alloc[<<i, s>>] = 0)
  /\ stored \in [Reps -> Nat] /\ cache \in Plans /\ jobs \in 0..MaxJobs
  /\ settled \in [Reps -> {"no", "engine", "ledger"}] /\ current \in SUBSET Reps

\* The cached entries that nothing has overtaken are right.
Fresh == \A r \in current \cap DOMAIN cache : cache[r] = DebtOf[r]

\* What DebtAfterRepair says of the debts that are stored.
Repaired(how, st, debt, led) ==
  \A r \in Reps :
    /\ how[r] = "engine" => Distance(st[r], debt[r]) < Tolerance
    /\ how[r] = "ledger" => Distance(st[r], led[r]) < Tolerance

JobsKnow ==
  /\ job \in [Jobs -> JobRecords]
  /\ \A a \in Jobs : JobOK(job[a], SalesOf, DebtOf, LedgerOf, stored, cache)

DebtInv == DebtTypes /\ JobsKnow /\ Fresh /\ Repaired(settled, stored, DebtOf, LedgerOf)

\* What AdjustWithinLimit says of a step.
Limited ==
  \A a \in Jobs, r \in Reps :
    At(a, {"reconcile"}, "adjust") /\ r \notin job[a].dirty /\ job'[a].pc = "cache"
      /\ job'[a].rep = r => Distance(stored[r], stored'[r]) <= MaxAdjust

LEMMA Numbers ==
  ASSUME NEW x \in Nat, NEW y \in Nat
  PROVE  /\ Distance(x, y) \in Nat /\ Distance(x, y) = Distance(y, x) /\ Distance(x, x) = 0
         /\ NonNegative(x - y) \in Nat
BY DEF Distance, NonNegative

\* A set of invoices with the payers of each.
LEMMA PairsFinite ==
  ASSUME NEW T \in SUBSET Invoices, NEW S \in SUBSET Reps
  PROVE  IsFiniteSet(T \X S)
<1>1. IsFiniteSet(T) /\ IsFiniteSet(S)
  BY DebtAssumption, FS_Subset
<1>2. QED
  BY <1>1, FS_Product

LEMMA PairsSum ==
  ASSUME alloc \in [Invoices \X Reps -> Nat], NEW T \in SUBSET Invoices, NEW S \in SUBSET Reps
  PROVE  SumOver(alloc, T \X S) \in Nat
<1> DEFINE P == T \X S
<1>1. IsFiniteSet(P)
  BY PairsFinite
<1>2. \A x \in P : alloc[x] \in Nat
  OBVIOUS
<1> HIDE DEF P
<1>3. SumOver(alloc, P) \in Nat
  BY <1>1, <1>2, SumType
<1>4. QED
  BY <1>3 DEF P

LEMMA SumTypes ==
  ASSUME DebtTypes
  PROVE  /\ \A r \in Reps : /\ Sales(r) \in Nat /\ Paid(r) \in Nat /\ Debt(r) \in Nat
                            /\ PaidFrom(r) \in Nat /\ LedgerDebt(r) \in Nat
         /\ SalesOf \in [Reps -> Nat] /\ DebtOf \in [Reps -> Nat] /\ LedgerOf \in [Reps -> Nat]
         /\ \A T \in SUBSET Invoices : SumOver(Amount, T) \in Nat
<1>1. \A T \in SUBSET Invoices : SumOver(Amount, T) \in Nat
  <2> TAKE T \in SUBSET Invoices
  <2>1. IsFiniteSet(T) /\ \A i \in T : Amount[i] \in Nat
    BY DebtAssumption, FS_Subset
  <2>2. QED
    BY <2>1, SumType
<1>2. ASSUME NEW r \in Reps PROVE Sales(r) \in Nat /\ Paid(r) \in Nat /\ PaidFrom(r) \in Nat
  <2>1. InvoicesOf(r) \in SUBSET Invoices /\ {r} \in SUBSET Reps /\ Reps \in SUBSET Reps
    BY DEF InvoicesOf, DebtTypes
  <2>2. alloc \in [Invoices \X Reps -> Nat]
    BY DEF DebtTypes
  <2>3. SumOver(alloc, InvoicesOf(r) \X Reps) \in Nat
    BY <2>1, <2>2, PairsSum
  <2>4. SumOver(alloc, Invoices \X {r}) \in Nat
    BY <2>1, <2>2, PairsSum
  <2>5. QED
    BY <1>1, <2>1, <2>3, <2>4 DEF Sales, Paid, PaidFrom
<1>3. \A r \in Reps : Debt(r) \in Nat /\ LedgerDebt(r) \in Nat
  BY <1>2, Numbers DEF Debt, LedgerDebt
<1>4. QED
  BY <1>1, <1>2, <1>3 DEF SalesOf, DebtOf, LedgerOf

\* The ledger determines what is owed.
LEMMA SameLedger ==
  ASSUME UNCHANGED ledgerVars
  PROVE  SalesOf' = SalesOf /\ DebtOf' = DebtOf /\ LedgerOf' = LedgerOf
BY DEF SalesOf, DebtOf, LedgerOf, Debt, LedgerDebt, Sales, Paid, PaidFrom, InvoicesOf, ledgerVars

LEMMA PlanTypes ==
  /\ \A p : p \in Plans =>
       /\ DOMAIN p \in SUBSET Reps /\ \A r \in DOMAIN p : p[r] \in Nat
       /\ \A r \in Reps, v \in Nat :
            /\ With(p, r, v) \in Plans /\ DOMAIN With(p, r, v) = DOMAIN p \cup {r}
            /\ \A s \in DOMAIN p \cup {r} : With(p, r, v)[s] = IF s = r THEN v ELSE p[s]
       /\ \A S : /\ Without(p, S) \in Plans /\ DOMAIN Without(p, S) = DOMAIN p \ S
                 /\ \A s \in DOMAIN p \ S : Without(p, S)[s] = p[s]
  /\ Nothing \in Plans /\ DOMAIN Nothing = {}
<1>1. ASSUME NEW D \in SUBSET Reps, NEW p \in [D -> Nat] PROVE p \in Plans /\ DOMAIN p = D
  BY <1>1 DEF Plans
<1>2. ASSUME NEW p, p \in Plans
      PROVE  /\ DOMAIN p \in SUBSET Reps /\ \A r \in DOMAIN p : p[r] \in Nat
             /\ p \in [DOMAIN p -> Nat]
  BY <1>2 DEF Plans
<1>3. ASSUME NEW p, p \in Plans, NEW r \in Reps, NEW v \in Nat
      PROVE  /\ With(p, r, v) \in Plans /\ DOMAIN With(p, r, v) = DOMAIN p \cup {r}
             /\ \A s \in DOMAIN p \cup {r} : With(p, r, v)[s] = IF s = r THEN v ELSE p[s]
  <2>1. DOMAIN p \cup {r} \in SUBSET Reps /\ With(p, r, v) \in [DOMAIN p \cup {r} -> Nat]
    BY <1>2, <1>3 DEF With
  <2>2. With(p, r, v) \in Plans
    BY <1>1, <2>1
  <2>3. QED
    BY <2>2 DEF With
<1>4. ASSUME NEW p, p \in Plans, NEW S
      PROVE  /\ Without(p, S) \in Plans /\ DOMAIN Without(p, S) = DOMAIN p \ S
             /\ \A s \in DOMAIN p \ S : Without(p, S)[s] = p[s]
  <2>1. DOMAIN p \ S \in SUBSET Reps /\ Without(p, S) \in [DOMAIN p \ S -> Nat]
    BY <1>2, <1>4 DEF Without, Restrict
  <2>2. Without(p, S) \in Plans
    BY <1>1, <2>1
  <2>3. QED
    BY <2>2 DEF Without, Restrict
<1>5. Nothing \in Plans /\ DOMAIN Nothing = {}
  <2>1. Nothing \in [{} -> Nat] /\ {} \in SUBSET Reps
    BY DEF Nothing
  <2>2. QED
    BY <1>1, <2>1
<1>6. QED
  BY <1>2, <1>3, <1>4, <1>5

(* A step of others that disturbs rs and leaves alone what is read of the  *)
(* other representatives, but for outdated entries of the cache.           *)
Agree(rs, sales, debt, led, st, ch, nsales, ndebt, nled, nst, nch) ==
  \A r \in Reps \ rs :
    /\ nsales[r] = sales[r] /\ ndebt[r] = debt[r] /\ nled[r] = led[r] /\ nst[r] = st[r]
    /\ r \in DOMAIN nch => (r \in DOMAIN ch /\ nch[r] = ch[r]) \/ nch[r] = debt[r]

LEMMA Disturbed ==
  ASSUME NEW sales, NEW debt, NEW led, NEW st, NEW ch, NEW nsales, NEW ndebt, NEW nled, NEW nst, NEW nch,
         NEW rs \in SUBSET Reps, Agree(rs, sales, debt, led, st, ch, nsales, ndebt, nled, nst, nch),
         NEW j, JobOK(j, sales, debt, led, st, ch),
         NEW k, k = [j EXCEPT !.dirty = @ \cup rs]
  PROVE  JobOK(k, nsales, ndebt, nled, nst, nch)
<1>1. j \in JobRecords /\ Placed(j) /\ Knows(j, sales, debt, led, st, ch)
  BY DEF JobOK
<1>2. /\ k.op = j.op /\ k.pc = j.pc /\ k.todo = j.todo /\ k.rep = j.rep /\ k.seen = j.seen
      /\ k.val = j.val /\ k.plan = j.plan /\ k.targets = j.targets /\ k.fixed = j.fixed
      /\ k.dirty = j.dirty \cup rs /\ k \in JobRecords
  BY <1>1 DEF JobRecords
<1>3. Placed(k)
  BY <1>1, <1>2 DEF Placed
<1>4. /\ DOMAIN j.plan \in SUBSET Reps /\ j.rep \in Reps \cup {"none"}
      /\ j.pc \in AtWork => j.rep \in Reps
  <2>1. j.plan \in Plans /\ j.rep \in Reps \cup {"none"}
    BY <1>1 DEF JobRecords
  <2>2. AtWork \cap Between = {}
    BY DEF AtWork, Between
  <2>3. QED
    BY <1>1, <2>1, <2>2, PlanTypes DEF Placed
<1>5. k.pc \in {"paid", "ledger"} /\ k.rep \notin k.dirty => k.seen = nsales[k.rep]
  BY <1>1, <1>2, <1>4 DEF Knows, Agree, AtWork
<1>6. k.pc \in {"compare", "write"} /\ k.rep \notin k.dirty => k.val = ndebt[k.rep]
  BY <1>1, <1>2, <1>4 DEF Knows, Agree, AtWork
<1>7. k.op = "rollback" =>
        \A r \in Renewed(k) \ k.dirty : r \in DOMAIN nch => nch[r] = ndebt[r]
  <2>1. Renewed(k) = Renewed(j) /\ Renewed(j) \subseteq Reps
    BY <1>2, <1>4 DEF Renewed
  <2>2. QED
    BY <1>1, <1>2, <2>1 DEF Knows, Agree
<1>8. k.op = "reconcile" =>
        \A r \in DOMAIN k.plan \ k.dirty :
          IF k.pc \in {"detect", "ledger"} /\ r \in k.todo
            THEN k.plan[r] = nst[r]
            ELSE k.pc \in {"detect", "ledger", "planned"} \/ r \in k.todo =>
                   k.plan[r] = nled[r] /\ Distance(nst[r], k.plan[r]) <= MaxAdjust
  BY <1>1, <1>2, <1>4 DEF Knows, Agree
<1>9. QED
  BY <1>2, <1>3, <1>5, <1>6, <1>7, <1>8 DEF JobOK, Knows
(* A step of request a, which becomes j and disturbs rs. *)
LEMMA Moves ==
  ASSUME DebtInv, NEW a, NEW j, NEW rs \in SUBSET Reps,
         a \in Jobs => JobOK(j, SalesOf', DebtOf', LedgerOf', stored', cache'),
         (rs = {} /\ a \in Jobs /\ Becomes(a, j)) \/ job' = Disturbing(a, j, rs),
         DebtTypes', Agree(rs, SalesOf, DebtOf, LedgerOf, stored, cache, SalesOf', DebtOf', LedgerOf', stored', cache'),
         Fresh', Repaired(settled', stored', DebtOf', LedgerOf'),
         \A r \in Reps : a \in Jobs /\ At(a, {"reconcile"}, "adjust") /\ r \notin job[a].dirty
           /\ j.pc = "cache" /\ j.rep = r => Distance(stored[r], stored'[r]) <= MaxAdjust
  PROVE  DebtInv' /\ Limited
<1>1. job \in [Jobs -> JobRecords] /\ \A b \in Jobs : JobOK(job[b], SalesOf, DebtOf, LedgerOf, stored, cache)
  BY DEF DebtInv, JobsKnow
<1>2. ASSUME NEW b \in Jobs, b # a
      PROVE  JobOK(job'[b], SalesOf', DebtOf', LedgerOf', stored', cache') /\ job'[b].pc = job[b].pc
  <2>1. \/ job'[b] = [job[b] EXCEPT !.dirty = @ \cup rs]
        \/ rs = {} /\ job'[b] = job[b]
        \/ job[b] = Idle /\ job'[b] = Idle
    BY <1>1, <1>2 DEF Becomes, Disturbing
  <2>2. CASE job'[b] = [job[b] EXCEPT !.dirty = @ \cup rs]
    <3>1. JobOK(job[b], SalesOf, DebtOf, LedgerOf, stored, cache) /\ job[b] \in JobRecords
      BY <1>1
    <3>2. JobOK(job'[b], SalesOf', DebtOf', LedgerOf', stored', cache')
      BY <2>2, <3>1, Disturbed
    <3>3. QED
      BY <2>2, <3>1, <3>2 DEF JobRecords
  <2>3. CASE rs = {} /\ job'[b] = job[b]
    <3>1. JobOK(job[b], SalesOf, DebtOf, LedgerOf, stored, cache) /\ job[b] \in JobRecords
      BY <1>1
    <3>2. job[b] = [job[b] EXCEPT !.dirty = @ \cup rs]
      BY <2>3, <3>1 DEF JobRecords
    <3>3. QED
      BY <2>3, <3>1, <3>2, Disturbed
  <2>4. CASE job[b] = Idle /\ job'[b] = Idle
    <3>1. JobOK(Idle, SalesOf, DebtOf, LedgerOf, stored, cache)
      BY <1>1, <2>4
    <3>2. Knows(Idle, SalesOf', DebtOf', LedgerOf', stored', cache')
      BY PlanTypes DEF Knows, Idle, Renewed
    <3>3. QED
      BY <2>4, <3>1, <3>2 DEF JobOK
  <2>5. QED
    BY <2>1, <2>2, <2>3, <2>4
<1>3. a \in Jobs => job'[a] = j
  BY <1>1 DEF Becomes, Disturbing
<1>4. \A b \in Jobs : JobOK(job'[b], SalesOf', DebtOf', LedgerOf', stored', cache')
  BY <1>2, <1>3
<1>5. job' \in [Jobs -> JobRecords]
  <2>1. \A b \in Jobs : job'[b] \in JobRecords
    BY <1>4 DEF JobOK
  <2>2. DOMAIN job' = Jobs /\ job' = [b \in Jobs |-> job'[b]]
    BY <1>1 DEF Becomes, Disturbing
  <2>3. QED
    BY <2>1, <2>2
<1>6. Limited
  BY <1>2, <1>3 DEF Limited, At
<1>7. QED
  BY <1>4, <1>5, <1>6 DEF DebtInv, JobsKnow

Shrinks(nch, ch) == nch \in Plans /\ \A r \in DOMAIN nch : r \in DOMAIN ch /\ nch[r] = ch[r]

LEMMA Shrunk ==
  ASSUME NEW ch \in Plans
  PROVE  Shrinks(ch, ch) /\ Shrinks(Nothing, ch) /\ \A S : Shrinks(Without(ch, S), ch)
<1>1. Shrinks(ch, ch)
  BY DEF Shrinks
<1>2. Shrinks(Nothing, ch)
  BY PlanTypes DEF Shrinks
<1>3. ASSUME NEW S PROVE Shrinks(Without(ch, S), ch)
  <2>1. /\ Without(ch, S) \in Plans /\ DOMAIN Without(ch, S) = DOMAIN ch \ S
        /\ \A s \in DOMAIN ch \ S : Without(ch, S)[s] = ch[s]
    BY PlanTypes, Zenon
  <2>2. QED
    BY <2>1 DEF Shrinks
<1>4. QED
  BY <1>1, <1>2, <1>3

\* The ledger, the debts and what is known of others stay as they are.
LEMMA Confirmed ==
  ASSUME DebtInv, NEW a \in Jobs, NEW j, Becomes(a, j), UNCHANGED <<ledgerVars, stored, current>>,
         jobs' \in 0..MaxJobs, Shrinks(cache', cache),
         settled' \in [Reps -> {"no", "engine", "ledger"}],
         Repaired(settled', stored, DebtOf, LedgerOf),
         JobOK(j, SalesOf, DebtOf, LedgerOf, stored, cache')
  PROVE  DebtInv' /\ Limited
<1>1. SalesOf' = SalesOf /\ DebtOf' = DebtOf /\ LedgerOf' = LedgerOf /\ stored' = stored
  BY SameLedger
<1>2. DebtTypes' /\ DebtTypes
  BY DEF DebtInv, DebtTypes, ledgerVars, Shrinks
<1>3. Agree({}, SalesOf, DebtOf, LedgerOf, stored, cache, SalesOf', DebtOf', LedgerOf', stored', cache')
  BY <1>1 DEF Agree, Shrinks
<1>4. Repaired(settled', stored', DebtOf', LedgerOf')
  BY <1>1
<1>5. Fresh'
  BY <1>1 DEF DebtInv, Fresh, Shrinks
<1>6. \A r \in Reps : Distance(stored[r], stored'[r]) <= MaxAdjust
  <2>1. MaxAdjust \in Nat /\ \A r \in Reps : stored[r] \in Nat
    BY <1>2, DebtAssumption DEF DebtTypes
  <2>2. \A r \in Reps : Distance(stored[r], stored[r]) = 0
    BY <2>1, Numbers
  <2>3. QED
    BY <1>1, <2>1, <2>2
<1>7. JobOK(j, SalesOf', DebtOf', LedgerOf', stored', cache')
  BY <1>1
<1>8. QED
  BY <1>2, <1>3, <1>4, <1>5, <1>6, <1>7, Moves

LEMMA Quiet ==
  ASSUME DebtInv, NEW a \in Jobs, NEW j, Becomes(a, j), UNCHANGED <<ledgerVars, stored, history>>,
         jobs' \in 0..MaxJobs, Shrinks(cache', cache),
         JobOK(j, SalesOf, DebtOf, LedgerOf, stored, cache')
  PROVE  DebtInv' /\ Limited
<1>1. /\ UNCHANGED <<ledgerVars, stored, current>>
      /\ settled' \in [Reps -> {"no", "engine", "ledger"}]
      /\ Repaired(settled', stored, DebtOf, LedgerOf)
  BY DEF history, DebtInv, DebtTypes
<1>2. QED
  BY <1>1, Confirmed

LEMMA JobFacts ==
  ASSUME DebtInv, NEW a \in Jobs
  PROVE  /\ job[a] \in JobRecords /\ Placed(job[a])
         /\ Knows(job[a], SalesOf, DebtOf, LedgerOf, stored, cache)
         /\ DOMAIN job[a].plan \in SUBSET Reps /\ \A r \in DOMAIN job[a].plan : job[a].plan[r] \in Nat
         /\ cache \in Plans /\ DOMAIN cache \in SUBSET Reps /\ \A r \in DOMAIN cache : cache[r] \in Nat
         /\ \A r \in Reps : Sales(r) \in Nat /\ SalesOf[r] = Sales(r) /\ DebtOf[r] = Debt(r)
                            /\ stored[r] \in Nat /\ Debt(r) \in Nat /\ Paid(r) \in Nat
                            /\ LedgerOf[r] = LedgerDebt(r) /\ PaidFrom(r) \in Nat
         /\ settled \in [Reps -> {"no", "engine", "ledger"}] /\ current \in SUBSET Reps
         /\ jobs \in 0..MaxJobs
         /\ DebtTypes
         /\ job[a].pc \in AtWork => job[a].rep \in Reps
         /\ Shrinks(cache, cache) /\ Shrinks(Nothing, cache) /\ \A S : Shrinks(Without(cache, S), cache)
<1>1. job[a] \in JobRecords /\ Placed(job[a]) /\ Knows(job[a], SalesOf, DebtOf, LedgerOf, stored, cache) /\ DebtTypes
  BY DEF DebtInv, JobsKnow, JobOK
<1>2. job[a].plan \in Plans /\ job[a].rep \in Reps \cup {"none"} /\ job[a].pc \in Between \cup AtWork
  BY <1>1 DEF JobRecords
<1>3. job[a].pc \in AtWork => job[a].pc \notin Between
  BY DEF AtWork, Between
<1>4. \A r \in Reps : SalesOf[r] = Sales(r) /\ DebtOf[r] = Debt(r) /\ LedgerOf[r] = LedgerDebt(r)
  BY DEF SalesOf, DebtOf, LedgerOf
<1>5. QED
  BY <1>1, <1>2, <1>3, <1>4, PlanTypes, SumTypes, Shrunk DEF DebtTypes, Placed

LEMMA IdleOK == \A st, ch : JobOK(Idle, SalesOf, DebtOf, LedgerOf, st, ch)
BY PlanTypes DEF JobOK, Idle, JobRecords, Ops, Between, AtWork, Placed, Knows, Renewed
(* A request that knows nothing by its place, only what it knew. *)
LEMMA Plain ==
  ASSUME NEW j \in JobRecords, Placed(j), j.op \notin {"rollback", "reconcile"},
         j.pc \notin {"paid", "ledger", "compare", "write"},
         NEW sales, NEW debt, NEW led, NEW st, NEW ch
  PROVE  JobOK(j, sales, debt, led, st, ch)
BY DEF JobOK, Knows

LEMMA ReadSalesStep ==
  ASSUME DebtInv, NEW a \in Jobs, ReadSales(a)
  PROVE  DebtInv' /\ Limited
<1> DEFINE j == [job[a] EXCEPT !.seen = Sales(job[a].rep), !.pc = "paid"]
<1>1. /\ job[a].pc = "sales" /\ Becomes(a, j)
      /\ UNCHANGED <<ledgerVars, stored, cache, jobs, history>>
  BY DEF ReadSales
<1>2. job[a].rep \in Reps /\ Sales(job[a].rep) \in Nat /\ SalesOf[job[a].rep] = Sales(job[a].rep)
  BY <1>1, JobFacts DEF AtWork
<1>3. j \in JobRecords
  BY <1>2, JobFacts DEF JobRecords, AtWork
<1>4. Placed(j)
  BY <1>1, JobFacts DEF Placed, Between, JobRecords
<1>5. Knows(j, SalesOf, DebtOf, LedgerOf, stored, cache)
  BY <1>1, <1>2, JobFacts DEF Knows, Renewed, Placed, JobRecords
<1>6. QED
  BY <1>1, <1>3, <1>4, <1>5, Quiet, JobFacts DEF JobOK

LEMMA ViewStep ==
  ASSUME DebtInv, NEW a \in Jobs, NEW r \in Reps, View(a, r)
  PROVE  DebtInv' /\ Limited
<1> DEFINE j == [Idle EXCEPT !.op = "view", !.rep = r, !.pc = "sales"]
<1>1. /\ jobs' = jobs + 1 /\ jobs < MaxJobs /\ Becomes(a, j) /\ cache' = Without(cache, {r})
      /\ UNCHANGED <<ledgerVars, stored, history>>
  BY DEF View
<1>2. j \in JobRecords /\ Placed(j)
  BY DebtAssumption, PlanTypes DEF Idle, JobRecords, Ops, AtWork, Placed, Between
<1>3. JobOK(j, SalesOf, DebtOf, LedgerOf, stored, cache')
  BY <1>2, Plain DEF Idle
<1>4. jobs' \in 0..MaxJobs
  BY <1>1, JobFacts, DebtAssumption
<1>5. QED
  BY <1>1, <1>3, <1>4, Quiet, JobFacts

LEMMA StartStep ==
  ASSUME DebtInv, NEW a \in Jobs, NEW op, NEW pc, NEW rs \in SUBSET Reps, Start(a, op, pc, rs),
         <<op, pc>> \in {<<"sync", "next">>, <<"correct", "next">>, <<"monitor", "next">>,
                         <<"rollback", "find">>, <<"reconcile", "select">>,
                         <<"generate", "batch">>, <<"complete", "count">>}
  PROVE  DebtInv' /\ Limited
<1> DEFINE j == [Idle EXCEPT !.op = op, !.pc = pc, !.todo = rs]
<1>1. /\ jobs' = jobs + 1 /\ jobs < MaxJobs /\ Becomes(a, j)
      /\ UNCHANGED <<ledgerVars, stored, cache, history>>
  BY DEF Start
<1>2. j \in JobRecords /\ Placed(j)
  BY DebtAssumption, PlanTypes DEF Idle, JobRecords, Ops, Placed, Between
<1>3. Knows(j, SalesOf, DebtOf, LedgerOf, stored, cache)
  BY PlanTypes DEF Idle, Knows, Renewed
<1>4. jobs' \in 0..MaxJobs
  BY <1>1, JobFacts, DebtAssumption
<1>5. QED
  BY <1>1, <1>2, <1>3, <1>4, Quiet, JobFacts DEF JobOK

\* The loop goes on, or the request ends.
LEMMA NextOK ==
  ASSUME NEW j \in JobRecords, Placed(j), j.op \notin {"reconcile", "none"}, j.pc \in AtWork,
         NEW sales, NEW debt, NEW led, NEW st, NEW ch, Knows(j, sales, debt, led, st, ch),
         j.pc # "project"
  PROVE  JobOK(Next1(j), sales, debt, led, st, ch)
<1> DEFINE k == Next1(j)
<1>1. k \in JobRecords
  BY DEF Next1, JobRecords, Between
<1>2. /\ k.op = j.op /\ k.pc = "next" /\ k.todo = j.todo /\ k.rep = "none" /\ k.plan = j.plan
      /\ k.targets = j.targets /\ k.dirty = j.dirty
  BY DEF Next1, JobRecords
<1> HIDE DEF k
<1>3. Placed(k)
  BY <1>2 DEF Placed, Between
<1>4. j.op = "rollback" => Renewed(k) = Renewed(j)
  BY <1>2 DEF Renewed, AtWork
<1>5. Knows(k, sales, debt, led, st, ch)
  BY <1>2, <1>4 DEF Knows
<1>6. QED
  BY <1>1, <1>3, <1>5 DEF JobOK, k

LEMMA SyncSteps ==
  ASSUME DebtInv, NEW a \in Jobs,
         SyncBegin(a) \/ SyncEnd(a) \/ SyncFault(a) \/ SyncFinish(a)
  PROVE  DebtInv' /\ Limited
<1>1. CASE SyncBegin(a)
  <2>1. PICK r \in job[a].todo :
          /\ cache' = Without(cache, {r})
          /\ Becomes(a, [Clean(job[a], r) EXCEPT !.todo = @ \ {r}, !.pc = "sales"])
    BY <1>1 DEF SyncBegin
  <2> DEFINE j == [Clean(job[a], r) EXCEPT !.todo = @ \ {r}, !.pc = "sales"]
  <2>2. At(a, {"sync"}, "next") /\ UNCHANGED <<ledgerVars, stored, jobs, history>>
    BY <1>1 DEF SyncBegin
  <2>3. r \in Reps /\ r # "none"
    BY JobFacts, DebtAssumption DEF JobRecords
  <2>4. j \in JobRecords /\ Placed(j)
    <3>1. /\ j \in JobRecords /\ j.op = "sync" /\ j.pc = "sales" /\ j.rep = r
          /\ j.plan = job[a].plan
      BY <2>2, <2>3, JobFacts DEF JobRecords, AtWork, Clean, At
    <3>2. QED
      BY <2>2, <2>3, <3>1, JobFacts DEF Placed, Between, At
  <2>5. JobOK(j, SalesOf, DebtOf, LedgerOf, stored, cache')
    BY <2>2, <2>4, Plain, JobFacts DEF Clean, At, JobRecords
  <2>6. QED
    BY <2>1, <2>2, <2>5, Quiet, JobFacts
<1>2. CASE SyncEnd(a)
  <2>1. /\ At(a, {"sync"}, "after") /\ UNCHANGED <<ledgerVars, stored, jobs, history>>
        /\ cache' = Without(cache, {job[a].rep}) /\ Becomes(a, Next1(job[a]))
    BY <1>2 DEF SyncEnd
  <2>2. Knows(job[a], SalesOf, DebtOf, LedgerOf, stored, cache')
    BY <2>1 DEF Knows, At
  <2>3. JobOK(Next1(job[a]), SalesOf, DebtOf, LedgerOf, stored, cache')
    BY <2>1, <2>2, NextOK, JobFacts DEF At, AtWork
  <2>4. QED
    BY <2>1, <2>3, Quiet, JobFacts
<1>3. CASE SyncFault(a)
  <2>1. /\ job[a].op = "sync" /\ job[a].pc \in {"sales", "paid", "write"}
        /\ Becomes(a, Next1(job[a])) /\ UNCHANGED <<ledgerVars, stored, cache, jobs, history>>
    BY <1>3 DEF SyncFault
  <2>2. JobOK(Next1(job[a]), SalesOf, DebtOf, LedgerOf, stored, cache)
    BY <2>1, NextOK, JobFacts DEF AtWork
  <2>3. QED
    BY <2>1, <2>2, Quiet, JobFacts
<1>4. CASE SyncFinish(a)
  BY <1>4, IdleOK, Quiet, JobFacts DEF SyncFinish
<1>5. QED
  BY <1>1, <1>2, <1>3, <1>4
LEMMA CorrectLooks ==
  ASSUME DebtInv, NEW a \in Jobs, CorrectHit(a) \/ CorrectMiss(a)
  PROVE  DebtInv' /\ Limited
<1>1. Correcting(a) /\ job[a].pc = "next" /\ UNCHANGED <<ledgerVars, stored, jobs, history>>
  BY DEF CorrectHit, CorrectMiss
<1>2. job[a].op \in {"correct", "monitor", "rollback"} /\ job[a].targets = {}
  BY <1>1 DEF Correcting
<1>3. Renewed(job[a]) = DOMAIN job[a].plan
  BY <1>1, <1>2 DEF Renewed
<1>4. CASE CorrectHit(a)
  <2> DEFINE X(r) == IF r \in DOMAIN job[a].plan THEN [job[a] EXCEPT !.rep = r] ELSE Clean(job[a], r)
             J(r) == [X(r) EXCEPT !.todo = @ \ {r}, !.val = cache[r], !.pc = "compare",
                                  !.dirty = IF r \in DOMAIN job[a].plan \/ r \in current
                                            THEN @ ELSE @ \cup {r}]
  <2>1. PICK r \in job[a].todo \cap DOMAIN cache : Becomes(a, J(r))
    BY <1>4 DEF CorrectHit
  <2>2. cache' = cache
    BY <1>4 DEF CorrectHit
  <2>3. r \in Reps /\ r # "none" /\ cache[r] \in Nat
    BY JobFacts, DebtAssumption DEF JobRecords
  <2> DEFINE k == J(r)
  <2>x. /\ X(r) \in JobRecords /\ X(r).op = job[a].op /\ X(r).rep = r /\ X(r).plan = job[a].plan
        /\ X(r).targets = {} /\ X(r).todo = job[a].todo
        /\ X(r).dirty = IF r \in DOMAIN job[a].plan THEN job[a].dirty ELSE job[a].dirty \ {r}
    BY <1>2, <2>3, JobFacts DEF JobRecords, Clean
  <2> HIDE DEF X
  <2>4. /\ k \in JobRecords /\ k.op = job[a].op /\ k.pc = "compare" /\ k.rep = r
        /\ k.val = cache[r] /\ k.plan = job[a].plan /\ k.targets = {}
        /\ k.todo = job[a].todo \ {r}
    <3>1. X(r).dirty \cup {r} \in SUBSET Reps /\ X(r).dirty \in SUBSET Reps /\ X(r).todo \ {r} \in SUBSET Reps
      BY <2>x, <2>3 DEF JobRecords
    <3>2. QED
      BY <1>2, <2>3, <2>x, <3>1 DEF JobRecords, AtWork
  <2>5. k.dirty = IF r \in DOMAIN job[a].plan THEN job[a].dirty
                  ELSE IF r \in current THEN job[a].dirty \ {r}
                  ELSE (job[a].dirty \ {r}) \cup {r}
    BY <2>3, <2>x DEF JobRecords
  <2> HIDE DEF k, J
  <2>6. Placed(k)
    BY <1>2, <2>3, <2>4, JobFacts DEF Placed, Between
  <2>7. k.rep \notin k.dirty => k.val = DebtOf[k.rep]
    BY <1>2, <1>3, <2>1, <2>3, <2>4, <2>5, JobFacts DEF Knows, Placed, DebtInv, Fresh
  <2>8. Renewed(k) = DOMAIN job[a].plan
    BY <2>4 DEF Renewed
  <2>9. Knows(k, SalesOf, DebtOf, LedgerOf, stored, cache)
    BY <1>2, <1>3, <2>4, <2>5, <2>7, <2>8, JobFacts DEF Knows
  <2>10. QED
    BY <1>1, <2>1, <2>2, <2>4, <2>6, <2>9, Quiet, JobFacts DEF JobOK, k
<1>5. CASE CorrectMiss(a)
  <2>1. PICK r \in job[a].todo :
          /\ cache' = Without(cache, {r})
          /\ Becomes(a, [Clean(job[a], r) EXCEPT !.todo = @ \ {r}, !.pc = "sales"])
    BY <1>5 DEF CorrectMiss
  <2> DEFINE k == [Clean(job[a], r) EXCEPT !.todo = @ \ {r}, !.pc = "sales"]
  <2>2. r \in Reps /\ r # "none"
    BY JobFacts, DebtAssumption DEF JobRecords
  <2>3. /\ k \in JobRecords /\ k.op = job[a].op /\ k.pc = "sales" /\ k.rep = r
        /\ k.plan = job[a].plan /\ k.targets = {} /\ k.dirty = job[a].dirty \ {r}
    BY <1>2, <2>2, JobFacts DEF JobRecords, AtWork, Clean
  <2> HIDE DEF k
  <2>4. Placed(k)
    BY <1>2, <2>2, <2>3, JobFacts DEF Placed, Between
  <2>5. Renewed(k) = DOMAIN job[a].plan
    BY <2>3 DEF Renewed
  <2>6. r \notin DOMAIN cache' /\ Shrinks(cache', cache)
    BY <2>1, JobFacts DEF Without, Restrict
  <2>7. Knows(k, SalesOf, DebtOf, LedgerOf, stored, cache')
    BY <1>2, <1>3, <2>3, <2>5, <2>6, JobFacts DEF Knows, Shrinks
  <2>8. QED
    BY <1>1, <2>1, <2>3, <2>4, <2>6, <2>7, Quiet, JobFacts DEF JobOK, k
<1>6. QED
  BY <1>4, <1>5

LEMMA CorrectCompareStep ==
  ASSUME DebtInv, NEW a \in Jobs, CorrectCompare(a)
  PROVE  DebtInv' /\ Limited
<1> DEFINE r == job[a].rep
<1>1. /\ job[a].op \in {"correct", "monitor", "rollback"} /\ job[a].targets = {}
      /\ job[a].pc = "compare" /\ UNCHANGED <<ledgerVars, stored, cache, jobs, current>>
  BY DEF CorrectCompare, Correcting
<1>2. r \in Reps /\ job[a].val \in Nat
  BY <1>1, JobFacts DEF AtWork, JobRecords
<1>3. CASE Consistent(job[a].val, stored[r])
  <2>1. Becomes(a, Next1(job[a])) /\ Settle(a, r, "engine")
    BY <1>3 DEF CorrectCompare
  <2>2. JobOK(Next1(job[a]), SalesOf, DebtOf, LedgerOf, stored, cache)
    BY <1>1, NextOK, JobFacts DEF AtWork
  <2>3. r \notin job[a].dirty => Distance(stored[r], DebtOf[r]) < Tolerance
    BY <1>1, <1>2, <1>3, JobFacts, Numbers DEF Knows, Consistent
  <2>4. /\ settled' \in [Reps -> {"no", "engine", "ledger"}]
        /\ Repaired(settled', stored, DebtOf, LedgerOf)
    BY <2>1, <2>3, JobFacts DEF Settle, DebtInv, Repaired
  <2>5. QED
    BY <1>1, <2>1, <2>2, <2>4, Confirmed, JobFacts
<1>4. CASE ~Consistent(job[a].val, stored[r])
  <2> DEFINE k == [job[a] EXCEPT !.pc = "write", !.fixed = @ \/ job[a].op = "monitor"]
  <2>1. Becomes(a, k) /\ UNCHANGED settled
    BY <1>4 DEF CorrectCompare
  <2>2. /\ k.op = job[a].op /\ k.pc = "write" /\ k.rep = job[a].rep
        /\ k.val = job[a].val /\ k.plan = job[a].plan /\ k.targets = {} /\ k.dirty = job[a].dirty
    BY <1>1, JobFacts DEF JobRecords
  <2>3. k \in JobRecords
    <3>1. PICK f \in BOOLEAN : f = (job[a].fixed \/ job[a].op = "monitor")
      OBVIOUS
    <3>2. k = [job[a] EXCEPT !.pc = "write", !.fixed = f]
      BY <3>1
    <3>3. [job[a] EXCEPT !.pc = "write", !.fixed = f] \in JobRecords
      BY <1>1, JobFacts DEF JobRecords, AtWork
    <3>4. QED
      BY <3>2, <3>3
  <2> HIDE DEF k
  <2>4. Placed(k)
    BY <1>1, <2>2, JobFacts DEF Placed, Between
  <2>5. Renewed(k) = Renewed(job[a])
    BY <1>1, <2>2 DEF Renewed
  <2>6. Knows(k, SalesOf, DebtOf, LedgerOf, stored, cache)
    BY <1>1, <2>2, <2>5, JobFacts DEF Knows
  <2>7. QED
    BY <1>1, <2>1, <2>3, <2>4, <2>6, Quiet, JobFacts DEF JobOK, history
<1>5. QED
  BY <1>3, <1>4

LEMMA CorrectEnds ==
  ASSUME DebtInv, NEW a \in Jobs, CorrectFault(a) \/ CorrectFinish(a) \/ MonitorAgain(a)
  PROVE  DebtInv' /\ Limited
<1>1. CASE CorrectFault(a)
  <2>1. /\ job[a].op \in {"correct", "monitor", "rollback"}
        /\ job[a].pc \in {"sales", "paid", "compare", "write"}
        /\ Becomes(a, Next1(job[a])) /\ UNCHANGED <<ledgerVars, stored, cache, jobs, history>>
    BY <1>1 DEF CorrectFault, Correcting
  <2>2. JobOK(Next1(job[a]), SalesOf, DebtOf, LedgerOf, stored, cache)
    BY <2>1, NextOK, JobFacts DEF AtWork
  <2>3. QED
    BY <2>1, <2>2, Quiet, JobFacts
<1>2. CASE CorrectFinish(a)
  BY <1>2, IdleOK, Quiet, JobFacts DEF CorrectFinish
<1>3. CASE MonitorAgain(a)
  <2> DEFINE k == [Idle EXCEPT !.op = "correct", !.pc = "next", !.todo = ActiveReps]
  <2>1. k \in JobRecords /\ Placed(k)
    BY DebtAssumption, PlanTypes DEF Idle, JobRecords, Ops, Placed, Between
  <2>2. JobOK(k, SalesOf, DebtOf, LedgerOf, stored, cache)
    BY <2>1, Plain DEF Idle
  <2>3. QED
    BY <1>3, <2>2, IdleOK, Quiet, JobFacts DEF MonitorAgain
<1>4. QED
  BY <1>1, <1>2, <1>3
LEMMA Projection ==
  ASSUME NEW x \in JobRecords, x.op = "rollback", x.targets # {}, x.rep \in Reps, NEW u \in Nat,
         NEW sales, NEW debt, NEW led, NEW st, NEW ch
  PROVE  JobOK(Calculated(x, u), sales, debt, led, st, ch)
<1> DEFINE k == [x EXCEPT !.val = u, !.pc = "name"]
<1>1. Calculated(x, u) = k
  BY DEF Calculated
<1>2. k \in JobRecords /\ k.op = "rollback" /\ k.pc = "name" /\ k.rep = x.rep /\ k.targets # {}
  BY DEF JobRecords, AtWork
<1> HIDE DEF k
<1>3. Placed(k)
  BY <1>2, DebtAssumption DEF Placed, Between
<1>4. Renewed(k) = {}
  BY <1>2 DEF Renewed
<1>5. QED
  BY <1>1, <1>2, <1>3, <1>4 DEF JobOK, Knows

LEMMA RollbackNameStep ==
  ASSUME DebtInv, NEW a \in Jobs, RollbackName(a)
  PROVE  DebtInv' /\ Limited
<1> DEFINE r == job[a].rep
           deleted == {i \in job[a].targets : RepOf[i] = r}
           v == NonNegative(job[a].val - SumOver(Amount, deleted))
           p == With(job[a].plan, r, v)
           k == Next1([job[a] EXCEPT !.plan = p])
<1>1. /\ job[a].op = "rollback" /\ job[a].pc = "name" /\ Becomes(a, k)
      /\ UNCHANGED <<ledgerVars, stored, cache, jobs, history>>
  BY DEF RollbackName, At
<1>2. r \in Reps /\ job[a].targets # {} /\ job[a] \in JobRecords /\ job[a].val \in Nat
  BY <1>1, JobFacts DEF AtWork, Placed, JobRecords
<1>3. v \in Nat
  <2>1. deleted \in SUBSET Invoices
    BY <1>2, DebtAssumption DEF JobRecords
  <2> HIDE DEF deleted
  <2>2. QED
    BY <1>2, <2>1, SumTypes, Numbers, JobFacts
<1> HIDE DEF v
<1>4. p \in Plans
  <2>1. job[a].plan \in Plans
    BY <1>2 DEF JobRecords
  <2> HIDE DEF r
  <2>2. QED
    BY <1>2, <1>3, <2>1, PlanTypes
<1> HIDE DEF p
<1>5. k \in JobRecords /\ k.op = "rollback" /\ k.pc = "next" /\ k.rep = "none" /\ k.targets # {}
  BY <1>1, <1>2, <1>4 DEF JobRecords, Next1, Between
<1> HIDE DEF k
<1>6. Placed(k)
  BY <1>5 DEF Placed, Between
<1>7. Renewed(k) = {}
  BY <1>5 DEF Renewed
<1>8. JobOK(k, SalesOf, DebtOf, LedgerOf, stored, cache)
  BY <1>5, <1>6, <1>7 DEF JobOK, Knows
<1>9. QED
  BY <1>1, <1>8, Quiet, JobFacts

LEMMA RollbackLooks ==
  ASSUME DebtInv, NEW a \in Jobs, RollbackFind(a) \/ RollbackHit(a) \/ RollbackMiss(a)
  PROVE  DebtInv' /\ Limited
<1>1. CASE RollbackFind(a)
  <2> DEFINE found == live \cap Dated
             k == [job[a] EXCEPT !.targets = found, !.todo = {RepOf[i] : i \in found}, !.pc = "next"]
  <2>1. /\ At(a, {"rollback"}, "find") /\ UNCHANGED <<ledgerVars, stored, cache, jobs, history>>
        /\ (found = {} /\ Becomes(a, Idle)) \/ (found # {} /\ Becomes(a, k))
    BY <1>1 DEF RollbackFind
  <2>2. CASE found = {} /\ Becomes(a, Idle)
    BY <2>1, <2>2, IdleOK, Quiet, JobFacts
  <2>3. CASE found # {} /\ Becomes(a, k)
    <3>1. found \in SUBSET Dated /\ {RepOf[i] : i \in found} \in SUBSET Reps
      BY DebtAssumption
    <3> HIDE DEF found
    <3>2. /\ k \in JobRecords /\ k.op = "rollback" /\ k.pc = "next" /\ k.rep = job[a].rep
          /\ k.plan = job[a].plan /\ k.targets = found
      BY <2>1, <3>1, JobFacts DEF At, JobRecords, Between
    <3> HIDE DEF k
    <3>3. Placed(k)
      BY <2>1, <3>2, JobFacts DEF Placed, Between, At
    <3>4. Renewed(k) = {}
      BY <2>3, <3>2 DEF Renewed
    <3>5. Knows(k, SalesOf, DebtOf, LedgerOf, stored, cache)
      BY <3>2, <3>4 DEF Knows
    <3>6. QED
      BY <2>1, <2>3, <3>2, <3>3, <3>5, Quiet, JobFacts DEF JobOK
  <2>4. QED
    BY <2>1, <2>2, <2>3
<1>2. CASE RollbackHit(a)
  <2> DEFINE X(r) == [job[a] EXCEPT !.rep = r, !.todo = @ \ {r}]
  <2>1. PICK r \in job[a].todo \cap DOMAIN cache : Becomes(a, Calculated(X(r), cache[r]))
    BY <1>2 DEF RollbackHit
  <2>2. /\ job[a].op = "rollback" /\ job[a].pc = "next" /\ job[a].targets # {}
        /\ UNCHANGED <<ledgerVars, stored, cache, jobs, history>>
    BY <1>2 DEF RollbackHit, Projecting, At
  <2>3. r \in Reps /\ cache[r] \in Nat
    BY JobFacts DEF JobRecords
  <2> DEFINE x == X(r)
  <2>4. /\ x \in JobRecords /\ x.op = "rollback" /\ x.rep = r /\ x.targets # {}
    BY <2>2, <2>3, JobFacts DEF JobRecords
  <2> HIDE DEF x, X
  <2>5. JobOK(Calculated(x, cache[r]), SalesOf, DebtOf, LedgerOf, stored, cache)
    BY <2>3, <2>4, Projection
  <2>6. Becomes(a, Calculated(x, cache[r]))
    BY <2>1 DEF x
  <2>7. QED
    BY <2>2, <2>5, <2>6, Quiet, JobFacts
<1>3. CASE RollbackMiss(a)
  <2>1. PICK r \in job[a].todo :
          /\ cache' = Without(cache, {r})
          /\ Becomes(a, [job[a] EXCEPT !.rep = r, !.todo = @ \ {r}, !.pc = "sales"])
    BY <1>3 DEF RollbackMiss
  <2> DEFINE k == [job[a] EXCEPT !.rep = r, !.todo = @ \ {r}, !.pc = "sales"]
  <2>2. /\ job[a].op = "rollback" /\ job[a].pc = "next" /\ job[a].targets # {}
        /\ UNCHANGED <<ledgerVars, stored, jobs, history>>
    BY <1>3 DEF RollbackMiss, Projecting, At
  <2>3. r \in Reps /\ r # "none"
    BY JobFacts, DebtAssumption DEF JobRecords
  <2>4. /\ k \in JobRecords /\ k.op = "rollback" /\ k.pc = "sales" /\ k.rep = r
        /\ k.targets = job[a].targets
    BY <2>2, <2>3, JobFacts DEF JobRecords, AtWork
  <2> HIDE DEF k
  <2>5. Placed(k)
    BY <2>3, <2>4 DEF Placed, Between
  <2>6. Renewed(k) = {}
    BY <2>2, <2>4 DEF Renewed
  <2>7. Knows(k, SalesOf, DebtOf, LedgerOf, stored, cache')
    BY <2>4, <2>6 DEF Knows
  <2>8. QED
    BY <2>1, <2>2, <2>4, <2>5, <2>7, Quiet, JobFacts DEF JobOK, k
<1>4. QED
  BY <1>1, <1>2, <1>3

LEMMA RollbackMoves ==
  ASSUME DebtInv, NEW a \in Jobs,
         RollbackFault(a) \/ RollbackProjected(a) \/ RollbackInvalidate(a) \/ RollbackCorrect(a)
  PROVE  DebtInv' /\ Limited
<1>1. CASE RollbackFault(a)
  <2>1. /\ job[a].op = "rollback" /\ UNCHANGED <<ledgerVars, stored, cache, jobs, history>>
        /\ Becomes(a, Idle) \/ (job[a].pc \in {"sales", "paid", "name"} /\ Becomes(a, Next1(job[a])))
    BY <1>1 DEF RollbackFault
  <2>2. job[a].pc \in {"sales", "paid", "name"} => JobOK(Next1(job[a]), SalesOf, DebtOf, LedgerOf, stored, cache)
    BY <2>1, NextOK, JobFacts DEF AtWork
  <2>3. QED
    BY <2>1, <2>2, IdleOK, Quiet, JobFacts
<1>2. CASE RollbackProjected(a)
  <2> DEFINE k == [job[a] EXCEPT !.pc = "delete"]
  <2>1. /\ job[a].op = "rollback" /\ job[a].pc = "next" /\ job[a].targets # {}
        /\ UNCHANGED <<ledgerVars, stored, cache, jobs, history>>
        /\ Becomes(a, Idle) \/ Becomes(a, k)
    BY <1>2 DEF RollbackProjected, Projecting, At
  <2>2. /\ k \in JobRecords /\ k.op = "rollback" /\ k.pc = "delete" /\ k.rep = job[a].rep
        /\ k.targets = job[a].targets
    BY <2>1, JobFacts DEF JobRecords, Between
  <2> HIDE DEF k
  <2>3. Placed(k)
    BY <2>1, <2>2, JobFacts DEF Placed, Between
  <2>4. Renewed(k) = {}
    BY <2>1, <2>2 DEF Renewed
  <2>5. JobOK(k, SalesOf, DebtOf, LedgerOf, stored, cache)
    BY <2>2, <2>3, <2>4 DEF JobOK, Knows
  <2>6. QED
    BY <2>1, <2>5, IdleOK, Quiet, JobFacts
<1>3. CASE RollbackInvalidate(a)
  <2>1. PICK r \in job[a].todo :
          /\ cache' = Without(cache, {r})
          /\ Becomes(a, [Clean(job[a], r) EXCEPT !.todo = @ \ {r}, !.pc = "project"])
    BY <1>3 DEF RollbackInvalidate
  <2> DEFINE k == [Clean(job[a], r) EXCEPT !.todo = @ \ {r}, !.pc = "project"]
  <2>2. /\ job[a].op = "rollback" /\ job[a].pc = "restore"
        /\ UNCHANGED <<ledgerVars, stored, jobs, history>>
    BY <1>3 DEF RollbackInvalidate, At
  <2>3. r \in Reps /\ r # "none" /\ r \in DOMAIN job[a].plan
    BY <2>2, JobFacts, DebtAssumption DEF JobRecords, Placed
  <2>4. /\ k \in JobRecords /\ k.op = "rollback" /\ k.pc = "project" /\ k.rep = r
        /\ k.targets = job[a].targets /\ k.plan = job[a].plan /\ k.todo = job[a].todo \ {r}
        /\ k.dirty = job[a].dirty \ {r}
    BY <2>2, <2>3, JobFacts DEF JobRecords, AtWork, Clean
  <2> HIDE DEF k
  <2>5. Placed(k)
    BY <2>2, <2>3, <2>4, JobFacts DEF Placed, Between
  <2>6. Renewed(k) \subseteq Renewed(job[a]) \cup {r}
    BY <2>2, <2>4 DEF Renewed
  <2>7. r \notin DOMAIN cache' /\ Shrinks(cache', cache)
    BY <2>1, JobFacts DEF Without, Restrict
  <2>8. Knows(k, SalesOf, DebtOf, LedgerOf, stored, cache')
    BY <2>2, <2>4, <2>6, <2>7, JobFacts DEF Knows, Shrinks
  <2>9. QED
    BY <2>1, <2>2, <2>4, <2>5, <2>7, <2>8, Quiet, JobFacts DEF JobOK, k
<1>4. CASE RollbackCorrect(a)
  <2> DEFINE k == [job[a] EXCEPT !.pc = "next", !.todo = ActiveReps]
  <2>1. /\ job[a].op = "rollback" /\ job[a].pc = "restore" /\ job[a].todo = {} /\ Becomes(a, k)
        /\ UNCHANGED <<ledgerVars, stored, cache, jobs, history>>
    BY <1>4 DEF RollbackCorrect, At
  <2>2. /\ k \in JobRecords /\ k.op = "rollback" /\ k.pc = "next" /\ k.rep = job[a].rep
        /\ k.targets = job[a].targets /\ k.plan = job[a].plan /\ k.dirty = job[a].dirty
    BY <2>1, JobFacts, DebtAssumption DEF JobRecords, Between
  <2> HIDE DEF k
  <2>3. Placed(k)
    BY <2>1, <2>2, JobFacts DEF Placed, Between
  <2>4. Renewed(k) = Renewed(job[a])
    BY <2>1, <2>2 DEF Renewed
  <2>5. Knows(k, SalesOf, DebtOf, LedgerOf, stored, cache)
    BY <2>1, <2>2, <2>4, JobFacts DEF Knows
  <2>6. QED
    BY <2>1, <2>2, <2>3, <2>5, Quiet, JobFacts DEF JobOK
<1>5. QED
  BY <1>1, <1>2, <1>3, <1>4

LEMMA ReconcileLooks ==
  ASSUME DebtInv, NEW a \in Jobs, ReconcileSelect(a) \/ LedgerSales(a)
  PROVE  DebtInv' /\ Limited
<1>1. CASE ReconcileSelect(a)
  <2> DEFINE p == Restrict(stored, ActiveReps)
             k == [job[a] EXCEPT !.plan = p, !.todo = ActiveReps, !.dirty = {}, !.pc = "detect"]
  <2>1. /\ job[a].op = "reconcile" /\ job[a].pc = "select" /\ Becomes(a, k)
        /\ UNCHANGED <<ledgerVars, stored, cache, jobs, history>>
    BY <1>1 DEF ReconcileSelect, At
  <2>2. p \in Plans /\ DOMAIN p = ActiveReps /\ \A r \in ActiveReps : p[r] = stored[r]
    <3>1. p \in [ActiveReps -> Nat] /\ ActiveReps \in SUBSET Reps
      BY JobFacts, DebtAssumption DEF Restrict
    <3>2. QED
      BY <3>1 DEF Plans, Restrict
  <2> HIDE DEF p
  <2>3. /\ k \in JobRecords /\ k.op = "reconcile" /\ k.pc = "detect" /\ k.rep = job[a].rep
        /\ k.plan = p /\ k.todo = ActiveReps /\ k.targets = job[a].targets
    <3>1. ActiveReps \in SUBSET Reps /\ {} \in SUBSET Reps /\ p \in Plans
      BY <2>2, DebtAssumption
    <3>2. job[a] \in JobRecords
      BY JobFacts
    <3>3. QED
      BY <2>1, <3>1, <3>2 DEF JobRecords, Between
  <2> HIDE DEF k
  <2>4. Placed(k)
    BY <2>1, <2>2, <2>3, JobFacts DEF Placed, Between
  <2>5. Knows(k, SalesOf, DebtOf, LedgerOf, stored, cache)
    BY <2>2, <2>3 DEF Knows
  <2>6. QED
    BY <2>1, <2>3, <2>4, <2>5, Quiet, JobFacts DEF JobOK
<1>2. CASE LedgerSales(a)
  <2>1. PICK r \in job[a].todo : Becomes(a, [job[a] EXCEPT !.rep = r, !.seen = Sales(r), !.pc = "ledger"])
    BY <1>2 DEF LedgerSales
  <2> DEFINE k == [job[a] EXCEPT !.rep = r, !.seen = Sales(r), !.pc = "ledger"]
  <2>2. /\ job[a].op = "reconcile" /\ job[a].pc = "detect"
        /\ UNCHANGED <<ledgerVars, stored, cache, jobs, history>>
    BY <1>2 DEF LedgerSales, At
  <2>3. r \in Reps /\ r # "none" /\ Sales(r) \in Nat /\ SalesOf[r] = Sales(r)
    BY JobFacts, DebtAssumption DEF JobRecords
  <2>4. /\ k \in JobRecords /\ k.op = "reconcile" /\ k.pc = "ledger" /\ k.rep = r
        /\ k.seen = Sales(r) /\ k.plan = job[a].plan /\ k.todo = job[a].todo
        /\ k.dirty = job[a].dirty
    BY <2>2, <2>3, JobFacts DEF JobRecords, AtWork
  <2> HIDE DEF k
  <2>5. Placed(k)
    BY <2>2, <2>3, <2>4, JobFacts DEF Placed, Between
  <2>6. Knows(k, SalesOf, DebtOf, LedgerOf, stored, cache)
    BY <2>2, <2>3, <2>4, JobFacts DEF Knows
  <2>7. QED
    BY <2>1, <2>2, <2>4, <2>5, <2>6, Quiet, JobFacts DEF JobOK, k
<1>3. QED
  BY <1>1, <1>2
LEMMA LedgerPaidStep ==
  ASSUME DebtInv, NEW a \in Jobs, LedgerPaid(a)
  PROVE  DebtInv' /\ Limited
<1> DEFINE r == job[a].rep
           debt == NonNegative(job[a].seen - PaidFrom(r))
           left == job[a].todo \ {r}
           p == IF Adjusts(job[a].plan[r], debt) THEN With(job[a].plan, r, debt)
                ELSE Without(job[a].plan, {r})
           q == IF left = {} THEN "planned" ELSE "detect"
           k == [job[a] EXCEPT !.todo = left, !.rep = "none", !.seen = 0, !.plan = p, !.pc = q]
<1>1. /\ job[a].op = "reconcile" /\ job[a].pc = "ledger" /\ Becomes(a, k)
      /\ UNCHANGED <<ledgerVars, stored, cache, jobs, history>>
  BY DEF LedgerPaid, At
<1>2. r \in Reps /\ r \in job[a].todo /\ job[a].todo \subseteq DOMAIN job[a].plan
  BY <1>1, JobFacts DEF Placed, AtWork
<1>3. debt \in Nat
  BY <1>2, JobFacts, Numbers DEF JobRecords
<1>4. r \notin job[a].dirty => debt = LedgerOf[r] /\ job[a].plan[r] = stored[r]
  BY <1>1, <1>2, JobFacts DEF Knows, LedgerDebt
<1> HIDE DEF debt
<1>5. /\ p \in Plans /\ DOMAIN p \subseteq DOMAIN job[a].plan
      /\ \A s \in DOMAIN job[a].plan : s # r => s \in DOMAIN p
      /\ \A s \in DOMAIN p : s # r => p[s] = job[a].plan[s]
      /\ r \in DOMAIN p => p[r] = debt /\ Distance(job[a].plan[r], debt) <= MaxAdjust
  <2>1. job[a].plan \in Plans
    BY JobFacts DEF JobRecords
  <2>2. CASE Adjusts(job[a].plan[r], debt)
    <3>1. /\ With(job[a].plan, r, debt) \in Plans
          /\ DOMAIN With(job[a].plan, r, debt) = DOMAIN job[a].plan \cup {r}
          /\ \A s \in DOMAIN job[a].plan \cup {r} :
               With(job[a].plan, r, debt)[s] = IF s = r THEN debt ELSE job[a].plan[s]
      <4> DEFINE m == job[a].plan
      <4>1. m \in Plans
        BY <2>1
      <4> HIDE DEF m
      <4>2. \A x \in Reps, v \in Nat :
              /\ With(m, x, v) \in Plans /\ DOMAIN With(m, x, v) = DOMAIN m \cup {x}
              /\ \A s \in DOMAIN m \cup {x} : With(m, x, v)[s] = IF s = x THEN v ELSE m[s]
        BY <4>1, PlanTypes
      <4> HIDE DEF r
      <4>3. QED
        BY <1>2, <1>3, <4>2 DEF m
    <3>2. p = With(job[a].plan, r, debt) /\ Distance(job[a].plan[r], debt) <= MaxAdjust
      BY <2>2 DEF Adjusts
    <3>3. DOMAIN p = DOMAIN job[a].plan
      BY <1>2, <3>1, <3>2
    <3>4. QED
      BY <1>2, <3>1, <3>2, <3>3
  <2>3. CASE ~Adjusts(job[a].plan[r], debt)
    <3>1. /\ Without(job[a].plan, {r}) \in Plans
          /\ DOMAIN Without(job[a].plan, {r}) = DOMAIN job[a].plan \ {r}
          /\ \A s \in DOMAIN job[a].plan \ {r} : Without(job[a].plan, {r})[s] = job[a].plan[s]
      BY <2>1, PlanTypes, Zenon
    <3>2. QED
      BY <2>3, <3>1
  <2>4. QED
    BY <2>2, <2>3
<1> HIDE DEF p
<1>6. /\ k \in JobRecords /\ k.op = "reconcile" /\ k.pc = q /\ k.rep = "none"
      /\ k.plan = p /\ k.todo = left /\ k.targets = job[a].targets /\ k.dirty = job[a].dirty
  <2>1. left \in SUBSET Reps /\ q \in Between /\ 0 \in Nat
    BY JobFacts DEF JobRecords, Between
  <2>2. job[a] \in JobRecords
    BY JobFacts
  <2> HIDE DEF q, left
  <2>3. QED
    BY <1>1, <1>5, <2>1, <2>2 DEF JobRecords
<1> HIDE DEF k
<1>7. Placed(k)
  <2>1. left \subseteq DOMAIN p
    BY <1>2, <1>5
  <2>2. QED
    BY <1>6, <2>1 DEF Placed, Between
<1>8. ASSUME NEW s \in DOMAIN p \ job[a].dirty
      PROVE  IF q = "detect" /\ s \in left THEN p[s] = stored[s]
             ELSE q \in {"detect", "planned"} \/ s \in left =>
                    p[s] = LedgerOf[s] /\ Distance(stored[s], p[s]) <= MaxAdjust
  <2>1. CASE s = r
    BY <1>2, <1>4, <1>5, <2>1
  <2>2. CASE s # r
    BY <1>1, <1>5, <2>2, JobFacts DEF Knows
  <2>3. QED
    BY <2>1, <2>2
<1>9. Knows(k, SalesOf, DebtOf, LedgerOf, stored, cache)
  BY <1>6, <1>8 DEF Knows
<1>10. QED
  BY <1>1, <1>6, <1>7, <1>9, Quiet, JobFacts DEF JobOK

LEMMA ReconcileMoves ==
  ASSUME DebtInv, NEW a \in Jobs, ReconcilePlanned(a) \/ ReconcileCache(a) \/ ReconcileFault(a)
  PROVE  DebtInv' /\ Limited
<1>1. CASE ReconcilePlanned(a)
  <2> DEFINE k == [job[a] EXCEPT !.todo = DOMAIN job[a].plan, !.pc = "adjust"]
  <2>1. /\ job[a].op = "reconcile" /\ job[a].pc = "planned"
        /\ UNCHANGED <<ledgerVars, stored, cache, jobs, history>>
        /\ Becomes(a, Idle) \/ Becomes(a, k)
    BY <1>1 DEF ReconcilePlanned, At
  <2>2. /\ k \in JobRecords /\ k.op = "reconcile" /\ k.pc = "adjust" /\ k.rep = job[a].rep
        /\ k.plan = job[a].plan /\ k.todo = DOMAIN job[a].plan /\ k.dirty = job[a].dirty
    BY <2>1, JobFacts DEF JobRecords, Between
  <2> HIDE DEF k
  <2>3. Placed(k)
    BY <2>1, <2>2, JobFacts DEF Placed, Between
  <2>4. Knows(k, SalesOf, DebtOf, LedgerOf, stored, cache)
    BY <2>1, <2>2, JobFacts DEF Knows
  <2>5. JobOK(k, SalesOf, DebtOf, LedgerOf, stored, cache)
    BY <2>2, <2>3, <2>4 DEF JobOK
  <2>6. QED
    BY <2>1, <2>5, IdleOK, Quiet, JobFacts
<1>2. CASE ReconcileCache(a)
  <2> DEFINE k == [job[a] EXCEPT !.rep = "none", !.pc = "adjust"]
  <2>1. /\ job[a].op = "reconcile" /\ job[a].pc = "cache" /\ cache' = Without(cache, {job[a].rep})
        /\ UNCHANGED <<ledgerVars, stored, jobs, history>>
        /\ Becomes(a, Idle) \/ Becomes(a, k)
    BY <1>2 DEF ReconcileCache, At
  <2>2. /\ k \in JobRecords /\ k.op = "reconcile" /\ k.pc = "adjust" /\ k.rep = "none"
        /\ k.plan = job[a].plan /\ k.todo = job[a].todo /\ k.dirty = job[a].dirty
    BY <2>1, JobFacts DEF JobRecords, Between
  <2> HIDE DEF k
  <2>3. Placed(k)
    BY <2>1, <2>2, JobFacts DEF Placed, Between
  <2>4. Knows(k, SalesOf, DebtOf, LedgerOf, stored, cache')
    BY <2>1, <2>2, JobFacts DEF Knows
  <2>5. JobOK(k, SalesOf, DebtOf, LedgerOf, stored, cache')
    BY <2>2, <2>3, <2>4 DEF JobOK
  <2>6. QED
    BY <2>1, <2>5, IdleOK, Quiet, JobFacts
<1>3. CASE ReconcileFault(a)
  <2> DEFINE K(r) == [job[a] EXCEPT !.todo = @ \ {r}, !.rep = r, !.pc = "cache"]
  <2>1. /\ job[a].op = "reconcile" /\ UNCHANGED <<ledgerVars, stored, cache, jobs, history>>
        /\ Becomes(a, Idle) \/ (job[a].pc = "adjust" /\ \E r \in job[a].todo : Becomes(a, K(r)))
    BY <1>3 DEF ReconcileFault
  <2>2. ASSUME NEW r \in job[a].todo, job[a].pc = "adjust"
        PROVE  JobOK(K(r), SalesOf, DebtOf, LedgerOf, stored, cache)
    <3> DEFINE k == K(r)
    <3>1. r \in Reps /\ r # "none"
      BY JobFacts, DebtAssumption DEF JobRecords
    <3>2. /\ k \in JobRecords /\ k.op = "reconcile" /\ k.pc = "cache" /\ k.rep = r
          /\ k.plan = job[a].plan /\ k.todo = job[a].todo \ {r} /\ k.dirty = job[a].dirty
      BY <2>1, <3>1, JobFacts DEF JobRecords, AtWork
    <3> HIDE DEF k, K
    <3>3. Placed(k)
      BY <2>1, <2>2, <3>1, <3>2, JobFacts DEF Placed, Between
    <3>4. Knows(k, SalesOf, DebtOf, LedgerOf, stored, cache)
      BY <2>1, <2>2, <3>2, JobFacts DEF Knows
    <3>5. QED
      BY <3>2, <3>3, <3>4 DEF JobOK, k
  <2>3. QED
    BY <2>1, <2>2, IdleOK, Quiet, JobFacts
<1>4. QED
  BY <1>1, <1>2, <1>3

\* The debt of a representative is written.
LEMMA Written ==
  ASSUME DebtInv, NEW a \in Jobs, NEW j, NEW r \in Reps, NEW v \in Nat,
         stored' = [stored EXCEPT ![r] = v], settled' \in [Reps -> {"no", "engine", "ledger"}],
         \A s \in Reps : s # r => settled'[s] = settled[s],
         job' = Disturbing(a, j, {r}), UNCHANGED <<ledgerVars, cache, jobs, current>>,
         settled'[r] = "engine" => v = Debt(r), settled'[r] = "ledger" => v = LedgerDebt(r),
         JobOK(j, SalesOf, DebtOf, LedgerOf, stored', cache),
         At(a, {"reconcile"}, "adjust") /\ r \notin job[a].dirty /\ j.pc = "cache" /\ j.rep = r
           => Distance(stored[r], v) <= MaxAdjust
  PROVE  DebtInv' /\ Limited
<1>1. SalesOf' = SalesOf /\ DebtOf' = DebtOf /\ LedgerOf' = LedgerOf /\ cache' = cache
  BY SameLedger
<1>2. DebtTypes /\ Fresh /\ Repaired(settled, stored, DebtOf, LedgerOf)
  BY DEF DebtInv
<1>3. DebtTypes'
  BY <1>2 DEF DebtTypes, ledgerVars
<1>4. Agree({r}, SalesOf, DebtOf, LedgerOf, stored, cache, SalesOf', DebtOf', LedgerOf', stored', cache')
  BY <1>1, <1>2 DEF Agree, DebtTypes
<1>5. \A s \in Reps : /\ Distance(stored[s], stored[s]) = 0 /\ Distance(Debt(s), Debt(s)) = 0
                      /\ Distance(LedgerDebt(s), LedgerDebt(s)) = 0
                      /\ DebtOf[s] = Debt(s) /\ LedgerOf[s] = LedgerDebt(s)
  BY Numbers, JobFacts, <1>2, SumTypes
<1>6. Repaired(settled', stored', DebtOf', LedgerOf')
  <2>1. ASSUME NEW s \in Reps
        PROVE  /\ settled'[s] = "engine" => Distance(stored'[s], DebtOf[s]) < Tolerance
               /\ settled'[s] = "ledger" => Distance(stored'[s], LedgerOf[s]) < Tolerance
    <3>1. CASE s = r
      BY <1>2, <1>5, <3>1, DebtAssumption DEF DebtTypes
    <3>2. CASE s # r
      BY <1>2, <3>2 DEF DebtTypes, Repaired
    <3>3. QED
      BY <3>1, <3>2
  <2>2. QED
    BY <1>1, <2>1 DEF Repaired
<1>7. Fresh'
  BY <1>1, <1>2 DEF Fresh
<1>8. \A s \in Reps : a \in Jobs /\ At(a, {"reconcile"}, "adjust") /\ s \notin job[a].dirty /\ j.pc = "cache"
                        /\ j.rep = s => Distance(stored[s], stored'[s]) <= MaxAdjust
  BY <1>2, <1>5, DebtAssumption DEF DebtTypes
<1>9. a \in Jobs => JobOK(j, SalesOf', DebtOf', LedgerOf', stored', cache')
  BY <1>1
<1>10. {r} \in SUBSET Reps
  OBVIOUS
<1>11. ({r} = {} /\ a \in Jobs /\ Becomes(a, j)) \/ job' = Disturbing(a, j, {r})
  OBVIOUS
<1>12. QED
  BY <1>3, <1>4, <1>6, <1>7, <1>8, <1>9, <1>10, <1>11, Moves, Zenon

\* The invoices of e change, and what is paid from the payments of rs.
LEMMA LedgerMoves ==
  ASSUME DebtInv, DebtTypes', NEW a, NEW j, NEW e \in Reps, NEW rs \in SUBSET Reps, e \in rs,
         a \in Jobs => JobOK(j, SalesOf', DebtOf', LedgerOf', stored, cache),
         \A s \in Reps \ {e} :
           /\ {i \in live' : RepOf[i] = s} = {i \in live : RepOf[i] = s}
           /\ \A i \in {i \in live : RepOf[i] = s}, t \in Reps : alloc'[<<i, t>>] = alloc[<<i, t>>],
         \A s \in Reps \ rs, i \in Invoices : alloc'[<<i, s>>] = alloc[<<i, s>>],
         Unsettle(rs), current' = current \ {e},
         job' = Disturbing(a, j, rs), UNCHANGED <<stored, cache>>
  PROVE  DebtInv' /\ Limited
<1>1. ASSUME NEW s \in Reps, s # e PROVE Sales(s)' = Sales(s) /\ Paid(s)' = Paid(s)
  <2> DEFINE P == InvoicesOf(s) \X Reps
  <2>1. /\ InvoicesOf(s)' = InvoicesOf(s)
        /\ \A i \in InvoicesOf(s), t \in Reps : alloc'[<<i, t>>] = alloc[<<i, t>>]
    BY <1>1 DEF InvoicesOf
  <2>2. \A x \in P : alloc'[x] = alloc[x]
    BY <2>1
  <2>3. SumOver(alloc', P) = SumOver(alloc, P)
    <3> HIDE DEF P
    <3>1. QED
      BY <2>2, SumLocal
  <2>4. QED
    BY <2>1, <2>3 DEF Sales, Paid
<1>2. ASSUME NEW s \in Reps, s \notin rs PROVE PaidFrom(s)' = PaidFrom(s)
  <2> DEFINE P == Invoices \X {s}
  <2>1. \A x \in P : alloc'[x] = alloc[x]
    BY <1>2
  <2>2. SumOver(alloc', P) = SumOver(alloc, P)
    <3> HIDE DEF P
    <3>1. QED
      BY <2>1, SumLocal
  <2>3. QED
    BY <2>2 DEF PaidFrom
<1>3. /\ \A s \in Reps \ {e} : SalesOf'[s] = SalesOf[s] /\ DebtOf'[s] = DebtOf[s]
      /\ \A s \in Reps \ rs : LedgerOf'[s] = LedgerOf[s]
  BY <1>1, <1>2 DEF SalesOf, DebtOf, LedgerOf, Debt, LedgerDebt
<1>4. DebtTypes /\ Fresh /\ Repaired(settled, stored, DebtOf, LedgerOf)
  BY DEF DebtInv
<1>5. Agree(rs, SalesOf, DebtOf, LedgerOf, stored, cache, SalesOf', DebtOf', LedgerOf', stored', cache')
  BY <1>3 DEF Agree
<1>6. \A s \in Reps : Distance(stored[s], stored'[s]) <= MaxAdjust
  BY <1>4, Numbers, DebtAssumption DEF DebtTypes
<1>7. Repaired(settled', stored', DebtOf', LedgerOf')
  BY <1>3, <1>4 DEF Repaired, Unsettle
<1>8. Fresh'
  BY <1>3, <1>4 DEF Fresh, DebtTypes
<1>9. a \in Jobs => JobOK(j, SalesOf', DebtOf', LedgerOf', stored', cache')
  OBVIOUS
<1>10. QED
  BY <1>5, <1>6, <1>7, <1>8, <1>9, Moves

\* What Unsettle leaves is well typed.
LEMMA Unsettled ==
  ASSUME NEW rs, Unsettle(rs), settled \in [Reps -> {"no", "engine", "ledger"}]
  PROVE  /\ settled' \in [Reps -> {"no", "engine", "ledger"}]
         /\ \A s \in Reps : settled'[s] = IF s \in rs THEN "no" ELSE settled[s]
BY DEF Unsettle

LEMMA ReadPaidStep ==
  ASSUME DebtInv, NEW a \in Jobs, ReadPaid(a)
  PROVE  DebtInv' /\ Limited
<1> DEFINE r == job[a].rep
           v == NonNegative(job[a].seen - Paid(r))
           j == Calculated(job[a], v)
           rs == job[a].dirty \cap {r}
<1>1. /\ job[a].pc = "paid" /\ cache' = With(cache, r, v) /\ job' = Disturbing(a, j, rs)
      /\ UNCHANGED <<ledgerVars, stored, jobs, settled>> /\ current' = (current \cup {r}) \ rs
  BY DEF ReadPaid
<1>2. /\ job[a] \in JobRecords /\ Placed(job[a]) /\ Knows(job[a], SalesOf, DebtOf, LedgerOf, stored, cache)
      /\ r \in Reps /\ job[a].seen \in Nat /\ cache \in Plans /\ DebtTypes /\ Fresh
      /\ Repaired(settled, stored, DebtOf, LedgerOf) /\ job[a].plan \in Plans
  BY <1>1, JobFacts DEF AtWork, JobRecords, DebtInv
<1>3. /\ \A s \in Reps : DebtOf[s] = Debt(s) /\ SalesOf[s] = Sales(s) /\ Paid(s) \in Nat
      /\ \A s \in Reps : Distance(stored[s], stored[s]) = 0
  BY <1>2, SumTypes, Numbers DEF DebtTypes, DebtOf, SalesOf
<1>4. v \in Nat /\ (r \notin job[a].dirty => v = Debt(r))
  <2>1. r \notin job[a].dirty => job[a].seen = Sales(r)
    BY <1>1, <1>2, <1>3 DEF Knows
  <2>2. QED
    BY <1>2, <1>3, <2>1, Numbers DEF Debt
<1>5. /\ cache' \in Plans /\ DOMAIN cache' = DOMAIN cache \cup {r}
      /\ cache'[r] = v /\ \A s \in DOMAIN cache : s # r => cache'[s] = cache[s]
  <2> DEFINE w == v
  <2>1. w \in Nat
    BY <1>4
  <2> HIDE DEF w
  <2>2. /\ With(cache, r, w) \in Plans /\ DOMAIN With(cache, r, w) = DOMAIN cache \cup {r}
        /\ \A s \in DOMAIN cache \cup {r} : With(cache, r, w)[s] = IF s = r THEN w ELSE cache[s]
    <3>1. r \in Reps
      BY <1>2
    <3>2. \A x \in Reps, u \in Nat :
            /\ With(cache, x, u) \in Plans /\ DOMAIN With(cache, x, u) = DOMAIN cache \cup {x}
            /\ \A s \in DOMAIN cache \cup {x} : With(cache, x, u)[s] = IF s = x THEN u ELSE cache[s]
      BY <1>2, PlanTypes
    <3> HIDE DEF r
    <3>3. QED
      BY <2>1, <3>1, <3>2
  <2>3. cache' = With(cache, r, w)
    BY <1>1 DEF w
  <2>4. QED
    BY <2>2, <2>3 DEF w
<1>6. SalesOf' = SalesOf /\ DebtOf' = DebtOf /\ LedgerOf' = LedgerOf /\ stored' = stored
  BY <1>1, SameLedger
<1>7. DebtTypes'
  BY <1>1, <1>2, <1>5 DEF DebtTypes, ledgerVars
<1> HIDE DEF v
<1>8. rs \in SUBSET Reps
  BY <1>2
<1>9. Agree(rs, SalesOf, DebtOf, LedgerOf, stored, cache, SalesOf', DebtOf', LedgerOf', stored', cache')
  BY <1>3, <1>4, <1>5, <1>6 DEF Agree
<1>10. Repaired(settled', stored', DebtOf', LedgerOf') /\ Fresh'
  <2>1. Repaired(settled', stored', DebtOf', LedgerOf')
    BY <1>1, <1>2, <1>6
  <2>2. \A s \in current' \cap DOMAIN cache' : cache'[s] = DebtOf[s]
    BY <1>1, <1>2, <1>3, <1>4, <1>5 DEF Fresh, DebtTypes
  <2>3. QED
    BY <1>6, <2>1, <2>2 DEF Fresh
<1>11. \A s \in Reps : a \in Jobs /\ At(a, {"reconcile"}, "adjust") /\ s \notin job[a].dirty
         /\ j.pc = "cache" /\ j.rep = s => Distance(stored[s], stored'[s]) <= MaxAdjust
  BY <1>3, <1>6, DebtAssumption
<1>12. JobOK(j, SalesOf, DebtOf, LedgerOf, stored, cache')
  <2>1. CASE job[a].op = "view"
    BY <2>1, IdleOK DEF Calculated
  <2>2. CASE job[a].op = "rollback" /\ job[a].targets # {}
    BY <1>2, <1>4, <2>2, Projection
  <2>3. CASE job[a].op # "view" /\ ~(job[a].op = "rollback" /\ job[a].targets # {})
    <3> DEFINE q == IF job[a].op \in {"sync", "generate"} THEN "write" ELSE "compare"
    <3>1. j = [job[a] EXCEPT !.val = v, !.pc = q]
      BY <2>3 DEF Calculated
    <3>2. /\ j \in JobRecords /\ j.op = job[a].op /\ j.pc = q /\ j.rep = r /\ j.val = v
          /\ j.plan = job[a].plan /\ j.targets = job[a].targets /\ j.dirty = job[a].dirty
      BY <1>2, <1>4, <3>1 DEF JobRecords, AtWork
    <3> HIDE DEF j
    <3>3. q \in {"write", "compare"} /\ q \notin Between
      BY DEF Between
    <3> HIDE DEF q
    <3>4. Placed(j)
      BY <1>1, <1>2, <3>2, <3>3, DebtAssumption DEF Placed
    <3>5. job[a].op # "reconcile"
      BY <1>1, <1>2 DEF Placed
    <3>6. job[a].op = "rollback" => Renewed(j) = Renewed(job[a])
      BY <1>1, <3>2, <3>3 DEF Renewed
    <3>7. j.op = "rollback" =>
            \A s \in Renewed(j) \ j.dirty : s \in DOMAIN cache' => cache'[s] = DebtOf[s]
      <4>1. Renewed(j) \subseteq Reps
        BY <1>2, <3>2, PlanTypes DEF Renewed
      <4>2. QED
        BY <1>2, <1>3, <1>4, <1>5, <3>2, <3>6, <4>1 DEF Knows
    <3>8. Knows(j, SalesOf, DebtOf, LedgerOf, stored, cache')
      BY <1>2, <1>3, <1>4, <3>2, <3>3, <3>5, <3>7 DEF Knows
    <3>9. QED
      BY <3>2, <3>4, <3>8 DEF JobOK
  <2>4. QED
    BY <2>1, <2>2, <2>3
<1>13. a \in Jobs => JobOK(j, SalesOf', DebtOf', LedgerOf', stored', cache')
  BY <1>6, <1>12
<1> HIDE DEF j, rs
<1>14. job' = Disturbing(a, j, rs)
  BY <1>1 DEF j, rs
<1>15. QED
  BY <1>7, <1>8, <1>9, <1>10, <1>11, <1>13, <1>14, Moves, Zenon

LEMMA WriteSteps ==
  ASSUME DebtInv, NEW a \in Jobs, SyncWrite(a) \/ CorrectWrite(a) \/ RollbackWrite(a) \/ ReconcileAdjust(a)
  PROVE  DebtInv' /\ Limited
<1>1. CASE SyncWrite(a)
  <2> DEFINE r == job[a].rep
             v == job[a].val
             k == [job[a] EXCEPT !.pc = "after"]
  <2>1. /\ job[a].op \in {"sync", "generate"} /\ job[a].pc = "write"
        /\ stored' = [stored EXCEPT ![r] = v] /\ Settle(a, r, "engine")
        /\ job' = Disturbing(a, k, {r}) /\ UNCHANGED <<ledgerVars, cache, jobs, current>>
    BY <1>1 DEF SyncWrite, At, WriteDebt
  <2>2. r \in Reps /\ v \in Nat
    BY <2>1, JobFacts DEF AtWork, JobRecords
  <2>3. /\ settled' \in [Reps -> {"no", "engine", "ledger"}]
        /\ \A s \in Reps : s # r => settled'[s] = settled[s]
        /\ settled'[r] = "engine" => v = Debt(r)
        /\ settled'[r] # "ledger"
    <3>1. r \notin job[a].dirty => v = Debt(r)
      BY <2>1, <2>2, JobFacts DEF Knows
    <3>2. QED
      BY <2>1, <2>2, <3>1, JobFacts DEF Settle
  <2>4. /\ k \in JobRecords /\ k.op = job[a].op /\ k.pc = "after" /\ k.rep = r
        /\ k.plan = job[a].plan
    BY <2>1, JobFacts DEF JobRecords, AtWork
  <2> HIDE DEF k
  <2>5. Placed(k)
    BY <2>1, <2>2, <2>4, JobFacts, DebtAssumption DEF Placed, Between
  <2>6. JobOK(k, SalesOf, DebtOf, LedgerOf, stored', cache)
    BY <2>1, <2>4, <2>5, Plain
  <2>7. QED
    BY <2>1, <2>2, <2>3, <2>4, <2>6, Written
<1>2. CASE CorrectWrite(a)
  <2> DEFINE r == job[a].rep
             v == job[a].val
             m == [job[a] EXCEPT !.fixed = TRUE]
             k == Next1(m)
  <2>1. /\ job[a].op \in {"correct", "monitor", "rollback"} /\ job[a].pc = "write"
        /\ stored' = [stored EXCEPT ![r] = v] /\ Settle(a, r, "engine")
        /\ job' = Disturbing(a, k, {r}) /\ UNCHANGED <<ledgerVars, cache, jobs, current>>
    BY <1>2 DEF CorrectWrite, Correcting, WriteDebt
  <2>2. r \in Reps /\ v \in Nat
    BY <2>1, JobFacts DEF AtWork, JobRecords
  <2>3. /\ settled' \in [Reps -> {"no", "engine", "ledger"}]
        /\ \A s \in Reps : s # r => settled'[s] = settled[s]
        /\ settled'[r] = "engine" => v = Debt(r)
        /\ settled'[r] # "ledger"
    <3>1. r \notin job[a].dirty => v = Debt(r)
      BY <2>1, <2>2, JobFacts DEF Knows
    <3>2. QED
      BY <2>1, <2>2, <3>1, JobFacts DEF Settle
  <2>4. /\ m \in JobRecords /\ m.op = job[a].op /\ m.pc = "write" /\ m.rep = r /\ m.val = v
        /\ m.plan = job[a].plan /\ m.targets = job[a].targets /\ m.todo = job[a].todo
        /\ m.dirty = job[a].dirty
    BY <2>1, JobFacts DEF JobRecords
  <2> HIDE DEF m
  <2>5. Placed(m)
    BY <2>1, <2>4, JobFacts DEF Placed
  <2>6. Renewed(m) = Renewed(job[a])
    BY <2>4, <2>1 DEF Renewed
  <2>7. Knows(m, SalesOf, DebtOf, LedgerOf, stored', cache)
    BY <2>1, <2>4, <2>6, JobFacts DEF Knows
  <2>8. JobOK(k, SalesOf, DebtOf, LedgerOf, stored', cache)
    BY <2>1, <2>4, <2>5, <2>7, NextOK DEF AtWork
  <2>9. ~At(a, {"reconcile"}, "adjust")
    BY <2>1 DEF At
  <2>10. QED
    BY <2>1, <2>2, <2>3, <2>8, <2>9, Written
<1>3. CASE RollbackWrite(a)
  <2> DEFINE r == job[a].rep
             v == job[a].plan[r]
             k == [job[a] EXCEPT !.pc = "restore", !.rep = "none"]
  <2>1. /\ job[a].op = "rollback" /\ job[a].pc = "project" /\ UNCHANGED <<ledgerVars, cache, jobs, current>>
        /\ \/ /\ stored' = [stored EXCEPT ![r] = v] /\ Unsettle({r})
              /\ job' = Disturbing(a, k, {r})
           \/ Becomes(a, k) /\ UNCHANGED <<stored, settled>>
    BY <1>3 DEF RollbackWrite, At, WriteDebt
  <2>2. r \in Reps /\ r \in DOMAIN job[a].plan /\ v \in Nat
    BY <2>1, JobFacts DEF AtWork, Placed
  <2>3. /\ k \in JobRecords /\ k.op = "rollback" /\ k.pc = "restore" /\ k.rep = "none"
        /\ k.plan = job[a].plan /\ k.targets = job[a].targets /\ k.todo = job[a].todo
        /\ k.dirty = job[a].dirty
    BY <2>1, JobFacts DEF JobRecords, Between
  <2> HIDE DEF k
  <2>4. Placed(k)
    BY <2>1, <2>3, JobFacts DEF Placed, Between
  <2>5. Renewed(k) = Renewed(job[a])
    BY <2>1, <2>3 DEF Renewed
  <2>6. Knows(k, SalesOf, DebtOf, LedgerOf, stored', cache)
    BY <2>1, <2>3, <2>5, JobFacts DEF Knows
  <2>7. JobOK(k, SalesOf, DebtOf, LedgerOf, stored', cache)
    BY <2>3, <2>4, <2>6 DEF JobOK
  <2>8. ~At(a, {"reconcile"}, "adjust")
    BY <2>1 DEF At
  <2>9. CASE job' = Disturbing(a, k, {r}) /\ stored' = [stored EXCEPT ![r] = v] /\ Unsettle({r})
    <3>1. /\ settled' \in [Reps -> {"no", "engine", "ledger"}]
          /\ \A s \in Reps : s # r => settled'[s] = settled[s]
          /\ settled'[r] # "engine" /\ settled'[r] # "ledger"
      BY <2>2, <2>9, JobFacts, Unsettled
    <3>2. QED
      BY <2>1, <2>2, <2>7, <2>8, <2>9, <3>1, Written
  <2>10. CASE Becomes(a, k) /\ UNCHANGED <<stored, settled>>
    BY <2>1, <2>7, <2>10, Quiet, JobFacts DEF history
  <2>11. QED
    BY <2>1, <2>9, <2>10
<1>4. CASE ReconcileAdjust(a)
  <2> DEFINE K(r) == [job[a] EXCEPT !.todo = @ \ {r}, !.rep = r, !.pc = "cache"]
  <2>1. /\ job[a].op = "reconcile" /\ job[a].pc = "adjust" /\ UNCHANGED <<ledgerVars, cache, jobs, current>>
        /\ \E r \in job[a].todo :
             /\ stored' = [stored EXCEPT ![r] = job[a].plan[r]] /\ job' = Disturbing(a, K(r), {r})
             /\ Settle(a, r, "ledger")
    BY <1>4 DEF ReconcileAdjust, At
  <2>2. PICK r \in job[a].todo :
          /\ stored' = [stored EXCEPT ![r] = job[a].plan[r]] /\ job' = Disturbing(a, K(r), {r})
          /\ Settle(a, r, "ledger")
    BY <2>1
  <2> DEFINE v == job[a].plan[r]
             k == K(r)
  <2>3. r \in Reps /\ r # "none" /\ r \in DOMAIN job[a].plan /\ v \in Nat
    BY <2>1, JobFacts, DebtAssumption DEF JobRecords, Placed
  <2>4. r \notin job[a].dirty => v = LedgerDebt(r) /\ Distance(stored[r], v) <= MaxAdjust
    BY <2>1, <2>3, JobFacts DEF Knows
  <2>5. /\ k \in JobRecords /\ k.op = "reconcile" /\ k.pc = "cache" /\ k.rep = r
        /\ k.plan = job[a].plan /\ k.todo = job[a].todo \ {r} /\ k.dirty = job[a].dirty
    BY <2>1, <2>3, JobFacts DEF JobRecords, AtWork
  <2> HIDE DEF k, K
  <2>6. Placed(k)
    BY <2>1, <2>3, <2>5, JobFacts DEF Placed, Between
  <2>7. \A s \in Reps : s # r => stored'[s] = stored[s]
    BY <2>2, JobFacts DEF DebtTypes
  <2>8. Knows(k, SalesOf, DebtOf, LedgerOf, stored', cache)
    BY <2>1, <2>3, <2>5, <2>7, JobFacts DEF Knows
  <2>9. JobOK(k, SalesOf, DebtOf, LedgerOf, stored', cache)
    BY <2>5, <2>6, <2>8 DEF JobOK
  <2>10. /\ job' = Disturbing(a, k, {r})
         /\ settled' \in [Reps -> {"no", "engine", "ledger"}]
         /\ \A s \in Reps : s # r => settled'[s] = settled[s]
         /\ settled'[r] = "ledger" => v = LedgerDebt(r)
         /\ settled'[r] # "engine"
    BY <2>2, <2>3, <2>4, JobFacts DEF Settle, k
  <2>11. QED
    BY <2>1, <2>2, <2>3, <2>4, <2>9, <2>10, Written
<1>5. QED
  BY <1>1, <1>2, <1>3, <1>4

LEMMA AllocateStep ==
  ASSUME DebtInv, NEW i \in Invoices, NEW s \in Reps, Allocate(i, s)
  PROVE  DebtInv' /\ Limited
<1> DEFINE rs == {RepOf[i], s}
           v == alloc[<<i, s>>] + 1
<1>1. /\ i \in live /\ alloc[<<i, s>>] < Amount[i] /\ alloc' = [alloc EXCEPT ![<<i, s>>] = v]
      /\ job' = Disturbing("env", Idle, rs) /\ Unsettle(rs) /\ current' = current \ {RepOf[i]}
      /\ UNCHANGED <<live, stored, cache, jobs>>
  BY DEF Allocate
<1>2. RepOf[i] \in Reps /\ Amount[i] \in Nat /\ "env" \notin Jobs
  BY DebtAssumption
<1>3. DebtTypes
  BY DEF DebtInv
<1>4. v \in Nat /\ v <= Amount[i]
  BY <1>1, <1>2, <1>3 DEF DebtTypes
<1>5. /\ alloc' \in [Invoices \X Reps -> Nat]
      /\ \A x \in Invoices, t \in Reps : <<x, t>> # <<i, s>> => alloc'[<<x, t>>] = alloc[<<x, t>>]
      /\ alloc'[<<i, s>>] = v
  BY <1>1, <1>3, <1>4 DEF DebtTypes
<1> HIDE DEF v
<1>6. settled' \in [Reps -> {"no", "engine", "ledger"}] /\ current' \in SUBSET Reps
  BY <1>1, <1>3, Unsettled DEF DebtTypes
<1>7. DebtTypes'
  <2>1. ASSUME NEW x \in Invoices, NEW t \in Reps
        PROVE  alloc'[<<x, t>>] <= Amount[x] /\ (x \notin live => alloc'[<<x, t>>] = 0)
    <3>1. CASE x = i /\ t = s
      BY <1>1, <1>4, <1>5, <3>1
    <3>2. CASE ~(x = i /\ t = s)
      BY <1>3, <1>5, <3>2 DEF DebtTypes
    <3>3. QED
      BY <3>1, <3>2
  <2>2. QED
    BY <1>1, <1>3, <1>5, <1>6, <2>1 DEF DebtTypes
<1>8. \A e \in Reps \ {RepOf[i]} :
        /\ {x \in live' : RepOf[x] = e} = {x \in live : RepOf[x] = e}
        /\ \A x \in {x \in live : RepOf[x] = e}, t \in Reps : alloc'[<<x, t>>] = alloc[<<x, t>>]
  BY <1>1, <1>3, <1>5 DEF DebtTypes
<1>9. \A e \in Reps \ rs, x \in Invoices : alloc'[<<x, e>>] = alloc[<<x, e>>]
  BY <1>5
<1>10. rs \in SUBSET Reps /\ RepOf[i] \in rs
  BY <1>2
<1> HIDE DEF rs
<1>11. QED
  BY <1>1, <1>2, <1>7, <1>8, <1>9, <1>10, LedgerMoves

LEMMA RollbackDeleteStep ==
  ASSUME DebtInv, NEW a \in Jobs, RollbackDelete(a)
  PROVE  DebtInv' /\ Limited
<1>1. /\ job[a].op = "rollback" /\ job[a].pc = "delete" /\ UNCHANGED <<stored, cache, jobs>>
  BY DEF RollbackDelete, At
<1> DEFINE J(i) == IF job[a].targets \ {i} # {} THEN [job[a] EXCEPT !.targets = job[a].targets \ {i}]
                   ELSE [job[a] EXCEPT !.targets = {}, !.todo = DOMAIN job[a].plan, !.pc = "restore"]
<1>2. PICK i \in job[a].targets :
        \/ /\ live' = live \ {i}
           /\ alloc' = [p \in DOMAIN alloc |-> IF p[1] = i THEN 0 ELSE alloc[p]]
           /\ job' = Disturbing(a, J(i), {RepOf[i]} \cup {s \in Reps : alloc[<<i, s>>] # 0})
           /\ Unsettle({RepOf[i]} \cup {s \in Reps : alloc[<<i, s>>] # 0})
           /\ current' = current \ {RepOf[i]}
        \/ Becomes(a, J(i)) /\ UNCHANGED <<ledgerVars, history>>
  BY DEF RollbackDelete
<1> DEFINE k == J(i)
           rs == {RepOf[i]} \cup {s \in Reps : alloc[<<i, s>>] # 0}
<1>3. i \in Invoices /\ RepOf[i] \in Reps
  BY JobFacts, DebtAssumption DEF JobRecords
<1>4. /\ k \in JobRecords /\ k.op = "rollback" /\ k.pc \in {"delete", "restore"}
      /\ k.rep = job[a].rep /\ k.plan = job[a].plan
      /\ k.pc = "delete" => k.targets # {}
      /\ k.pc = "restore" => k.targets = {} /\ k.todo = DOMAIN k.plan
  <2>1. CASE job[a].targets \ {i} # {}
    BY <1>1, <2>1, JobFacts DEF JobRecords
  <2>2. CASE job[a].targets \ {i} = {}
    <3>1. k = [job[a] EXCEPT !.targets = {}, !.todo = DOMAIN job[a].plan, !.pc = "restore"]
      BY <2>2
    <3>2. DOMAIN job[a].plan \in SUBSET Reps /\ job[a] \in JobRecords
      BY JobFacts
    <3> HIDE DEF k, J
    <3>3. QED
      BY <1>1, <3>1, <3>2 DEF JobRecords, Between
  <2>3. QED
    BY <2>1, <2>2
<1>5. (Becomes(a, k) /\ UNCHANGED <<ledgerVars, history>>)
      \/ (/\ live' = live \ {i}
          /\ alloc' = [p \in DOMAIN alloc |-> IF p[1] = i THEN 0 ELSE alloc[p]]
          /\ job' = Disturbing(a, k, rs) /\ Unsettle(rs) /\ current' = current \ {RepOf[i]})
  BY <1>2
<1> HIDE DEF k, J
<1>6. Placed(k)
  BY <1>1, <1>4, JobFacts DEF Placed, Between
<1>7. Renewed(k) = {}
  BY <1>4 DEF Renewed
<1>8. \A sales, debt, led, st, ch : JobOK(k, sales, debt, led, st, ch)
  BY <1>4, <1>6, <1>7 DEF JobOK, Knows
<1>9. CASE Becomes(a, k) /\ UNCHANGED <<ledgerVars, history>>
  BY <1>1, <1>8, <1>9, Quiet, JobFacts
<1>10. CASE /\ live' = live \ {i}
            /\ alloc' = [p \in DOMAIN alloc |-> IF p[1] = i THEN 0 ELSE alloc[p]]
            /\ job' = Disturbing(a, k, rs) /\ Unsettle(rs) /\ current' = current \ {RepOf[i]}
  <2>1. DebtTypes /\ Amount \in [Invoices -> Nat \ {0}]
    BY DebtAssumption DEF DebtInv
  <2>2. /\ alloc' \in [Invoices \X Reps -> Nat]
        /\ \A x \in Invoices, t \in Reps :
             alloc'[<<x, t>>] = IF x = i THEN 0 ELSE alloc[<<x, t>>]
    BY <1>10, <2>1 DEF DebtTypes
  <2>3. settled' \in [Reps -> {"no", "engine", "ledger"}] /\ current' \in SUBSET Reps
    BY <1>10, <2>1, Unsettled DEF DebtTypes
  <2>4. DebtTypes'
    <3>1. ASSUME NEW x \in Invoices, NEW t \in Reps
          PROVE  alloc'[<<x, t>>] <= Amount[x] /\ (x \notin live' => alloc'[<<x, t>>] = 0)
      <4>1. CASE x = i
        BY <2>1, <2>2, <4>1
      <4>2. CASE x # i
        BY <1>10, <2>1, <2>2, <4>2 DEF DebtTypes
      <4>3. QED
        BY <4>1, <4>2
    <3>2. QED
      BY <1>1, <1>10, <2>1, <2>2, <2>3, <3>1 DEF DebtTypes
  <2>5. \A e \in Reps \ {RepOf[i]} :
          /\ {x \in live' : RepOf[x] = e} = {x \in live : RepOf[x] = e}
          /\ \A x \in {x \in live : RepOf[x] = e}, t \in Reps : alloc'[<<x, t>>] = alloc[<<x, t>>]
    BY <1>10, <2>1, <2>2 DEF DebtTypes
  <2>6. \A e \in Reps \ rs, x \in Invoices : alloc'[<<x, e>>] = alloc[<<x, e>>]
    BY <1>3, <2>2
  <2>7. rs \in SUBSET Reps /\ RepOf[i] \in rs
    BY <1>3
  <2> HIDE DEF rs
  <2>8. a \in Jobs => JobOK(k, SalesOf', DebtOf', LedgerOf', stored, cache)
    BY <1>8
  <2>9. QED
    BY <1>1, <1>3, <1>10, <2>4, <2>5, <2>6, <2>7, <2>8, LedgerMoves
<1>11. QED
  BY <1>5, <1>9, <1>10
-----------------------------------------------------------------------------
(* Every step preserves the invariant, and none moves a debt too far.      *)
LEMMA Generates ==
  ASSUME DebtInv, NEW a \in Jobs, job[a].op \in {"generate", "complete"}, NEW k \in JobRecords,
         k.op = job[a].op, k.plan = job[a].plan, k.rep = "none" <=> k.pc \in Between,
         k.pc \in {"create", "update", "sales", "count", "total"}, Becomes(a, k),
         UNCHANGED <<ledgerVars, stored, jobs, history>>, Shrinks(cache', cache)
  PROVE  DebtInv' /\ Limited
<1>1. Placed(k)
  BY JobFacts DEF Placed
<1>2. JobOK(k, SalesOf, DebtOf, LedgerOf, stored, cache')
  BY <1>1, Plain
<1>3. QED
  BY <1>2, Quiet, JobFacts

LEMMA GenerateDebt ==
  ASSUME DebtInv, NEW a \in Jobs, GenerateStep(a)
  PROVE  DebtInv' /\ Limited
<1>1. CASE GenerateArrive(a)
  <2>1. PICK rs \in SUBSET Reps : Start(a, "generate", "batch", rs)
    BY <1>1 DEF GenerateArrive
  <2>2. QED
    BY <2>1, StartStep
<1>2. CASE GenerateBatch(a)
  <2> DEFINE k == [job[a] EXCEPT !.pc = "create"]
  <2>1. /\ job[a].op = "generate" /\ job[a].pc = "batch" /\ Becomes(a, k)
        /\ UNCHANGED <<ledgerVars, stored, cache, jobs, history>>
    BY <1>2 DEF GenerateBatch, At
  <2>2. /\ k \in JobRecords /\ k.op = "generate" /\ k.plan = job[a].plan /\ k.pc = "create"
        /\ k.rep = "none" /\ "create" \in Between
    BY <2>1, JobFacts DEF JobRecords, Between, Placed
  <2> HIDE DEF k
  <2>3. QED
    BY <2>1, <2>2, Generates, JobFacts
<1>3. CASE GenerateBatchFault(a) \/ GenerateEnd(a) \/ GenerateEndFault(a)
  <2>1. Becomes(a, Idle) /\ UNCHANGED <<ledgerVars, stored, cache, jobs, history>>
    BY <1>3 DEF GenerateBatchFault, GenerateEnd, GenerateEndFault, Leave
  <2>2. QED
    BY <2>1, IdleOK, Quiet, JobFacts
<1>4. CASE GenerateInsert(a)
  <2> DEFINE K(r) == [job[a] EXCEPT !.todo = @ \ {r}, !.rep = r, !.pc = "update"]
  <2>1. /\ job[a].op = "generate" /\ job[a].pc = "create" /\ UNCHANGED <<alloc, stored, cache, jobs>>
    BY <1>4 DEF GenerateInsert, At
  <2>2. PICK r \in job[a].todo, i \in Invoices :
          /\ i \in Unused(r) /\ live' = live \cup {i} /\ job' = Disturbing(a, K(r), {r})
          /\ Unsettle({r}) /\ current' = current \ {r}
    BY <1>4 DEF GenerateInsert, Unused
  <2> DEFINE k == K(r)
  <2>3. r \in Reps /\ r # "none" /\ i \in Invoices /\ RepOf[i] = r
    BY <2>2, JobFacts, DebtAssumption DEF JobRecords, Unused
  <2>4. /\ k \in JobRecords /\ k.op = "generate" /\ k.pc = "update" /\ k.rep = r
        /\ k.plan = job[a].plan
    <3>1. job[a] \in JobRecords /\ "update" \in AtWork
      BY JobFacts DEF AtWork
    <3>2. PICK T \in SUBSET Reps : T = job[a].todo \ {r}
      BY <3>1 DEF JobRecords
    <3>3. k = [job[a] EXCEPT !.todo = T, !.rep = r, !.pc = "update"]
      BY <3>2
    <3> HIDE DEF k, K
    <3>4. k \in JobRecords
      BY <2>3, <3>1, <3>3 DEF JobRecords
    <3>5. QED
      BY <2>1, <3>1, <3>3, <3>4 DEF JobRecords
  <2>5. job' = Disturbing(a, k, {r})
    BY <2>2
  <2> HIDE DEF k, K
  <2>6. Placed(k)
    BY <2>1, <2>3, <2>4, JobFacts DEF Placed, Between
  <2>7. JobOK(k, SalesOf', DebtOf', LedgerOf', stored, cache)
    BY <2>4, <2>6, Plain
  <2>8. DebtTypes
    BY DEF DebtInv
  <2>9. settled' \in [Reps -> {"no", "engine", "ledger"}] /\ current' \in SUBSET Reps
    BY <2>2, <2>8, Unsettled DEF DebtTypes
  <2>10. DebtTypes'
    BY <2>1, <2>2, <2>3, <2>8, <2>9 DEF DebtTypes
  <2>11. /\ \A s \in Reps \ {r} :
              /\ {x \in live' : RepOf[x] = s} = {x \in live : RepOf[x] = s}
              /\ \A x \in {x \in live : RepOf[x] = s}, t \in Reps : alloc'[<<x, t>>] = alloc[<<x, t>>]
         /\ \A s \in Reps \ {r}, x \in Invoices : alloc'[<<x, s>>] = alloc[<<x, s>>]
    BY <2>1, <2>2, <2>3
  <2>12. {r} \in SUBSET Reps /\ r \in {r}
    BY <2>3
  <2>13. QED
    BY <2>1, <2>2, <2>3, <2>5, <2>7, <2>10, <2>11, <2>12, LedgerMoves
<1>5. CASE GenerateRefused(a)
  <2> DEFINE K(r) == [job[a] EXCEPT !.todo = @ \ {r}]
  <2>1. /\ job[a].op = "generate" /\ job[a].pc = "create" /\ \E r \in job[a].todo : Becomes(a, K(r))
        /\ UNCHANGED <<ledgerVars, stored, cache, jobs, history>>
    BY <1>5 DEF GenerateRefused, At
  <2>2. PICK r \in job[a].todo : Becomes(a, K(r))
    BY <2>1
  <2> DEFINE k == K(r)
  <2>3. /\ k \in JobRecords /\ k.op = "generate" /\ k.plan = job[a].plan /\ k.pc = "create"
        /\ k.rep = "none" /\ "create" \in Between
    BY <2>1, JobFacts DEF JobRecords, Between, Placed
  <2>4. Becomes(a, k)
    BY <2>2
  <2> HIDE DEF k, K
  <2>5. QED
    BY <2>1, <2>3, <2>4, Generates, JobFacts
<1>6. CASE GenerateUpdate(a)
  <2> DEFINE k == [Clean(job[a], job[a].rep) EXCEPT !.pc = "sales"]
  <2>1. /\ job[a].op = "generate" /\ job[a].pc = "update" /\ Becomes(a, k)
        /\ cache' = Without(cache, {job[a].rep}) /\ UNCHANGED <<ledgerVars, stored, jobs, history>>
    BY <1>6 DEF GenerateUpdate, At
  <2>2. /\ k \in JobRecords /\ k.op = "generate" /\ k.plan = job[a].plan /\ k.pc = "sales"
        /\ k.rep = job[a].rep
    BY <2>1, JobFacts DEF JobRecords, AtWork, Clean
  <2>3. k.rep # "none" /\ "sales" \notin Between
    BY <2>1, <2>2, JobFacts DEF Placed, Between
  <2> HIDE DEF k
  <2>4. QED
    BY <2>1, <2>2, <2>3, Generates, JobFacts
<1>7. ASSUME job[a].op = "generate", job[a].pc \in {"sales", "paid", "write", "after"},
             UNCHANGED <<ledgerVars, stored, jobs, history>>, Shrinks(cache', cache),
             NextInvoice(a) \/ Becomes(a, [job[a] EXCEPT !.pc = "update"])
      PROVE  DebtInv' /\ Limited
  <2>1. CASE NextInvoice(a)
    <3> DEFINE k == [Next1(job[a]) EXCEPT !.pc = "create"]
    <3>1. /\ k \in JobRecords /\ k.op = "generate" /\ k.plan = job[a].plan /\ k.pc = "create"
          /\ k.rep = "none" /\ "create" \in Between
      BY <1>7, JobFacts DEF JobRecords, Between, Next1
    <3>2. Becomes(a, k)
      BY <2>1 DEF NextInvoice
    <3> HIDE DEF k
    <3>3. QED
      BY <1>7, <3>1, <3>2, Generates
  <2>2. CASE Becomes(a, [job[a] EXCEPT !.pc = "update"])
    <3> DEFINE k == [job[a] EXCEPT !.pc = "update"]
    <3>1. /\ k \in JobRecords /\ k.op = "generate" /\ k.plan = job[a].plan /\ k.pc = "update"
          /\ k.rep = job[a].rep
      BY <1>7, JobFacts DEF JobRecords, AtWork
    <3>2. k.rep # "none" /\ "update" \notin Between
      BY <1>7, <3>1, JobFacts DEF Placed, Between
    <3>3. Becomes(a, k)
      BY <2>2
    <3> HIDE DEF k
    <3>4. QED
      BY <1>7, <3>1, <3>2, <3>3, Generates
  <2>3. QED
    BY <1>7, <2>1, <2>2
<1>8. CASE GenerateUpdated(a)
  <2>1. /\ job[a].op = "generate" /\ job[a].pc = "after" /\ cache' = Without(cache, {job[a].rep})
        /\ UNCHANGED <<ledgerVars, stored, jobs, history>>
        /\ NextInvoice(a) \/ Becomes(a, [job[a] EXCEPT !.pc = "update"])
    BY <1>8 DEF GenerateUpdated, At
  <2>2. QED
    BY <1>7, <2>1, JobFacts
<1>9. CASE GenerateFault(a)
  BY <1>7, <1>9, JobFacts DEF GenerateFault
<1>10. QED
  BY <1>1, <1>2, <1>3, <1>4, <1>5, <1>6, <1>8, <1>9 DEF GenerateStep

\* The requests and the cache are gone; the tables stay.
LEMMA ExitDebt ==
  ASSUME DebtInv, Exit
  PROVE  DebtInv' /\ Limited
<1>1. /\ job' = [a \in Jobs |-> Idle] /\ cache' = Nothing
      /\ UNCHANGED <<ledgerVars, stored, jobs, settled, current>>
  BY DEF Exit, history
<1>2. SalesOf' = SalesOf /\ DebtOf' = DebtOf /\ LedgerOf' = LedgerOf
  BY <1>1, SameLedger
<1>3. DebtTypes'
  BY <1>1, PlanTypes DEF DebtInv, DebtTypes, ledgerVars
<1>4. JobsKnow'
  <2>1. Idle \in JobRecords /\ JobOK(Idle, SalesOf, DebtOf, LedgerOf, stored, Nothing)
    BY IdleOK DEF JobOK
  <2>2. QED
    BY <1>1, <1>2, <2>1 DEF JobsKnow
<1>5. Fresh' /\ Repaired(settled, stored, DebtOf, LedgerOf)'
  BY <1>1, <1>2, PlanTypes DEF DebtInv, Fresh, Repaired
<1>6. Limited
  <2>1. \A a \in Jobs : job'[a].pc = "idle"
    BY <1>1 DEF Idle
  <2>2. QED
    BY <2>1 DEF Limited
<1>7. QED
  BY <1>3, <1>4, <1>5, <1>6 DEF DebtInv

LEMMA CompleteDebt ==
  ASSUME DebtInv, NEW a \in Jobs, CompleteStep(a)
  PROVE  DebtInv' /\ Limited
<1>1. CASE \E b \in Batches : CompleteArrive(a, b)
  <2>1. Start(a, "complete", "count", {})
    BY <1>1 DEF CompleteArrive
  <2>2. QED
    BY <2>1, StartStep
<1>2. CASE CompleteCount(a)
  <2> DEFINE k == [job[a] EXCEPT !.pc = "total"]
  <2>1. /\ job[a].op = "complete" /\ job[a].pc = "count" /\ Becomes(a, k)
        /\ UNCHANGED <<ledgerVars, stored, cache, jobs, history>>
    BY <1>2 DEF CompleteCount, At
  <2>2. /\ k \in JobRecords /\ k.op = "complete" /\ k.plan = job[a].plan /\ k.pc = "total"
        /\ k.rep = "none" /\ "total" \in Between
    BY <2>1, JobFacts DEF JobRecords, Between, Placed
  <2> HIDE DEF k
  <2>3. QED
    BY <2>1, <2>2, Generates, JobFacts
<1>3. CASE CompleteTotal(a) \/ CompleteRetry(a)
  <2> DEFINE k == [job[a] EXCEPT !.pc = "count"]
  <2>1. /\ job[a].op = "complete" /\ job[a].pc = "total" /\ (Becomes(a, Idle) \/ Becomes(a, k))
        /\ UNCHANGED <<ledgerVars, stored, cache, jobs, history>>
    BY <1>3 DEF CompleteTotal, CompleteRetry, Leave, At
  <2>2. CASE Becomes(a, Idle)
    BY <2>1, <2>2, IdleOK, Quiet, JobFacts
  <2>3. CASE Becomes(a, k)
    <3>1. /\ k \in JobRecords /\ k.op = "complete" /\ k.plan = job[a].plan /\ k.pc = "count"
          /\ k.rep = "none" /\ "count" \in Between
      BY <2>1, JobFacts DEF JobRecords, Between, Placed
    <3> HIDE DEF k
    <3>2. QED
      BY <2>1, <2>3, <3>1, Generates, JobFacts
  <2>4. QED
    BY <2>1, <2>2, <2>3
<1>4. CASE CompleteFault(a)
  BY <1>4, ExitDebt DEF CompleteFault
<1>5. QED
  BY <1>1, <1>2, <1>3, <1>4 DEF CompleteStep

LEMMA RepairDebt ==
  ASSUME DebtInv, DebtNext
  PROVE  DebtInv' /\ Limited
<1>1. ASSUME NEW a \in Jobs, RepairStart(a) PROVE DebtInv' /\ Limited
  <2>1. CASE \E rs \in SUBSET Reps : Start(a, "sync", "next", rs)
    BY <2>1, StartStep
  <2>2. CASE \E op \in {"correct", "monitor"} : Start(a, op, "next", ActiveReps)
    BY <2>2, StartStep, DebtAssumption
  <2>3. CASE Start(a, "rollback", "find", {}) \/ Start(a, "reconcile", "select", {})
    BY <2>3, StartStep
  <2>4. QED
    BY <1>1, <2>1, <2>2, <2>3 DEF RepairStart
<1>2. ASSUME NEW a \in Jobs, RepairStep(a) PROVE DebtInv' /\ Limited
  BY <1>2, ReadSalesStep, ReadPaidStep, SyncSteps, CorrectLooks, CorrectCompareStep, CorrectEnds,
     WriteSteps, RollbackLooks, RollbackNameStep, RollbackMoves, RollbackDeleteStep, ReconcileLooks, LedgerPaidStep,
     ReconcileMoves DEF RepairStep
<1>3. QED
  BY <1>1, <1>2, ViewStep, AllocateStep DEF DebtNext

LEMMA DebtStart == Init => DebtInv
<1> SUFFICES ASSUME Init PROVE DebtInv
  OBVIOUS
<1>1. /\ live = InitialInvoices /\ alloc = [p \in Invoices \X Reps |-> 0] /\ stored = [r \in Reps |-> Debt(r)]
      /\ cache = Nothing /\ job = [a \in Jobs |-> Idle] /\ jobs = 0
      /\ settled = [r \in Reps |-> "no"] /\ current = {}
  BY DEF Init, DebtInit
<1>2. \A r \in Reps : Debt(r) \in Nat
  <2> TAKE r \in Reps
  <2>1. InvoicesOf(r) \in SUBSET Invoices /\ IsFiniteSet(InvoicesOf(r)) /\ Reps \in SUBSET Reps
    BY <1>1, DebtAssumption, FS_Subset DEF InvoicesOf
  <2>2. Sales(r) \in Nat
    <3>1. \A i \in InvoicesOf(r) : Amount[i] \in Nat
      BY <2>1, DebtAssumption
    <3>2. QED
      BY <2>1, <3>1, SumType DEF Sales
  <2>3. Paid(r) \in Nat
    <3>1. alloc \in [Invoices \X Reps -> Nat]
      BY <1>1
    <3>2. QED
      BY <2>1, <3>1, PairsSum DEF Paid
  <2>4. QED
    BY <2>2, <2>3, Numbers DEF Debt
<1>3. DebtTypes
  BY <1>1, <1>2, PlanTypes, DebtAssumption DEF DebtTypes
<1>4. JobsKnow
  <2>1. Idle \in JobRecords
    BY IdleOK DEF JobOK
  <2>2. QED
    BY <1>1, <2>1, IdleOK DEF JobsKnow
<1>5. QED
  BY <1>1, <1>3, <1>4 DEF DebtInv, Fresh, Repaired

LEMMA DebtStep ==
  ASSUME DebtInv, [Next]_vars
  PROVE  DebtInv' /\ (Limited \/ UNCHANGED debtVars)
<1>1. CASE UNCHANGED debtVars
  <2>1. UNCHANGED ledgerVars
    BY <1>1 DEF debtVars, ledgerVars
  <2>2. SalesOf' = SalesOf /\ DebtOf' = DebtOf /\ LedgerOf' = LedgerOf
    BY <2>1, SameLedger
  <2>3. QED
    BY <1>1, <2>2 DEF debtVars, ledgerVars, history, DebtInv, DebtTypes, JobsKnow, Fresh, Repaired
<1>2. CASE Next
  BY <1>2, RepairDebt, GenerateDebt, CompleteDebt, ExitDebt DEF Next, Repairs
<1>3. QED
  BY <1>1, <1>2 DEF vars

(* What is kept of the debts is well typed, whatever fails.                *)
THEOREM BillingTypes == Spec => []TypeOK
<1>1. ASSUME DebtInv PROVE TypeOK
  <2>1. DebtTypes /\ job \in [Jobs -> JobRecords] /\ \A a \in Jobs : Placed(job[a])
    BY <1>1 DEF DebtInv, JobsKnow, JobOK
  <2>2. \A a \in Jobs : DOMAIN job[a].plan \in SUBSET Reps /\ \A r \in DOMAIN job[a].plan : job[a].plan[r] \in Nat
    BY <2>1, PlanTypes DEF JobRecords
  <2>3. DOMAIN cache \in SUBSET Reps /\ \A r \in DOMAIN cache : cache[r] \in Nat
    BY <2>1, PlanTypes DEF DebtTypes
  <2>4. ASSUME NEW i \in Invoices, NEW s \in Reps
        PROVE  alloc[<<i, s>>] \in 0..Amount[i] /\ (i \notin live => alloc[<<i, s>>] = 0)
    <3>1. alloc[<<i, s>>] \in Nat /\ alloc[<<i, s>>] <= Amount[i] /\ Amount[i] \in Nat
      BY <2>1, DebtAssumption DEF DebtTypes
    <3>2. i \notin live => alloc[<<i, s>>] = 0
      BY <2>1 DEF DebtTypes
    <3>3. QED
      BY <3>1, <3>2
  <2>5. ASSUME NEW a \in Jobs
        PROVE  /\ job[a].todo \subseteq Reps /\ job[a].dirty \subseteq Reps /\ job[a].targets \subseteq Dated
               /\ job[a].rep = "none" <=> job[a].pc \in {"idle", "next", "find", "delete", "restore",
                    "select", "detect", "planned", "adjust", "batch", "create", "count", "total"}
    BY <2>1 DEF JobRecords, Placed, Between
  <2>6. QED
    BY <2>1, <2>2, <2>3, <2>4, <2>5 DEF TypeOK, DebtTypes
<1>2. DebtInv /\ [Next]_vars => DebtInv'
  BY DebtStep
<1>3. QED
  BY <1>1, <1>2, DebtStart, PTL DEF Spec

(* An undisturbed repair leaves the debt right within the tolerance, and   *)
(* it stays right until something touches the representative: whichever of *)
(* the four repairs it was, beside whatever others, and whatever failed.   *)
THEOREM RepairExact == Spec => []DebtAfterRepair
<1>1. DebtInv => DebtAfterRepair
  BY DEF DebtInv, DebtAfterRepair, Repaired, DebtOf, LedgerOf
<1>2. DebtInv /\ [Next]_vars => DebtInv'
  BY DebtStep
<1>3. QED
  BY <1>1, <1>2, DebtStart, PTL DEF Spec

(* A reconciliation moves a debt by no more than the limit, unless the     *)
(* representative was touched since it selected the debts.                 *)
THEOREM AdjustLimited == Spec => AdjustWithinLimit
<1> DEFINE A == \A a \in Jobs, r \in Reps :
       At(a, {"reconcile"}, "adjust") /\ r \notin job[a].dirty /\ job'[a].pc = "cache"
         /\ job'[a].rep = r => Distance(stored[r], stored'[r]) <= MaxAdjust
<1>1. DebtInv /\ [Next]_vars => DebtInv' /\ [A]_debtVars
  BY DebtStep DEF Limited
<1>2. QED
  BY <1>1, DebtStart, PTL DEF Spec, AdjustWithinLimit
-----------------------------------------------------------------------------
(* Batches: what the requests have counted, and what the rows say.         *)
Created(a) == gen[a].count + IF gen[a].round = 1 THEN 1 ELSE 0

BatchTypes ==
  /\ live \subseteq used /\ used \subseteq Invoices
  /\ batchOf \in [Invoices -> Batches \cup {"none"}]
  /\ batch \in [Batches -> [status : {"none", "processing", "completed"}, total : Nat]]
  /\ \A b \in Batches : batch[b].status = "none" => batch[b] = NoBatch
  /\ gen \in [Jobs -> [batch : Batches \cup {"none"}, count : Nat, round : 0..2]]

\* Where a request is, and what it has of a batch.
Working(j, g) ==
  /\ j.op \notin {"generate", "complete"} => g = NoGen
  /\ j.op = "generate" =>
       /\ j.pc \in {"batch", "create", "update", "sales", "paid", "write", "after"}
       /\ j.pc = "batch" => g = NoGen
       /\ j.pc \in {"batch", "create"} <=> g.round = 0
  /\ j.op = "complete" => j.pc \in {"count", "total"} /\ g.batch \in Batches

\* A request counts the invoices of its batch; it is alone if nobody doubts it.
Counting(a, b) ==
  gen[a].batch = b =>
    /\ batch[b] # NoBatch
    /\ job[a].op = "generate" =>
         /\ Created(a) <= Cardinality(Issued(b))
         /\ b \notin doubtful => batch[b].status = "processing" /\ Created(a) = Cardinality(Issued(b))
    /\ job[a].op = "complete" =>
         /\ b \notin doubtful => batch[b].status = "completed"
         /\ job[a].pc = "total" =>
              /\ gen[a].count <= Cardinality(Issued(b))
              /\ b \notin doubtful => gen[a].count = Cardinality(Issued(b) \cap live)
    /\ b \notin doubtful => \A c \in Jobs : gen[c].batch = b => c = a

Grouping(b) ==
  /\ batch[b] = NoBatch => Issued(b) = {}
  /\ b \notin doubtful => Issued(b) \subseteq live
  /\ batch[b].status = "processing" => Generating(b) \/ b \in lost
  /\ b \in lost => b \in doubtful
  /\ batch[b].total <= Cardinality(Issued(b))
  /\ batch[b].status = "completed" /\ b \notin doubtful =>
       batch[b].total = Cardinality(Issued(b) \cap live)

BatchInv ==
  /\ BatchTypes /\ \A a \in Jobs : Working(job[a], gen[a])
  /\ \A b \in Batches : Grouping(b) /\ \A a \in Jobs : Counting(a, b)

\* The places of the requests that make and complete batches.
Onward(j, k) ==
  \/ k.op = j.op /\ k.pc = j.pc
  \/ k.op = "complete" /\ j.op = "complete" /\ k.pc = "count"
  \/ k.op = "generate" /\ j.op = "generate"
     /\ {j.pc, k.pc} \subseteq {"update", "sales", "paid", "write", "after"}
  \/ k.op = "generate" /\ j.op = "generate" /\ j.pc = "batch" /\ k.pc = "create"
  \/ j.op \notin {"generate", "complete"} /\ k.op \notin {"generate", "complete"}
  \/ j.op \notin {"generate", "complete"} /\ k.op = "generate" /\ k.pc = "batch"

(* A batch whose row and invoices stay as they are, and whose requests     *)
(* have counted no more.                                                   *)
SameBatch(b) ==
  /\ batch'[b] = batch[b] /\ Issued(b)' = Issued(b) /\ doubtful \subseteq doubtful'
  /\ b \in lost' <=> b \in lost
  /\ b \notin doubtful' => Issued(b) \cap live' = Issued(b) \cap live
  /\ Workers(b)' = Workers(b)
  /\ \A c \in Workers(b) :
       /\ job'[c].op = job[c].op
       /\ job[c].op = "generate" =>
            Created(c)' <= Created(c) /\ (b \notin doubtful' => Created(c)' = Created(c))
       /\ job[c].op = "complete" => job'[c].pc \in {"count", job[c].pc} /\ gen'[c] = gen[c]

LEMMA BatchFacts ==
  ASSUME BatchTypes
  PROVE  /\ \A b : Issued(b) \subseteq Invoices /\ IsFiniteSet(Issued(b)) /\ Cardinality(Issued(b)) \in Nat
         /\ \A b : IsFiniteSet(Issued(b) \cap live) /\ Cardinality(Issued(b) \cap live) \in Nat
         /\ \A a \in Jobs : Created(a) \in Nat /\ gen[a].count \in Nat
         /\ \A b \in Batches : batch[b].total \in Nat
<1>1. \A b : Issued(b) \subseteq Invoices /\ Issued(b) \cap live \subseteq Invoices
  BY DEF Issued, BatchTypes
<1>2. \A b : IsFiniteSet(Issued(b)) /\ IsFiniteSet(Issued(b) \cap live)
  BY <1>1, DebtAssumption, FS_Subset
<1>3. \A b : Cardinality(Issued(b)) \in Nat /\ Cardinality(Issued(b) \cap live) \in Nat
  BY <1>2, FS_CardinalityType, Zenon
<1>4. \A a \in Jobs : Created(a) \in Nat /\ gen[a].count \in Nat
  BY DEF BatchTypes, Created
<1>5. \A b \in Batches : batch[b].total \in Nat
  BY DEF BatchTypes
<1>6. QED
  BY <1>1, <1>2, <1>3, <1>4, <1>5

LEMMA SameStays ==
  ASSUME BatchInv, BatchTypes', NEW b \in Batches, SameBatch(b)
  PROVE  Grouping(b)' /\ \A a \in Jobs : Counting(a, b)'
<1>1. Grouping(b) /\ \A a \in Jobs : Counting(a, b)
  BY DEF BatchInv
<1>2. /\ \A a \in Jobs : Created(a) \in Nat /\ Created(a)' \in Nat
      /\ Cardinality(Issued(b)) \in Nat /\ Cardinality(Issued(b))' \in Nat
  <2>1. \A a \in Jobs : Created(a) \in Nat
    BY BatchFacts DEF BatchInv
  <2>2. \A a \in Jobs : Created(a)' \in Nat
    BY DEF BatchTypes, Created
  <2>3. QED
    BY <2>1, <2>2, BatchFacts DEF BatchInv, SameBatch
<1>3. Grouping(b)'
  <2>1. Generating(b) => Generating(b)'
    BY DEF Generating, SameBatch
  <2>2. QED
    BY <1>1, <2>1 DEF Grouping, SameBatch
<1>4. ASSUME NEW a \in Jobs PROVE Counting(a, b)'
  <2> SUFFICES ASSUME gen'[a].batch = b PROVE Counting(a, b)'
    BY DEF Counting
  <2>1. a \in Workers(b) /\ gen[a].batch = b
    BY DEF SameBatch, Workers
  <2>2. \A c \in Jobs : gen'[c].batch = b <=> gen[c].batch = b
    BY DEF SameBatch, Workers
  <2>3. Counting(a, b)
    BY <1>1
  <2>4. job'[a].op = "generate" =>
          /\ Created(a)' <= Cardinality(Issued(b))'
          /\ b \notin doubtful' => batch'[b].status = "processing" /\ Created(a)' = Cardinality(Issued(b))'
    BY <1>2, <2>1, <2>3 DEF Counting, SameBatch
  <2>5. QED
    BY <2>1, <2>2, <2>3, <2>4 DEF Counting, SameBatch
<1>5. QED
  BY <1>3, <1>4

\* Nothing of the batches changes, but for invoices that are deleted.
LEMMA Still ==
  ASSUME BatchInv, UNCHANGED <<used, batchOf, batch, gen, lost>>, live' \subseteq live,
         \A b \in Batches : b \in doubtful' <=> b \in doubtful \/ \E i \in live \ live' : batchOf[i] = b,
         doubtful \subseteq doubtful',
         \A a \in Jobs : Onward(job[a], job'[a])
  PROVE  BatchInv'
<1>1. BatchTypes /\ BatchTypes'
  BY DEF BatchInv, BatchTypes
<1>2. ASSUME NEW a \in Jobs PROVE Working(job'[a], gen'[a])
  BY DEF BatchInv, Working, Onward, NoGen
<1>3. ASSUME NEW b \in Batches PROVE SameBatch(b)
  <2>1. Issued(b)' = Issued(b) /\ Workers(b)' = Workers(b)
    BY DEF Issued, Workers
  <2>2. b \notin doubtful' => Issued(b) \cap live' = Issued(b) \cap live
    BY DEF Issued
  <2>3. \A c \in Jobs : Created(c)' = Created(c) /\ Created(c) \in Nat
    BY <1>1, BatchFacts DEF Created
  <2>4. ASSUME NEW c \in Workers(b)
        PROVE  /\ job'[c].op = job[c].op
               /\ job[c].op = "complete" => job'[c].pc \in {"count", job[c].pc} /\ gen'[c] = gen[c]
    <3>1. c \in Jobs /\ gen[c].batch = b /\ gen[c] # NoGen
      BY BatchAssumption DEF Workers, NoGen
    <3>2. job[c].op \in {"generate", "complete"}
      BY <3>1 DEF BatchInv, Working
    <3>3. QED
      BY <3>1, <3>2 DEF Onward
  <2>5. QED
    BY <2>1, <2>2, <2>3, <2>4 DEF SameBatch, Workers
<1>4. QED
  BY <1>1, <1>2, <1>3, SameStays DEF BatchInv

(* The repairs leave the places of the others alone.                       *)
LEMMA Others ==
  ASSUME job \in [Jobs -> JobRecords], NEW a, NEW k,
         (a \in Jobs /\ Becomes(a, k)) \/ \E rs : job' = Disturbing(a, k, rs),
         a \in Jobs => Onward(job[a], k)
  PROVE  \A b \in Jobs : Onward(job[b], job'[b])
<1>1. ASSUME NEW b \in Jobs, b # a PROVE job'[b].op = job[b].op /\ job'[b].pc = job[b].pc
  BY <1>1 DEF Becomes, Disturbing, JobRecords
<1>2. a \in Jobs => job'[a] = k
  BY DEF Becomes, Disturbing
<1>3. QED
  BY <1>1, <1>2 DEF Onward

LEMMA CalculatedOp ==
  ASSUME NEW x \in JobRecords, NEW v
  PROVE  /\ Calculated(x, v).op \in {x.op, "none"}
         /\ x.op \in {"sync", "generate"} => Calculated(x, v).op = x.op /\ Calculated(x, v).pc = "write"
<1>1. CASE x.op = "view"
  BY <1>1 DEF Calculated, Idle
<1>2. CASE x.op # "view" /\ x.op = "rollback" /\ x.targets # {}
  BY <1>2 DEF Calculated, Next1, JobRecords
<1>3. CASE x.op \in {"sync", "generate"}
  BY <1>3 DEF Calculated, JobRecords
<1>4. CASE x.op \notin {"view", "sync", "generate"} /\ ~(x.op = "rollback" /\ x.targets # {})
  BY <1>4 DEF Calculated, JobRecords
<1>5. QED
  BY <1>1, <1>2, <1>3, <1>4

\* A repair that is at work leaves job[a] as something of the same kind.
LEMMA Repairing ==
  ASSUME job \in [Jobs -> JobRecords], NEW a \in Jobs, NEW k,
         Becomes(a, k) \/ \E rs : job' = Disturbing(a, k, rs),
         job[a].op \notin {"generate", "complete"}, k.op \notin {"generate", "complete"}
  PROVE  \A b \in Jobs : Onward(job[b], job'[b])
<1>1. Onward(job[a], k)
  BY DEF Onward
<1>2. QED
  BY <1>1, Others

LEMMA RepairPlaces ==
  ASSUME job \in [Jobs -> JobRecords], \A a \in Jobs : Working(job[a], gen[a]), DebtNext
  PROVE  (\A b \in Jobs : Onward(job[b], job'[b])) /\ live' \subseteq live
<1> DEFINE Goal == \A b \in Jobs : Onward(job[b], job'[b])
           Own == {"none", "view", "sync", "correct", "monitor", "rollback", "reconcile"}
<1>1. ASSUME NEW a \in Jobs, NEW op \in Own, NEW pc, NEW rs, Start(a, op, pc, rs)
      PROVE  Goal
  <2>1. Becomes(a, [Idle EXCEPT !.op = op, !.pc = pc, !.todo = rs]) /\ job[a] = Idle
    BY <1>1 DEF Start
  <2>2. [Idle EXCEPT !.op = op, !.pc = pc, !.todo = rs].op = op /\ Idle.op = "none"
    BY DEF Idle
  <2>3. QED
    BY <1>1, <2>1, <2>2, Repairing
<1>2. ASSUME NEW a \in Jobs, NEW r, View(a, r) PROVE Goal
  <2>1. Becomes(a, [Idle EXCEPT !.op = "view", !.rep = r, !.pc = "sales"]) /\ job[a] = Idle
    BY <1>2 DEF View
  <2>2. [Idle EXCEPT !.op = "view", !.rep = r, !.pc = "sales"].op = "view" /\ Idle.op = "none"
    BY DEF Idle
  <2>3. QED
    BY <2>1, <2>2, Repairing
<1>3. ASSUME NEW i \in Invoices, NEW s \in Reps, Allocate(i, s) PROVE Goal
  <2>1. job' = Disturbing("env", Idle, {RepOf[i], s}) /\ "env" \notin Jobs
    BY <1>3, DebtAssumption DEF Allocate
  <2>2. QED
    BY <2>1, Others
<1>4. ASSUME NEW a \in Jobs, ReadSales(a) PROVE Goal
  <2>1. /\ job[a].pc = "sales" /\ job[a] \in JobRecords /\ Working(job[a], gen[a])
        /\ Becomes(a, [job[a] EXCEPT !.seen = Sales(job[a].rep), !.pc = "paid"])
    BY <1>4 DEF ReadSales
  <2>2. Onward(job[a], [job[a] EXCEPT !.seen = Sales(job[a].rep), !.pc = "paid"])
    BY <2>1 DEF Onward, Working, JobRecords
  <2>3. QED
    BY <2>1, <2>2, Others
<1>5. ASSUME NEW a \in Jobs, ReadPaid(a) PROVE Goal
  <2> DEFINE v == NonNegative(job[a].seen - Paid(job[a].rep))
             k == Calculated(job[a], v)
  <2>1. /\ job[a].pc = "paid" /\ job[a] \in JobRecords /\ Working(job[a], gen[a])
        /\ \E rs : job' = Disturbing(a, k, rs)
    BY <1>5 DEF ReadPaid
  <2>2. k.op \in {job[a].op, "none"} /\ (job[a].op = "generate" => k.op = "generate" /\ k.pc = "write")
    BY <2>1, CalculatedOp
  <2> HIDE DEF k
  <2>3. Onward(job[a], k)
    BY <2>1, <2>2 DEF Onward, Working
  <2>4. QED
    BY <2>1, <2>3, Others
<1>6. ASSUME NEW a \in Jobs, SyncWrite(a) PROVE Goal
  <2> DEFINE k == [job[a] EXCEPT !.pc = "after"]
  <2>1. /\ job[a].op \in {"sync", "generate"} /\ job[a].pc = "write" /\ job[a] \in JobRecords
        /\ \E rs : job' = Disturbing(a, k, rs)
    BY <1>6 DEF SyncWrite, At, WriteDebt
  <2>2. k.op = job[a].op /\ k.pc = "after"
    BY <2>1 DEF JobRecords
  <2> HIDE DEF k
  <2>3. Onward(job[a], k)
    BY <2>1, <2>2 DEF Onward
  <2>4. QED
    BY <2>1, <2>3, Others
<1>7. ASSUME NEW a \in Jobs, job[a].op \in Own, NEW k, k.op \in Own, Becomes(a, k) PROVE Goal
  BY <1>7, Repairing
<1>8. ASSUME NEW a \in Jobs, job[a].op \in Own, NEW k, k.op \in Own, NEW rs, job' = Disturbing(a, k, rs)
      PROVE  Goal
  BY <1>8, Repairing
<1> HIDE DEF Goal
<1>9. ASSUME NEW a \in Jobs, SyncBegin(a) \/ SyncEnd(a) \/ SyncFault(a) \/ SyncFinish(a) PROVE Goal
  <2>1. job[a].op = "sync" /\ job[a] \in JobRecords
    BY <1>9 DEF SyncBegin, SyncEnd, SyncFault, SyncFinish, At
  <2>2. CASE SyncBegin(a)
    <3> DEFINE m(r) == [Clean(job[a], r) EXCEPT !.todo = @ \ {r}, !.pc = "sales"]
    <3>1. PICK r : Becomes(a, m(r))
      BY <2>2 DEF SyncBegin
    <3>2. m(r).op = "sync"
      BY <2>1 DEF Clean, JobRecords
    <3> HIDE DEF m
    <3>3. QED
      BY <1>7, <2>1, <3>1, <3>2
  <2>3. CASE SyncEnd(a) \/ SyncFault(a) \/ SyncFinish(a)
    <3>1. Becomes(a, Next1(job[a])) \/ Becomes(a, Idle)
      BY <2>3 DEF SyncEnd, SyncFault, SyncFinish
    <3>2. Next1(job[a]).op = "sync" /\ Idle.op = "none"
      BY <2>1 DEF Next1, JobRecords, Idle
    <3>3. QED
      BY <1>7, <2>1, <3>1, <3>2
  <2>4. QED
    BY <1>9, <2>2, <2>3
<1>10. ASSUME NEW a \in Jobs,
              CorrectHit(a) \/ CorrectMiss(a) \/ CorrectCompare(a) \/ CorrectWrite(a) \/ CorrectFault(a)
                \/ CorrectFinish(a) \/ MonitorAgain(a)
       PROVE  Goal
  <2>1. job[a].op \in {"correct", "monitor", "rollback"} /\ job[a] \in JobRecords
    BY <1>10 DEF CorrectHit, CorrectMiss, CorrectCompare, CorrectWrite, CorrectFault, CorrectFinish,
       MonitorAgain, At, Correcting
  <2>2. CASE CorrectHit(a)
    <3> DEFINE X(r) == IF r \in DOMAIN job[a].plan THEN [job[a] EXCEPT !.rep = r] ELSE Clean(job[a], r)
               J(r) == [X(r) EXCEPT !.todo = @ \ {r}, !.val = cache[r], !.pc = "compare",
                                    !.dirty = IF r \in DOMAIN job[a].plan \/ r \in current
                                              THEN @ ELSE @ \cup {r}]
    <3>1. PICK r \in job[a].todo \cap DOMAIN cache : Becomes(a, J(r))
      BY <2>2 DEF CorrectHit
    <3>2. J(r).op = job[a].op
      BY <2>1 DEF Clean, JobRecords
    <3> HIDE DEF J
    <3>3. QED
      BY <1>7, <2>1, <3>1, <3>2
  <2>3. CASE CorrectMiss(a)
    <3> DEFINE m(r) == [Clean(job[a], r) EXCEPT !.todo = @ \ {r}, !.pc = "sales"]
    <3>1. PICK r : Becomes(a, m(r))
      BY <2>3 DEF CorrectMiss
    <3>2. m(r).op = job[a].op
      BY <2>1 DEF Clean, JobRecords
    <3> HIDE DEF m
    <3>3. QED
      BY <1>7, <2>1, <3>1, <3>2
  <2>4. CASE CorrectCompare(a) \/ CorrectFault(a) \/ CorrectFinish(a) \/ MonitorAgain(a)
    <3> DEFINE w == [job[a] EXCEPT !.pc = "write", !.fixed = @ \/ job[a].op = "monitor"]
               c == [Idle EXCEPT !.op = "correct", !.pc = "next", !.todo = ActiveReps]
    <3>1. Becomes(a, Next1(job[a])) \/ Becomes(a, Idle) \/ Becomes(a, w) \/ Becomes(a, c)
      BY <2>4 DEF CorrectCompare, CorrectFault, CorrectFinish, MonitorAgain
    <3>2. Next1(job[a]).op = job[a].op /\ Idle.op = "none" /\ w.op = job[a].op /\ c.op = "correct"
      BY <2>1 DEF Next1, JobRecords, Idle
    <3> HIDE DEF w, c
    <3>3. QED
      BY <1>7, <2>1, <3>1, <3>2
  <2>5. CASE CorrectWrite(a)
    <3> DEFINE w == Next1([job[a] EXCEPT !.fixed = TRUE])
    <3>1. \E rs : job' = Disturbing(a, w, rs)
      BY <2>5 DEF CorrectWrite, WriteDebt
    <3>2. w.op = job[a].op
      BY <2>1 DEF Next1, JobRecords
    <3> HIDE DEF w
    <3>3. QED
      BY <1>8, <2>1, <3>1, <3>2
  <2>6. QED
    BY <1>10, <2>2, <2>3, <2>4, <2>5
<1>11. ASSUME NEW a \in Jobs,
              RollbackFind(a) \/ RollbackHit(a) \/ RollbackMiss(a) \/ RollbackName(a) \/ RollbackFault(a)
                \/ RollbackProjected(a) \/ RollbackDelete(a) \/ RollbackInvalidate(a) \/ RollbackWrite(a)
                \/ RollbackCorrect(a)
       PROVE  Goal
  <2>1. job[a].op = "rollback" /\ job[a] \in JobRecords
    BY <1>11 DEF RollbackFind, RollbackHit, RollbackMiss, RollbackName, RollbackFault, RollbackProjected,
       RollbackDelete, RollbackInvalidate, RollbackWrite, RollbackCorrect, At, Projecting
  <2>2. CASE RollbackHit(a)
    <3> DEFINE X(r) == [job[a] EXCEPT !.rep = r, !.todo = @ \ {r}]
    <3>1. PICK r \in job[a].todo : Becomes(a, Calculated(X(r), cache[r]))
      BY <2>2 DEF RollbackHit
    <3>2. X(r) \in JobRecords /\ X(r).op = "rollback"
      BY <2>1 DEF JobRecords
    <3> HIDE DEF X
    <3>3. Calculated(X(r), cache[r]).op \in {"rollback", "none"}
      BY <3>2, CalculatedOp
    <3>4. QED
      BY <1>7, <2>1, <3>1, <3>3
  <2>n. CASE RollbackName(a)
    <3>1. PICK p : Becomes(a, Next1([job[a] EXCEPT !.plan = p]))
      BY <2>n DEF RollbackName
    <3>2. Next1([job[a] EXCEPT !.plan = p]).op = "rollback"
      BY <2>1 DEF Next1, JobRecords
    <3>3. QED
      BY <1>7, <2>1, <3>1, <3>2
  <2>3. CASE RollbackDelete(a)
    <3> DEFINE J(i) == IF job[a].targets \ {i} # {} THEN [job[a] EXCEPT !.targets = job[a].targets \ {i}]
                       ELSE [job[a] EXCEPT !.targets = {}, !.todo = DOMAIN job[a].plan, !.pc = "restore"]
    <3>1. PICK i : Becomes(a, J(i)) \/ \E rs : job' = Disturbing(a, J(i), rs)
      BY <2>3 DEF RollbackDelete
    <3>2. J(i).op = "rollback"
      BY <2>1 DEF JobRecords
    <3> HIDE DEF J
    <3>3. QED
      BY <1>7, <1>8, <2>1, <3>1, <3>2
  <2>4. CASE RollbackWrite(a)
    <3> DEFINE w == [job[a] EXCEPT !.pc = "restore", !.rep = "none"]
    <3>1. Becomes(a, w) \/ \E rs : job' = Disturbing(a, w, rs)
      BY <2>4 DEF RollbackWrite, WriteDebt
    <3>2. w.op = "rollback"
      BY <2>1 DEF JobRecords
    <3> HIDE DEF w
    <3>3. QED
      BY <1>7, <1>8, <2>1, <3>1, <3>2
  <2>5. CASE RollbackFind(a) \/ RollbackFault(a) \/ RollbackProjected(a) \/ RollbackCorrect(a)
    <3> DEFINE f == [job[a] EXCEPT !.targets = live \cap Dated, !.todo = {RepOf[i] : i \in live \cap Dated},
                                   !.pc = "next"]
               d == [job[a] EXCEPT !.pc = "delete"]
               c == [job[a] EXCEPT !.pc = "next", !.todo = ActiveReps]
    <3>1. Becomes(a, Idle) \/ Becomes(a, f) \/ Becomes(a, d) \/ Becomes(a, c) \/ Becomes(a, Next1(job[a]))
      BY <2>5 DEF RollbackFind, RollbackFault, RollbackProjected, RollbackCorrect
    <3>2. /\ Idle.op = "none" /\ f.op = "rollback" /\ d.op = "rollback" /\ c.op = "rollback"
          /\ Next1(job[a]).op = "rollback"
      BY <2>1 DEF JobRecords, Next1, Idle
    <3> HIDE DEF f, d, c
    <3>3. QED
      BY <1>7, <2>1, <3>1, <3>2
  <2>6. CASE RollbackMiss(a) \/ RollbackInvalidate(a)
    <3> DEFINE m(r) == [job[a] EXCEPT !.rep = r, !.todo = @ \ {r}, !.pc = "sales"]
               n(r) == [Clean(job[a], r) EXCEPT !.todo = @ \ {r}, !.pc = "project"]
    <3>1. PICK r : Becomes(a, m(r)) \/ Becomes(a, n(r))
      BY <2>6 DEF RollbackMiss, RollbackInvalidate
    <3>2. m(r).op = "rollback" /\ n(r).op = "rollback"
      BY <2>1 DEF JobRecords, Clean
    <3> HIDE DEF m, n
    <3>3. QED
      BY <1>7, <2>1, <3>1, <3>2
  <2>7. QED
    BY <1>11, <2>2, <2>n, <2>3, <2>4, <2>5, <2>6
<1>12. ASSUME NEW a \in Jobs,
              ReconcileSelect(a) \/ LedgerSales(a) \/ LedgerPaid(a) \/ ReconcilePlanned(a)
                \/ ReconcileAdjust(a) \/ ReconcileCache(a) \/ ReconcileFault(a)
       PROVE  Goal
  <2>1. job[a].op = "reconcile" /\ job[a] \in JobRecords
    BY <1>12 DEF ReconcileSelect, LedgerSales, LedgerPaid, ReconcilePlanned, ReconcileAdjust,
       ReconcileCache, ReconcileFault, At
  <2>2. CASE ReconcileSelect(a) \/ LedgerSales(a)
    <3> DEFINE f == [job[a] EXCEPT !.plan = Restrict(stored, ActiveReps), !.todo = ActiveReps,
                                   !.dirty = {}, !.pc = "detect"]
               m(r) == [job[a] EXCEPT !.rep = r, !.seen = Sales(r), !.pc = "ledger"]
    <3>1. Becomes(a, f) \/ \E r : Becomes(a, m(r))
      BY <2>2 DEF ReconcileSelect, LedgerSales
    <3>2. f.op = "reconcile" /\ \A r : m(r).op = "reconcile"
      BY <2>1 DEF JobRecords
    <3> HIDE DEF f, m
    <3>3. QED
      BY <1>7, <2>1, <3>1, <3>2
  <2>3. CASE LedgerPaid(a)
    <3> DEFINE r == job[a].rep
               debt == NonNegative(job[a].seen - PaidFrom(r))
               left == job[a].todo \ {r}
               p == IF Adjusts(job[a].plan[r], debt) THEN With(job[a].plan, r, debt)
                    ELSE Without(job[a].plan, {r})
               q == IF left = {} THEN "planned" ELSE "detect"
               k == [job[a] EXCEPT !.todo = left, !.rep = "none", !.seen = 0, !.plan = p, !.pc = q]
    <3>1. Becomes(a, k)
      BY <2>3 DEF LedgerPaid
    <3> HIDE DEF p, q, left
    <3>2. k.op = "reconcile"
      BY <2>1 DEF JobRecords
    <3> HIDE DEF k
    <3>3. QED
      BY <1>7, <2>1, <3>1, <3>2
  <2>4. CASE ReconcilePlanned(a) \/ ReconcileCache(a) \/ ReconcileFault(a)
    <3> DEFINE f == [job[a] EXCEPT !.todo = DOMAIN job[a].plan, !.pc = "adjust"]
               d == [job[a] EXCEPT !.rep = "none", !.pc = "adjust"]
               m(r) == [job[a] EXCEPT !.todo = @ \ {r}, !.rep = r, !.pc = "cache"]
    <3>1. Becomes(a, Idle) \/ Becomes(a, f) \/ Becomes(a, d) \/ \E r : Becomes(a, m(r))
      BY <2>4 DEF ReconcilePlanned, ReconcileCache, ReconcileFault
    <3>2. Idle.op = "none" /\ f.op = "reconcile" /\ d.op = "reconcile" /\ \A r : m(r).op = "reconcile"
      BY <2>1 DEF JobRecords, Idle
    <3> HIDE DEF f, d, m
    <3>3. QED
      BY <1>7, <2>1, <3>1, <3>2
  <2>5. CASE ReconcileAdjust(a)
    <3> DEFINE m(r) == [job[a] EXCEPT !.todo = @ \ {r}, !.rep = r, !.pc = "cache"]
    <3>1. \E r : job' = Disturbing(a, m(r), {r})
      BY <2>5 DEF ReconcileAdjust
    <3>2. \A r : m(r).op = "reconcile"
      BY <2>1 DEF JobRecords
    <3> HIDE DEF m
    <3>3. QED
      BY <1>8, <2>1, <3>1, <3>2
  <2>6. QED
    BY <1>12, <2>2, <2>3, <2>4, <2>5
<1>13. Goal
  <2>1. ASSUME NEW a \in Jobs, RepairStart(a) PROVE Goal
    BY <1>1, <2>1 DEF RepairStart
  <2>2. ASSUME NEW a \in Jobs, RepairStep(a) PROVE Goal
    BY <1>4, <1>5, <1>6, <1>9, <1>10, <1>11, <1>12, <2>2 DEF RepairStep
  <2>3. QED
    BY <1>2, <1>3, <2>1, <2>2 DEF DebtNext
<1>14. live' \subseteq live
  <2>1. ASSUME NEW a \in Jobs, RepairStart(a) \/ \E r \in Reps : View(a, r) PROVE live' = live
    BY <2>1 DEF RepairStart, Start, View, ledgerVars
  <2>2. ASSUME NEW i \in Invoices, NEW s \in Reps, Allocate(i, s) PROVE live' = live
    BY <2>2 DEF Allocate
  <2>3. ASSUME NEW a \in Jobs, RepairStep(a), ~RollbackDelete(a) PROVE live' = live
    BY <2>3 DEF RepairStep, ReadSales, ReadPaid, SyncBegin, SyncWrite, SyncEnd, SyncFault, SyncFinish,
       CorrectHit, CorrectMiss, CorrectCompare, CorrectWrite, CorrectFault, CorrectFinish, MonitorAgain,
       RollbackFind, RollbackHit, RollbackMiss, RollbackName, RollbackFault, RollbackProjected, RollbackInvalidate,
       RollbackWrite, RollbackCorrect, ReconcileSelect, LedgerSales, LedgerPaid, ReconcilePlanned,
       ReconcileAdjust, ReconcileCache, ReconcileFault, ledgerVars
  <2>4. ASSUME NEW a \in Jobs, RollbackDelete(a) PROVE live' \subseteq live
    BY <2>4 DEF RollbackDelete, ledgerVars
  <2>5. QED
    BY <2>1, <2>2, <2>3, <2>4 DEF DebtNext
<1>15. QED
  BY <1>13, <1>14 DEF Goal

LEMMA RepairBatch ==
  ASSUME BatchInv, DebtInv, Repairs
  PROVE  BatchInv'
<1>1. \A a \in Jobs : Onward(job[a], job'[a])
  BY RepairPlaces DEF BatchInv, DebtInv, JobsKnow, Repairs
<1>2. live' \subseteq live
  BY RepairPlaces DEF BatchInv, DebtInv, JobsKnow, Repairs
<1>3. /\ UNCHANGED <<used, batchOf, batch, gen, lost>> /\ doubtful \subseteq doubtful'
      /\ \A b \in Batches : b \in doubtful' <=> b \in doubtful \/ \E i \in live \ live' : batchOf[i] = b
  BY DEF Repairs
<1>4. QED
  BY <1>1, <1>2, <1>3, Still

\* Of the batches, at most b is written, and that so that it can be left.
OnlyRow(b) ==
  \A c \in Batches : c # b => /\ batch'[c] = batch[c] /\ (c \in doubtful' => c \in doubtful)
                              /\ (c \in lost' <=> c \in lost)
RowLeft(a, b) ==
  b \in Batches =>
    /\ batch'[b] # NoBatch /\ batch'[b].total <= Cardinality(Issued(b))
    /\ batch'[b].status = "processing" => b \in lost'
    /\ b \in lost' => b \in doubtful'
    /\ b \notin doubtful' =>
         /\ batch'[b].status = "completed" => batch'[b].total = Cardinality(Issued(b) \cap live)
         /\ \A c \in Jobs : gen[c].batch = b => c = a

\* A request leaves, having written no more than the row of its batch.
LEMMA Left ==
  ASSUME BatchInv, BatchTypes', job \in [Jobs -> JobRecords], NEW a \in Jobs, Leave(a),
         NEW b, gen[a].batch \in {b, "none"},
         UNCHANGED <<live, used, batchOf>>, doubtful \subseteq doubtful',
         OnlyRow(b), RowLeft(a, b)
  PROVE  BatchInv'
<1>1. /\ BatchTypes /\ \A c \in Jobs : Working(job[c], gen[c])
      /\ \A c \in Batches : Grouping(c) /\ \A d \in Jobs : Counting(d, c)
  BY DEF BatchInv
<1>2. /\ gen'[a] = NoGen /\ job'[a] = Idle
      /\ \A c \in Jobs : c # a => gen'[c] = gen[c] /\ job'[c] = job[c]
  BY <1>1 DEF Leave, Becomes, BatchTypes
<1>3. \A c \in Jobs : Working(job'[c], gen'[c])
  BY <1>1, <1>2 DEF Working, Idle
<1>4. \A c \in Batches : Issued(c)' = Issued(c)
  BY DEF Issued
<1>5. ASSUME NEW c \in Batches, c # b PROVE SameBatch(c)
  <2>1. gen[a].batch # c /\ gen'[a].batch # c
    BY <1>2, <1>5, BatchAssumption DEF NoGen
  <2>2. \A d \in Jobs : gen'[d].batch = c <=> gen[d].batch = c
    BY <1>2, <2>1
  <2>3. Workers(c)' = Workers(c)
    BY <2>2 DEF Workers
  <2>4. \A d \in Workers(c) : d # a /\ d \in Jobs
    BY <2>1 DEF Workers
  <2>5. \A d \in Jobs : d # a => Created(d)' = Created(d) /\ Created(d) \in Nat
    BY <1>1, <1>2, BatchFacts DEF Created
  <2>6. QED
    BY <1>2, <1>4, <1>5, <2>3, <2>4, <2>5 DEF SameBatch, OnlyRow
<1>6. ASSUME b \in Batches PROVE Grouping(b)' /\ \A d \in Jobs : Counting(d, b)'
  <2>1. Grouping(b)'
    BY <1>1, <1>4, <1>6 DEF Grouping, RowLeft
  <2>2. ASSUME NEW d \in Jobs, gen'[d].batch = b PROVE Counting(d, b)'
    <3>1. d # a /\ gen'[d] = gen[d] /\ job'[d] = job[d] /\ gen[d].batch = b
      BY <1>2, <1>6, <2>2, BatchAssumption DEF NoGen
    <3>2. b \in doubtful'
      BY <1>6, <3>1 DEF RowLeft
    <3>3. Counting(d, b) /\ Created(d)' = Created(d)
      BY <1>1, <1>6, <3>1 DEF Created
    <3>4. QED
      BY <1>4, <1>6, <3>1, <3>2, <3>3 DEF Counting, RowLeft
  <2>3. QED
    BY <2>1, <2>2 DEF Counting
<1>7. QED
  BY <1>3, <1>5, <1>6, SameStays DEF BatchInv

\* A request changes what it knows of its batch; the invoices stay as they are.
LEMMA Works ==
  ASSUME BatchInv, BatchTypes', job \in [Jobs -> JobRecords], NEW a \in Jobs, NEW k, NEW g,
         Becomes(a, k), gen' = [gen EXCEPT ![a] = g],
         Working(k, g), k.op = job[a].op, job[a].op = "generate", g.batch = gen[a].batch,
         UNCHANGED <<live, used, batchOf, batch, lost>>, doubtful \subseteq doubtful',
         \A c \in Batches : c # g.batch /\ c \in doubtful' => c \in doubtful,
         Created(a)' <= Created(a),
         g.batch \in Batches /\ g.batch \notin doubtful' => Created(a)' = Created(a)
  PROVE  BatchInv'
<1>1. BatchTypes /\ \A c \in Jobs : Working(job[c], gen[c])
  BY DEF BatchInv
<1>2. /\ gen'[a] = g /\ job'[a] = k
      /\ \A c \in Jobs : c # a => gen'[c] = gen[c] /\ job'[c] = job[c]
  BY <1>1 DEF Becomes, BatchTypes
<1>3. \A c \in Jobs : Working(job'[c], gen'[c])
  BY <1>1, <1>2
<1>4. ASSUME NEW b \in Batches PROVE SameBatch(b)
  <2>1. Issued(b)' = Issued(b) /\ batch'[b] = batch[b] /\ Issued(b) \cap live' = Issued(b) \cap live
    BY DEF Issued
  <2>2. \A d \in Jobs : gen'[d].batch = gen[d].batch
    BY <1>2
  <2>3. Workers(b)' = Workers(b)
    BY <2>2 DEF Workers
  <2>4. \A d \in Jobs : d # a => Created(d)' = Created(d) /\ Created(d) \in Nat
    BY <1>1, <1>2, BatchFacts DEF Created
  <2>5. ASSUME NEW d \in Workers(b)
        PROVE  /\ job'[d].op = job[d].op
               /\ job[d].op = "generate" =>
                    Created(d)' <= Created(d) /\ (b \notin doubtful' => Created(d)' = Created(d))
               /\ job[d].op = "complete" => job'[d].pc \in {"count", job[d].pc} /\ gen'[d] = gen[d]
    <3>1. d \in Jobs /\ gen[d].batch = b
      BY DEF Workers
    <3>2. CASE d = a
      BY <1>2, <3>1, <3>2
    <3>3. CASE d # a
      BY <1>2, <2>4, <3>1, <3>3
    <3>4. QED
      BY <3>2, <3>3
  <2>6. QED
    BY <2>1, <2>3, <2>5 DEF SameBatch
<1>5. QED
  BY <1>3, <1>4, SameStays DEF BatchInv

LEMMA BatchJob ==
  ASSUME BatchInv, DebtInv, NEW a \in Jobs
  PROVE  /\ BatchTypes /\ job \in [Jobs -> JobRecords] /\ job[a] \in JobRecords
         /\ Working(job[a], gen[a]) /\ \A b \in Batches : Counting(a, b) /\ Grouping(b)
         /\ gen[a] \in [batch : Batches \cup {"none"}, count : Nat, round : 0..2]
         /\ Created(a) \in Nat
         /\ \A b \in Batches : /\ Cardinality(Issued(b)) \in Nat /\ IsFiniteSet(Issued(b))
                               /\ Cardinality(Issued(b) \cap live) \in Nat /\ batch[b].total \in Nat
BY BatchFacts DEF BatchInv, DebtInv, JobsKnow, BatchTypes

\* Steps that leave the batches alone.
LEMMA GenerateStill ==
  ASSUME BatchInv, DebtInv, NEW a \in Jobs,
         GenerateArrive(a) \/ GenerateRefused(a) \/ GenerateUpdate(a)
           \/ (GenerateBatch(a) /\ UNCHANGED <<batch, gen>>)
           \/ (GenerateFault(a) /\ UNCHANGED <<doubtful, gen>> /\ Becomes(a, [job[a] EXCEPT !.pc = "update"]))
           \/ CompleteRetry(a)
  PROVE  BatchInv'
<1>1. job \in [Jobs -> JobRecords] /\ job[a] \in JobRecords /\ Working(job[a], gen[a])
  BY BatchJob
<1>2. UNCHANGED <<live, used, batchOf, batch, gen, doubtful, lost>>
  BY DEF GenerateArrive, GenerateRefused, GenerateUpdate, GenerateBatch, GenerateFault, CompleteRetry, Start,
     batchVars, batchHistory, ledgerVars
<1>3. \E k : Becomes(a, k) /\ Onward(job[a], k)
  <2>1. CASE GenerateArrive(a)
    <3>1. PICK rs : Becomes(a, [Idle EXCEPT !.op = "generate", !.pc = "batch", !.todo = rs]) /\ job[a] = Idle
      BY <2>1 DEF GenerateArrive, Start
    <3>2. Onward(job[a], [Idle EXCEPT !.op = "generate", !.pc = "batch", !.todo = rs])
      BY <3>1 DEF Onward, Idle
    <3>3. QED
      BY <3>1, <3>2
  <2>2. CASE GenerateRefused(a)
    <3> DEFINE K(r) == [job[a] EXCEPT !.todo = @ \ {r}]
    <3>1. PICK r : Becomes(a, K(r))
      BY <2>2 DEF GenerateRefused
    <3>2. Onward(job[a], K(r))
      BY <1>1 DEF Onward, JobRecords
    <3> HIDE DEF K
    <3>3. QED
      BY <3>1, <3>2
  <2>3. CASE GenerateUpdate(a)
    <3> DEFINE k == [Clean(job[a], job[a].rep) EXCEPT !.pc = "sales"]
    <3>1. Becomes(a, k) /\ At(a, {"generate"}, "update")
      BY <2>3 DEF GenerateUpdate
    <3>2. Onward(job[a], k)
      BY <1>1, <3>1 DEF Onward, JobRecords, Clean, At
    <3> HIDE DEF k
    <3>3. QED
      BY <3>1, <3>2
  <2>4. CASE GenerateBatch(a)
    <3> DEFINE k == [job[a] EXCEPT !.pc = "create"]
    <3>1. Becomes(a, k) /\ At(a, {"generate"}, "batch")
      BY <2>4 DEF GenerateBatch
    <3>2. Onward(job[a], k)
      BY <1>1, <3>1 DEF Onward, JobRecords, At
    <3> HIDE DEF k
    <3>3. QED
      BY <3>1, <3>2
  <2>5. CASE GenerateFault(a) /\ Becomes(a, [job[a] EXCEPT !.pc = "update"])
    <3> DEFINE k == [job[a] EXCEPT !.pc = "update"]
    <3>1. /\ Becomes(a, k) /\ job[a].op = "generate"
          /\ job[a].pc \in {"sales", "paid", "write", "after"}
      BY <2>5 DEF GenerateFault
    <3>2. Onward(job[a], k)
      BY <1>1, <3>1 DEF Onward, JobRecords
    <3> HIDE DEF k
    <3>3. QED
      BY <3>1, <3>2
  <2>6. CASE CompleteRetry(a)
    <3> DEFINE k == [job[a] EXCEPT !.pc = "count"]
    <3>1. Becomes(a, k) /\ job[a].op = "complete"
      BY <2>6 DEF CompleteRetry, At
    <3>2. Onward(job[a], k)
      BY <1>1, <3>1 DEF Onward, JobRecords
    <3> HIDE DEF k
    <3>3. QED
      BY <3>1, <3>2
  <2>7. QED
    BY <2>1, <2>2, <2>3, <2>4, <2>5, <2>6
<1>4. \A b \in Jobs : Onward(job[b], job'[b])
  BY <1>1, <1>3, Others
<1>5. \A b \in Batches : b \in doubtful' <=> b \in doubtful \/ \E i \in live \ live' : batchOf[i] = b
  BY <1>2
<1>6. QED
  BY <1>2, <1>4, <1>5, Still

LEMMA GenerateNamed ==
  ASSUME BatchInv, DebtInv, NEW a \in Jobs, GenerateBatch(a), NEW b \in Batches, batch[b] = NoBatch,
         batch' = [batch EXCEPT ![b].status = "processing"], gen' = [gen EXCEPT ![a].batch = b]
  PROVE  BatchInv'
<1>1. /\ At(a, {"generate"}, "batch") /\ Becomes(a, [job[a] EXCEPT !.pc = "create"])
      /\ UNCHANGED <<live, used, batchOf, doubtful, lost>>
  BY DEF GenerateBatch, ledgerVars, batchHistory
<1>2. gen[a] = NoGen
  BY <1>1, BatchJob DEF Working, At
<1>3. BatchTypes /\ BatchTypes'
  BY <1>1, BatchJob DEF BatchTypes, NoBatch
<1>4. /\ gen'[a] = [batch |-> b, count |-> 0, round |-> 0]
      /\ batch'[b] = [status |-> "processing", total |-> 0]
      /\ job'[a].op = "generate" /\ job'[a].pc = "create"
      /\ \A c \in Jobs : c # a => gen'[c] = gen[c] /\ job'[c] = job[c]
  BY <1>1, <1>2, <1>3, BatchJob DEF BatchTypes, NoGen, NoBatch, Becomes, JobRecords, At
<1>5. ASSUME NEW c \in Jobs PROVE Working(job'[c], gen'[c])
  <2>1. CASE c = a
    BY <1>4, <2>1 DEF Working
  <2>2. CASE c # a
    BY <1>4, <2>2 DEF BatchInv
  <2>3. QED
    BY <2>1, <2>2
<1>6. \A c \in Batches : Issued(c)' = Issued(c)
  BY <1>1 DEF Issued
<1>7. ASSUME NEW c \in Batches, c # b PROVE SameBatch(c)
  <2>1. gen[a].batch # c /\ gen'[a].batch # c
    BY <1>2, <1>4, <1>7, BatchAssumption DEF NoGen
  <2>2. Workers(c)' = Workers(c)
    <3>1. \A d \in Jobs : gen'[d].batch = c <=> gen[d].batch = c
      BY <1>4, <2>1
    <3>2. QED
      BY <3>1 DEF Workers
  <2>3. \A d \in Workers(c) : d # a /\ d \in Jobs
    BY <2>1 DEF Workers
  <2>4. \A d \in Jobs : d # a => Created(d)' = Created(d) /\ Created(d) \in Nat
    BY <1>3, <1>4, BatchFacts DEF Created
  <2>5. batch'[c] = batch[c]
    BY <1>3, <1>7 DEF BatchTypes
  <2>6. QED
    BY <1>1, <1>4, <1>6, <2>2, <2>3, <2>4, <2>5 DEF SameBatch
<1>8. \A c \in Jobs : gen[c].batch # b
  BY BatchJob DEF Counting
<1>9. Issued(b) = {} /\ Cardinality(Issued(b)) = 0 /\ Issued(b) \cap live = {}
  BY BatchJob, FS_EmptySet DEF Grouping
<1>r. batch'[b].status = "processing" /\ batch'[b].total = 0 /\ batch'[b] # NoBatch
  <2>1. NoBatch.status = "none"
    BY DEF NoBatch
  <2>2. batch'[b].status = "processing" /\ batch'[b].total = 0
    BY <1>4
  <2>3. QED
    BY <2>1, <2>2
<1>10. Grouping(b)'
  <2>1. Generating(b)'
    BY <1>4 DEF Workers, Generating
  <2>2. Issued(b)' = Issued(b)
    BY <1>6
  <2>3. b \in lost => b \in doubtful
    BY BatchJob DEF Grouping
  <2>4. QED
    BY <1>1, <1>r, <1>9, <2>1, <2>2, <2>3 DEF Grouping
<1>11. ASSUME NEW c \in Jobs PROVE Counting(c, b)'
  <2>1. gen'[c].batch = b => c = a
    BY <1>4, <1>8
  <2>2. Created(a)' = 0
    BY <1>4 DEF Created
  <2>3. Issued(b)' = Issued(b) /\ job'[a].op = "generate"
    BY <1>4, <1>6
  <2>4. \A d \in Jobs : gen'[d].batch = b => d = a
    BY <1>4, <1>8
  <2>5. QED
    BY <1>r, <1>9, <2>1, <2>2, <2>3, <2>4 DEF Counting
<1>12. QED
  BY <1>3, <1>5, <1>7, <1>10, <1>11, SameStays DEF BatchInv

LEMMA GenerateLeaves ==
  ASSUME BatchInv, DebtInv, NEW a \in Jobs, GenerateBatchFault(a) \/ GenerateEnd(a) \/ GenerateEndFault(a)
  PROVE  BatchInv'
<1>1. Leave(a) /\ UNCHANGED <<live, used, batchOf>>
  BY DEF GenerateBatchFault, GenerateEnd, GenerateEndFault, ledgerVars
<1>2. BatchTypes /\ job \in [Jobs -> JobRecords]
  BY BatchJob
<1>3. NoGen \in [batch : Batches \cup {"none"}, count : Nat, round : 0..2]
  BY DEF NoGen
<1>4. CASE GenerateBatchFault(a)
  <2>1. gen[a] = NoGen /\ gen[a].batch = "none"
    BY <1>4, BatchJob DEF GenerateBatchFault, Working, At, NoGen
  <2>2. CASE UNCHANGED <<batch, doubtful, lost>>
    <3>1. BatchTypes'
      BY <1>1, <1>2, <1>3, <2>2 DEF BatchTypes, Leave
    <3>2. OnlyRow("none") /\ RowLeft(a, "none")
      BY <2>2, BatchAssumption DEF OnlyRow, RowLeft
    <3>3. QED
      BY <1>1, <1>2, <2>1, <2>2, <3>1, <3>2, Left
  <2>3. ASSUME NEW b \in Batches, batch[b] = NoBatch,
               batch' = [batch EXCEPT ![b].status = "processing"], Doubt(b), lost' = lost \cup {b}
        PROVE  BatchInv'
    <3>1. BatchTypes'
      BY <1>1, <1>2, <1>3, <2>3 DEF BatchTypes, Leave, NoBatch
    <3>2. doubtful \subseteq doubtful' /\ \A c \in Batches : c # b /\ c \in doubtful' => c \in doubtful
      BY <2>3 DEF Doubt
    <3>3. b \in doubtful' /\ batch'[b] = [status |-> "processing", total |-> 0]
      BY <1>2, <2>3, BatchAssumption DEF Doubt, BatchTypes, NoBatch
    <3>4. \A c \in Batches : c # b => batch'[c] = batch[c]
      BY <1>2, <2>3 DEF BatchTypes
    <3>5. batch'[b] # NoBatch /\ batch'[b].total <= Cardinality(Issued(b))
      <4>1. NoBatch.status = "none" /\ batch'[b].status = "processing" /\ batch'[b].total = 0
        BY <3>3 DEF NoBatch
      <4>2. Cardinality(Issued(b)) \in Nat
        BY BatchJob
      <4>3. QED
        BY <4>1, <4>2
    <3>6. OnlyRow(b)
      BY <2>3, <3>2, <3>4 DEF OnlyRow
    <3>7. RowLeft(a, b)
      BY <2>3, <3>3, <3>5 DEF RowLeft
    <3>8. QED
      BY <1>1, <1>2, <2>1, <3>1, <3>2, <3>6, <3>7, Left
  <2>4. QED
    BY <1>4, <2>2, <2>3 DEF GenerateBatchFault, batchHistory
<1>5. CASE GenerateEnd(a) \/ GenerateEndFault(a)
  <2> DEFINE b == gen[a].batch
  <2>1. job[a].op = "generate" /\ job[a].pc = "create"
    BY <1>5 DEF GenerateEnd, GenerateEndFault, At
  <2>2. gen[a].round = 0 /\ Created(a) = gen[a].count /\ gen[a].count \in Nat
    BY <2>1, BatchJob DEF Working, Created
  <2>3. b \in Batches \cup {"none"}
    BY <1>2 DEF BatchTypes
  <2>4. b \in Batches =>
          /\ Counting(a, b) /\ Grouping(b) /\ Cardinality(Issued(b)) \in Nat
          /\ batch[b].total <= Cardinality(Issued(b)) /\ batch[b] # NoBatch
    BY BatchJob DEF Counting, Grouping
  <2>5. b \in Batches /\ b \notin doubtful =>
          Cardinality(Issued(b) \cap live) = Cardinality(Issued(b))
    <3>1. b \in Batches /\ b \notin doubtful => Issued(b) \cap live = Issued(b)
      BY <2>4 DEF Grouping
    <3>2. QED
      BY <3>1
  <2>6. CASE GenerateEnd(a)
    <3>1. /\ UNCHANGED <<doubtful, lost>>
          /\ batch' = IF b \in Batches
                        THEN [batch EXCEPT ![b] = [status |-> "completed", total |-> gen[a].count]]
                        ELSE batch
      BY <2>6 DEF GenerateEnd, batchHistory
    <3>2. BatchTypes'
      BY <1>1, <1>2, <1>3, <2>2, <3>1 DEF BatchTypes, Leave, NoBatch
    <3>3. /\ b \in Batches => batch'[b] = [status |-> "completed", total |-> gen[a].count]
          /\ \A c \in Batches : c # b => batch'[c] = batch[c]
      BY <1>2, <3>1 DEF BatchTypes
    <3>4. RowLeft(a, b)
      BY <2>1, <2>2, <2>4, <2>5, <3>1, <3>3 DEF RowLeft, Counting, Grouping, NoBatch
    <3>5. OnlyRow(b) /\ gen[a].batch \in {b, "none"} /\ doubtful \subseteq doubtful'
      BY <3>1, <3>3 DEF OnlyRow
    <3> HIDE DEF b
    <3>6. QED
      BY <1>1, <1>2, <3>2, <3>4, <3>5, Left
  <2>7. CASE GenerateEndFault(a)
    <3>1. /\ batch' = batch /\ doubtful' = doubtful \cup ({b} \ {"none"})
          /\ lost' = lost \cup ({b} \ {"none"})
      BY <2>7 DEF GenerateEndFault, Doubt
    <3>2. BatchTypes'
      BY <1>1, <1>2, <1>3, <3>1 DEF BatchTypes, Leave
    <3>3. RowLeft(a, b)
      BY <2>4, <3>1, BatchAssumption DEF RowLeft
    <3>4. OnlyRow(b) /\ gen[a].batch \in {b, "none"} /\ doubtful \subseteq doubtful'
      BY <3>1 DEF OnlyRow
    <3> HIDE DEF b
    <3>5. QED
      BY <1>1, <1>2, <3>2, <3>3, <3>4, Left
  <2>8. QED
    BY <1>5, <2>6, <2>7
<1>6. QED
  BY <1>4, <1>5

LEMMA GenerateCounts ==
  ASSUME BatchInv, DebtInv, NEW a \in Jobs,
         GenerateUpdated(a) \/ (GenerateFault(a) /\ NextInvoice(a) /\ Doubt(gen[a].batch)
                                /\ gen' = [gen EXCEPT ![a].round = 0])
  PROVE  BatchInv'
<1>1. BatchTypes /\ job \in [Jobs -> JobRecords] /\ job[a] \in JobRecords /\ Working(job[a], gen[a])
      /\ gen[a] \in [batch : Batches \cup {"none"}, count : Nat, round : 0..2]
  BY BatchJob
<1>2. UNCHANGED <<live, used, batchOf, batch, lost>>
  BY DEF GenerateUpdated, GenerateFault, ledgerVars, batchVars, batchHistory
<1>3. CASE GenerateUpdated(a)
  <2> DEFINE k == [job[a] EXCEPT !.pc = "update"]
             m == [Next1(job[a]) EXCEPT !.pc = "create"]
             g == [gen[a] EXCEPT !.round = 2, !.count = @ + 1]
             h == [gen[a] EXCEPT !.round = 0]
  <2>1. job[a].op = "generate" /\ job[a].pc = "after" /\ UNCHANGED doubtful
    BY <1>3 DEF GenerateUpdated, At, batchVars, batchHistory
  <2>2. gen[a].round \in {1, 2}
    BY <1>1, <2>1 DEF Working
  <2>3. k.op = "generate" /\ k.pc = "update" /\ m.op = "generate" /\ m.pc = "create"
    BY <1>1, <2>1 DEF JobRecords, Next1
  <2>g. /\ g.batch = gen[a].batch /\ h.batch = gen[a].batch /\ g.round = 2 /\ h.round = 0
        /\ g.count = gen[a].count + 1 /\ h.count = gen[a].count
        /\ g \in [batch : Batches \cup {"none"}, count : Nat, round : 0..2]
        /\ h \in [batch : Batches \cup {"none"}, count : Nat, round : 0..2]
    <3>1. gen[a].batch \in Batches \cup {"none"} /\ gen[a].count \in Nat /\ gen[a].count + 1 \in Nat
      BY <1>1
    <3>2. /\ g.batch = gen[a].batch /\ g.round = 2 /\ g.count = gen[a].count + 1
          /\ DOMAIN g = {"batch", "count", "round"}
      BY <1>1
    <3>3. h.batch = gen[a].batch /\ h.round = 0 /\ h.count = gen[a].count
      BY <1>1
    <3>4. h \in [batch : Batches \cup {"none"}, count : Nat, round : 0..2]
      BY <1>1
    <3>5. g \in [batch : Batches \cup {"none"}, count : Nat, round : 0..2]
      <4> DEFINE c == gen[a].count + 1
      <4>1. g = [gen[a] EXCEPT !.round = 2, !.count = c] /\ c \in Nat
        BY <3>1
      <4> DEFINE x == [gen[a] EXCEPT !.round = 2]
      <4> HIDE DEF c
      <4>2. x \in [batch : Batches \cup {"none"}, count : Nat, round : 0..2]
        BY <1>1
      <4>3. g = [x EXCEPT !.count = c]
        BY <4>1
      <4> HIDE DEF g, x
      <4>4. QED
        BY <4>1, <4>2, <4>3
    <3> HIDE DEF g, h
    <3>6. QED
      BY <3>2, <3>3, <3>4, <3>5
  <2>d. doubtful \subseteq doubtful' /\ \A c \in Batches : c \in doubtful' => c \in doubtful
    BY <2>1
  <2>4. CASE gen[a].round = 1
    <3>1. Becomes(a, k) /\ gen' = [gen EXCEPT ![a] = g]
      BY <1>1, <1>3, <2>4 DEF GenerateUpdated, BatchTypes
    <3> HIDE DEF k, g, m, h
    <3>2. BatchTypes'
      BY <1>1, <1>2, <2>g, <3>1 DEF BatchTypes
    <3>3. Created(a)' = Created(a) /\ Created(a) \in Nat
      BY <1>1, <2>g, <2>4, <3>1 DEF Created, BatchTypes
    <3>4. Working(k, g) /\ k.op = job[a].op /\ g.batch = gen[a].batch
      BY <2>1, <2>3, <2>g DEF Working
    <3>5. /\ doubtful \subseteq doubtful' /\ \A c \in Batches : c # g.batch /\ c \in doubtful' => c \in doubtful
          /\ Created(a)' <= Created(a)
          /\ g.batch \in Batches /\ g.batch \notin doubtful' => Created(a)' = Created(a)
      BY <2>d, <3>3
    <3>6. QED
      BY <1>1, <1>2, <2>1, <3>1, <3>2, <3>4, <3>5, Works
  <2>5. CASE gen[a].round = 2
    <3>1. Becomes(a, m) /\ gen' = [gen EXCEPT ![a] = h]
      BY <1>1, <1>3, <2>5 DEF GenerateUpdated, BatchTypes, NextInvoice
    <3> HIDE DEF k, g, m, h
    <3>2. BatchTypes'
      BY <1>1, <1>2, <2>g, <3>1 DEF BatchTypes
    <3>3. Created(a)' = Created(a) /\ Created(a) \in Nat
      BY <1>1, <2>g, <2>5, <3>1 DEF Created, BatchTypes
    <3>4. Working(m, h) /\ m.op = job[a].op /\ h.batch = gen[a].batch
      BY <2>1, <2>3, <2>g DEF Working
    <3>5. /\ doubtful \subseteq doubtful' /\ \A c \in Batches : c # h.batch /\ c \in doubtful' => c \in doubtful
          /\ Created(a)' <= Created(a)
          /\ h.batch \in Batches /\ h.batch \notin doubtful' => Created(a)' = Created(a)
      BY <2>d, <3>3
    <3>6. QED
      BY <1>1, <1>2, <2>1, <3>1, <3>2, <3>4, <3>5, Works
  <2>6. QED
    BY <2>2, <2>4, <2>5
<1>4. CASE GenerateFault(a) /\ NextInvoice(a) /\ Doubt(gen[a].batch) /\ gen' = [gen EXCEPT ![a].round = 0]
  <2> DEFINE m == [Next1(job[a]) EXCEPT !.pc = "create"]
             h == [gen[a] EXCEPT !.round = 0]
  <2>1. job[a].op = "generate" /\ doubtful' = doubtful \cup ({gen[a].batch} \ {"none"})
    BY <1>4 DEF GenerateFault, Doubt
  <2>2. /\ m.op = "generate" /\ m.pc = "create" /\ h.batch = gen[a].batch /\ h.round = 0
        /\ h.count = gen[a].count
        /\ h \in [batch : Batches \cup {"none"}, count : Nat, round : 0..2]
    BY <1>1, <2>1 DEF JobRecords, Next1
  <2>3. Becomes(a, m) /\ gen' = [gen EXCEPT ![a] = h]
    BY <1>1, <1>4 DEF BatchTypes, NextInvoice
  <2> HIDE DEF m, h
  <2>4. BatchTypes'
    BY <1>1, <1>2, <2>2, <2>3 DEF BatchTypes
  <2>5. Created(a)' <= Created(a)
    BY <1>1, <2>2, <2>3 DEF Created, BatchTypes
  <2>6. Working(m, h)
    BY <2>2 DEF Working
  <2>7. /\ doubtful \subseteq doubtful'
        /\ \A c \in Batches : c # h.batch /\ c \in doubtful' => c \in doubtful
        /\ h.batch \in Batches => h.batch \in doubtful'
    BY <2>1, <2>2, BatchAssumption
  <2>8. QED
    BY <1>1, <1>2, <2>1, <2>2, <2>3, <2>4, <2>5, <2>6, <2>7, Works
<1>5. QED
  BY <1>3, <1>4

LEMMA GenerateInserts ==
  ASSUME BatchInv, DebtInv, NEW a \in Jobs, GenerateInsert(a)
  PROVE  BatchInv'
<1> DEFINE b == gen[a].batch
           g == [gen[a] EXCEPT !.round = 1]
<1>1. PICK r \in job[a].todo, i \in Invoices :
        /\ i \in Unused(r) /\ live' = live \cup {i} /\ used' = used \cup {i}
        /\ batchOf' = [batchOf EXCEPT ![i] = b]
        /\ job' = Disturbing(a, [job[a] EXCEPT !.todo = @ \ {r}, !.rep = r, !.pc = "update"], {r})
  BY DEF GenerateInsert, Unused
<1>2. /\ job[a].op = "generate" /\ job[a].pc = "create" /\ gen' = [gen EXCEPT ![a].round = 1]
      /\ UNCHANGED <<batch, doubtful, lost>>
  BY DEF GenerateInsert, At, batchHistory
<1>3. BatchTypes /\ job \in [Jobs -> JobRecords] /\ job[a] \in JobRecords /\ Working(job[a], gen[a])
      /\ gen[a] \in [batch : Batches \cup {"none"}, count : Nat, round : 0..2] /\ Created(a) \in Nat
  BY BatchJob
<1>4. gen[a].round = 0 /\ Created(a) = gen[a].count
  BY <1>2, <1>3 DEF Working, Created
<1>5. i \in Invoices \ used /\ i \notin live
  BY <1>1, <1>3 DEF Unused, BatchTypes
<1>6. /\ gen'[a] = g /\ g.batch = b /\ g.count = gen[a].count /\ g.round = 1
      /\ g \in [batch : Batches \cup {"none"}, count : Nat, round : 0..2]
      /\ \A c \in Jobs : c # a => gen'[c] = gen[c]
  BY <1>2, <1>3 DEF BatchTypes
<1>7. /\ job'[a].op = "generate" /\ job'[a].pc = "update"
      /\ \A c \in Jobs : c # a => job'[c].op = job[c].op /\ job'[c].pc = job[c].pc
  <2>1. \A c \in Jobs : c # a => job'[c].op = job[c].op /\ job'[c].pc = job[c].pc
    BY <1>1, <1>3 DEF Disturbing, JobRecords
  <2>2. job'[a] = [job[a] EXCEPT !.todo = @ \ {r}, !.rep = r, !.pc = "update"]
    BY <1>1 DEF Disturbing
  <2>3. job'[a].op = "generate" /\ job'[a].pc = "update"
    BY <1>2, <1>3, <2>2 DEF JobRecords
  <2>4. QED
    BY <2>1, <2>3
<1>8. BatchTypes'
  <2>1. b \in Batches \cup {"none"} /\ gen' = [gen EXCEPT ![a] = g]
    BY <1>2, <1>3 DEF BatchTypes
  <2> HIDE DEF g, b
  <2>2. QED
    BY <1>1, <1>2, <1>3, <1>6, <2>1 DEF BatchTypes
<1>9. \A c \in Jobs : Working(job'[c], gen'[c])
  <2>1. Working(job'[a], gen'[a])
    BY <1>6, <1>7 DEF Working
  <2>2. ASSUME NEW c \in Jobs, c # a PROVE Working(job'[c], gen'[c])
    <3>1. Working(job[c], gen[c])
      BY DEF BatchInv
    <3>2. QED
      BY <1>6, <1>7, <2>2, <3>1 DEF Working
  <2>3. QED
    BY <2>1, <2>2
<1>10. /\ \A c \in Jobs : gen'[c].batch = gen[c].batch
       /\ \A c \in Jobs : c # a => Created(c)' = Created(c) /\ Created(c) \in Nat
       /\ Created(a)' = Created(a) + 1
  <2>1. \A c \in Jobs : c # a => Created(c)' = Created(c) /\ Created(c) \in Nat
    BY <1>3, <1>6, BatchFacts DEF Created
  <2>2. Created(a)' = Created(a) + 1
    BY <1>4, <1>6 DEF Created
  <2>3. QED
    BY <1>6, <2>1, <2>2
<1>11. \A c \in Batches : Workers(c)' = Workers(c)
  BY <1>10 DEF Workers
<1> HIDE DEF g
<1>12. ASSUME NEW c \in Batches, c # b PROVE SameBatch(c)
  <2>1. Issued(c)' = Issued(c) /\ i \notin Issued(c)
    BY <1>1, <1>3, <1>5, <1>12 DEF Issued, BatchTypes
  <2>2. Issued(c) \cap live' = Issued(c) \cap live
    BY <1>1, <2>1
  <2>3. \A d \in Workers(c) : d # a /\ d \in Jobs
    BY <1>12 DEF Workers
  <2>4. QED
    BY <1>2, <1>6, <1>7, <1>10, <1>11, <2>1, <2>2, <2>3 DEF SameBatch
<1>13. ASSUME NEW e \in Batches, e = b PROVE Grouping(e)' /\ \A d \in Jobs : Counting(d, e)'
  <2>1. /\ Grouping(e) /\ Counting(a, e) /\ Cardinality(Issued(e)) \in Nat /\ IsFiniteSet(Issued(e))
        /\ batch[e].total \in Nat
    BY <1>13, BatchJob
  <2>2. Issued(e)' = Issued(e) \cup {i} /\ i \notin Issued(e)
    BY <1>1, <1>3, <1>5, <1>13 DEF Issued, BatchTypes
  <2>3. Cardinality(Issued(e))' = Cardinality(Issued(e)) + 1
    BY <2>1, <2>2, FS_AddElement
  <2>4. /\ batch[e] # NoBatch /\ Created(a) <= Cardinality(Issued(e))
        /\ e \notin doubtful => batch[e].status = "processing" /\ Created(a) = Cardinality(Issued(e))
                                /\ \A c \in Jobs : gen[c].batch = e => c = a
    BY <1>2, <1>13, <2>1 DEF Counting
  <2>5. Generating(e)'
    BY <1>7, <1>11, <1>13 DEF Workers, Generating
  <2>6. e \notin doubtful => Issued(e)' \subseteq live'
    BY <1>1, <2>1, <2>2 DEF Grouping
  <2>7. Grouping(e)'
    BY <1>2, <2>1, <2>3, <2>4, <2>5, <2>6 DEF Grouping
  <2>8. Counting(a, e)'
    BY <1>2, <1>3, <1>7, <1>10, <2>1, <2>3, <2>4 DEF Counting
  <2>9. ASSUME NEW d \in Jobs, d # a, gen[d].batch = e PROVE Counting(d, e)'
    <3>1. e \in doubtful
      BY <2>4, <2>9
    <3>2. Counting(d, e) /\ gen[d].count \in Nat
      BY <1>13, <2>9, BatchJob, BatchFacts
    <3>3. QED
      BY <1>2, <1>6, <1>7, <1>10, <2>1, <2>3, <2>9, <3>1, <3>2 DEF Counting
  <2>10. ASSUME NEW d \in Jobs PROVE Counting(d, e)'
    <3>1. CASE d = a
      BY <2>8, <3>1
    <3>2. CASE d # a /\ gen[d].batch = e
      BY <2>9, <3>2
    <3>3. CASE gen[d].batch # e
      BY <1>10, <3>3 DEF Counting
    <3>4. QED
      BY <3>1, <3>2, <3>3
  <2>11. QED
    BY <2>7, <2>10
<1>14. QED
  BY <1>8, <1>9, <1>12, <1>13, SameStays DEF BatchInv

LEMMA CompleteArrives ==
  ASSUME BatchInv, DebtInv, NEW a \in Jobs, NEW b \in Batches, CompleteArrive(a, b)
  PROVE  BatchInv'
<1>1. /\ batch[b] # NoBatch /\ job[a] = Idle /\ gen' = [gen EXCEPT ![a].batch = b]
      /\ Becomes(a, [Idle EXCEPT !.op = "complete", !.pc = "count", !.todo = {}])
      /\ doubtful' = doubtful \cup {c \in {b} : Workers(c) # {}}
      /\ UNCHANGED <<live, used, batchOf, batch, lost>>
  BY DEF CompleteArrive, Start, ledgerVars
<1>2. BatchTypes /\ job \in [Jobs -> JobRecords] /\ Grouping(b) /\ (\A c \in Jobs : Counting(c, b))
      /\ \A c \in Jobs : Working(job[c], gen[c])
  BY BatchJob DEF BatchInv
<1>3. gen[a] = NoGen
  BY <1>1, <1>2 DEF Working, Idle
<1>4. /\ gen'[a] = [batch |-> b, count |-> 0, round |-> 0]
      /\ job'[a].op = "complete" /\ job'[a].pc = "count"
      /\ \A c \in Jobs : c # a => gen'[c] = gen[c] /\ job'[c] = job[c]
  BY <1>1, <1>2, <1>3 DEF BatchTypes, NoGen, Becomes, Idle
<1>5. BatchTypes'
  BY <1>1, <1>2 DEF BatchTypes
<1>6. ASSUME NEW c \in Jobs PROVE Working(job'[c], gen'[c])
  BY <1>2, <1>4 DEF Working
<1>7. \A c \in Batches : Issued(c)' = Issued(c)
  BY <1>1 DEF Issued
<1>8. ASSUME NEW c \in Batches, c # b PROVE SameBatch(c)
  <2>1. gen[a].batch # c /\ gen'[a].batch # c
    BY <1>3, <1>4, <1>8, BatchAssumption DEF NoGen
  <2>2. Workers(c)' = Workers(c)
    <3>1. \A d \in Jobs : gen'[d].batch = c <=> gen[d].batch = c
      BY <1>4, <2>1
    <3>2. QED
      BY <3>1 DEF Workers
  <2>3. \A d \in Workers(c) : d # a /\ d \in Jobs
    BY <2>1 DEF Workers
  <2>4. \A d \in Jobs : d # a => Created(d)' = Created(d) /\ Created(d) \in Nat
    BY <1>2, <1>4, BatchFacts DEF Created
  <2>5. QED
    BY <1>1, <1>4, <1>7, <2>2, <2>3, <2>4 DEF SameBatch
<1>9. b \notin doubtful' =>
        /\ b \notin doubtful /\ (\A c \in Jobs : gen[c].batch # b) /\ batch[b].status = "completed"
  <2>1. b \notin doubtful' => b \notin doubtful /\ Workers(b) = {}
    BY <1>1
  <2>2. batch[b].status \in {"none", "processing", "completed"} /\ batch[b].status # "none"
    BY <1>1, <1>2 DEF BatchTypes
  <2>3. QED
    BY <1>2, <2>1, <2>2 DEF Grouping, Workers, Generating
<1>10. Grouping(b)'
  <2>1. Generating(b) => Generating(b)'
    <3> SUFFICES ASSUME NEW c \in Workers(b), job[c].op = "generate" PROVE Generating(b)'
      BY DEF Generating
    <3>1. c \in Jobs /\ c # a /\ gen[c].batch = b
      BY <1>3, BatchAssumption DEF Workers, NoGen
    <3>2. QED
      BY <1>4, <3>1 DEF Generating, Workers
  <2>2. QED
    BY <1>1, <1>2, <1>7, <1>9, <2>1 DEF Grouping
<1>11. ASSUME NEW c \in Jobs PROVE Counting(c, b)'
  <2>1. CASE c = a
    BY <1>1, <1>4, <1>9, <2>1 DEF Counting
  <2>2. CASE c # a /\ gen[c].batch = b
    <3>1. Counting(c, b) /\ b \in doubtful' /\ Created(c)' = Created(c)
      BY <1>2, <1>4, <1>9, <2>2 DEF Created
    <3>2. Issued(b)' = Issued(b)
      BY <1>7
    <3>3. QED
      BY <1>1, <1>4, <2>2, <3>1, <3>2 DEF Counting
  <2>3. CASE c # a /\ gen[c].batch # b
    BY <1>4, <2>3 DEF Counting
  <2>4. QED
    BY <2>1, <2>2, <2>3
<1>12. QED
  BY <1>5, <1>6, <1>8, <1>10, <1>11, SameStays DEF BatchInv

LEMMA CompleteCounts ==
  ASSUME BatchInv, DebtInv, NEW a \in Jobs, CompleteCount(a)
  PROVE  BatchInv'
<1> DEFINE b == gen[a].batch
           n == Cardinality(Issued(b) \cap live)
<1>1. /\ job[a].op = "complete" /\ job[a].pc = "count" /\ gen' = [gen EXCEPT ![a].count = n]
      /\ Becomes(a, [job[a] EXCEPT !.pc = "total"])
      /\ UNCHANGED <<live, used, batchOf, batch, doubtful, lost>>
  BY DEF CompleteCount, At, ledgerVars, batchVars, batchHistory
<1>2. BatchTypes /\ job \in [Jobs -> JobRecords] /\ \A c \in Jobs : Working(job[c], gen[c])
  BY BatchJob DEF BatchInv
<1>3. b \in Batches
  BY <1>1, <1>2 DEF Working
<1>4. Grouping(b) /\ \A c \in Jobs : Counting(c, b)
  BY <1>3 DEF BatchInv
<1>5. n \in Nat /\ n <= Cardinality(Issued(b)) /\ Cardinality(Issued(b)) \in Nat
  <2>1. Issued(b) \cap live \subseteq Issued(b) /\ IsFiniteSet(Issued(b)) /\ Cardinality(Issued(b)) \in Nat
    BY <1>2, BatchFacts
  <2>2. QED
    BY <2>1, FS_Subset, FS_CardinalityType
<1> HIDE DEF n
<1>6. /\ gen'[a].batch = b /\ gen'[a].count = n
      /\ job'[a].op = "complete" /\ job'[a].pc = "total"
      /\ \A c \in Jobs : c # a => gen'[c] = gen[c] /\ job'[c] = job[c]
  BY <1>1, <1>2 DEF BatchTypes, Becomes, JobRecords
<1>7. BatchTypes'
  BY <1>1, <1>2, <1>5 DEF BatchTypes
<1>8. ASSUME NEW c \in Jobs PROVE Working(job'[c], gen'[c])
  BY <1>2, <1>3, <1>6 DEF Working
<1>9. \A c \in Batches : Issued(c)' = Issued(c)
  BY <1>1 DEF Issued
<1>10. \A d \in Jobs : gen'[d].batch = gen[d].batch
  BY <1>6
<1>11. \A c \in Batches : Workers(c)' = Workers(c)
  BY <1>10 DEF Workers
<1>12. \A d \in Jobs : d # a => Created(d)' = Created(d) /\ Created(d) \in Nat
  BY <1>2, <1>6, BatchFacts DEF Created
<1>13. ASSUME NEW c \in Batches, c # b PROVE SameBatch(c)
  <2>1. \A d \in Workers(c) : d # a /\ d \in Jobs
    BY <1>13 DEF Workers
  <2>2. QED
    BY <1>1, <1>6, <1>9, <1>11, <1>12, <2>1 DEF SameBatch
<1>14. ASSUME NEW e \in Batches, e = b PROVE Grouping(e)'
  <2>1. \A c \in Jobs : job'[c].op = job[c].op
    BY <1>1, <1>6
  <2>2. Generating(e)' <=> Generating(e)
    BY <1>11, <2>1 DEF Generating, Workers
  <2>3. QED
    BY <1>1, <1>4, <1>9, <1>14, <2>2 DEF Grouping
<1>15. ASSUME NEW e \in Batches, e = b, NEW c \in Jobs PROVE Counting(c, e)'
  <2>1. Issued(e)' = Issued(e) /\ Counting(c, e)
    BY <1>4, <1>9, <1>15
  <2>2. CASE c = a
    <3>1. n = Cardinality(Issued(e) \cap live)
      BY <1>15 DEF n
    <3>2. QED
      BY <1>1, <1>5, <1>6, <1>10, <2>1, <2>2, <3>1, <1>15 DEF Counting
  <2>3. CASE c # a
    BY <1>1, <1>6, <1>10, <1>12, <1>15, <2>1, <2>3 DEF Counting
  <2>4. QED
    BY <2>2, <2>3
<1>16. QED
  BY <1>7, <1>8, <1>13, <1>14, <1>15, SameStays DEF BatchInv

LEMMA CompleteLeaves ==
  ASSUME BatchInv, DebtInv, NEW a \in Jobs, CompleteTotal(a)
  PROVE  BatchInv'
<1> DEFINE b == gen[a].batch
<1>1. /\ UNCHANGED <<live, used, batchOf, doubtful, lost>>
      /\ job[a].op = "complete" /\ job[a].pc = "total"
      /\ batch' = [batch EXCEPT ![b] = [status |-> "completed", total |-> gen[a].count]]
      /\ Leave(a) \/ (Becomes(a, [job[a] EXCEPT !.pc = "count"]) /\ UNCHANGED gen)
  BY DEF CompleteTotal, ledgerVars, batchHistory, At
<1>2. BatchTypes /\ job \in [Jobs -> JobRecords] /\ Working(job[a], gen[a])
      /\ NoGen \in [batch : Batches \cup {"none"}, count : Nat, round : 0..2]
  BY BatchJob DEF NoGen
<1>3. b \in Batches
  BY <1>1, <1>2 DEF Working
<1>4. /\ Counting(a, b) /\ Grouping(b) /\ Cardinality(Issued(b)) \in Nat /\ gen[a].count \in Nat
  BY <1>2, <1>3, BatchJob, BatchFacts
<1>5. /\ batch[b] # NoBatch
      /\ b \notin doubtful => batch[b].status = "completed" /\ \A c \in Jobs : gen[c].batch = b => c = a
  BY <1>1, <1>4 DEF Counting
<1>6. /\ gen[a].count <= Cardinality(Issued(b))
      /\ b \notin doubtful => gen[a].count = Cardinality(Issued(b) \cap live)
  BY <1>1, <1>4 DEF Counting
<1>7. batch'[b] = [status |-> "completed", total |-> gen[a].count]
      /\ \A c \in Batches : c # b => batch'[c] = batch[c]
  BY <1>1, <1>2, <1>3 DEF BatchTypes
<1>8. RowLeft(a, b)
  BY <1>1, <1>4, <1>5, <1>6, <1>7 DEF RowLeft, NoBatch, Grouping
<1>9. CASE Leave(a)
  <2>1. BatchTypes'
    BY <1>1, <1>2, <1>4, <1>9 DEF BatchTypes, Leave, NoBatch
  <2>2. OnlyRow(b) /\ gen[a].batch \in {b, "none"} /\ doubtful \subseteq doubtful'
    BY <1>1, <1>7 DEF OnlyRow
  <2> HIDE DEF b
  <2>3. QED
    BY <1>1, <1>2, <1>8, <1>9, <2>1, <2>2, Left
<1>10. CASE Becomes(a, [job[a] EXCEPT !.pc = "count"]) /\ UNCHANGED gen
  <2>1. BatchTypes'
    BY <1>1, <1>2, <1>4, <1>10 DEF BatchTypes, NoBatch
  <2>2. /\ job'[a].op = "complete" /\ job'[a].pc = "count"
        /\ \A c \in Jobs : c # a => job'[c] = job[c]
    BY <1>1, <1>2, <1>10 DEF Becomes, JobRecords
  <2>3. \A c \in Jobs : Working(job'[c], gen'[c])
    <3>1. \A c \in Jobs : Working(job[c], gen[c])
      BY DEF BatchInv
    <3>2. QED
      BY <1>1, <1>3, <1>10, <2>2, <3>1 DEF Working
  <2>4. \A c \in Batches : Issued(c)' = Issued(c) /\ Workers(c)' = Workers(c)
    BY <1>1, <1>10 DEF Issued, Workers
  <2>5. \A d \in Jobs : Created(d)' = Created(d) /\ Created(d) \in Nat
    BY <1>2, <1>10, BatchFacts DEF Created
  <2>6. ASSUME NEW c \in Batches, c # b PROVE SameBatch(c)
    <3>1. \A d \in Workers(c) : d # a /\ d \in Jobs
      BY <2>6 DEF Workers
    <3>2. QED
      BY <1>1, <1>7, <1>10, <2>2, <2>4, <2>5, <2>6, <3>1 DEF SameBatch
  <2>7. ASSUME NEW e \in Batches, e = b PROVE Grouping(e)' /\ \A d \in Jobs : Counting(d, e)'
    <3>1. Grouping(e)'
      BY <1>1, <1>4, <1>7, <1>8, <2>4, <2>7 DEF Grouping, RowLeft
    <3>2. ASSUME NEW d \in Jobs, gen[d].batch = e PROVE Counting(d, e)'
      <4>1. Counting(d, e)
        BY DEF BatchInv
      <4>2. batch'[e] # NoBatch /\ batch'[e].status = "completed"
        BY <1>3, <1>7, <1>8, <2>7 DEF RowLeft
      <4>3. e \notin doubtful => d = a
        BY <1>5, <2>7, <3>2
      <4>4. CASE d = a
        BY <1>1, <1>10, <2>2, <2>4, <3>2, <4>1, <4>2, <4>4 DEF Counting
      <4>5. CASE d # a
        BY <1>1, <1>10, <2>2, <2>4, <2>5, <3>2, <4>1, <4>2, <4>3, <4>5 DEF Counting
      <4>6. QED
        BY <4>4, <4>5
    <3>3. ASSUME NEW d \in Jobs, gen[d].batch # e PROVE Counting(d, e)'
      BY <1>10, <3>3 DEF Counting
    <3>4. QED
      BY <3>1, <3>2, <3>3
  <2>8. QED
    BY <2>1, <2>3, <2>6, <2>7, SameStays DEF BatchInv
<1>11. QED
  BY <1>1, <1>9, <1>10

\* The process ends and every request with it.
LEMMA ExitBatch ==
  ASSUME BatchInv, Exit
  PROVE  BatchInv'
<1>1. /\ job' = [a \in Jobs |-> Idle] /\ gen' = [a \in Jobs |-> NoGen]
      /\ doubtful' = doubtful \cup {b \in Batches : Workers(b) # {}}
      /\ lost' = lost \cup {b \in Batches : Generating(b)}
      /\ UNCHANGED <<live, used, batchOf, batch>>
  BY DEF Exit, ledgerVars
<1>2. NoGen \in [batch : Batches \cup {"none"}, count : Nat, round : 0..2] /\ NoGen.batch = "none"
  BY DEF NoGen
<1>3. BatchTypes'
  BY <1>1, <1>2 DEF BatchInv, BatchTypes
<1>4. \A a \in Jobs : Working(job'[a], gen'[a])
  BY <1>1 DEF Working, Idle
<1>5. ASSUME NEW b \in Batches PROVE Grouping(b)' /\ \A a \in Jobs : Counting(a, b)'
  <2>1. Grouping(b)
    BY DEF BatchInv
  <2>2. Issued(b)' = Issued(b) /\ (Generating(b) => Workers(b) # {})
    BY <1>1 DEF Issued, Generating
  <2>3. Grouping(b)'
    BY <1>1, <2>1, <2>2 DEF Grouping
  <2>4. \A a \in Jobs : gen'[a].batch # b
    BY <1>1, <1>2, BatchAssumption
  <2>5. QED
    BY <2>3, <2>4 DEF Counting
<1>6. QED
  BY <1>3, <1>4, <1>5 DEF BatchInv

LEMMA BatchStart == Init => BatchInv
<1> SUFFICES ASSUME Init PROVE BatchInv
  OBVIOUS
<1>1. /\ live = InitialInvoices /\ used = InitialInvoices /\ batchOf = [i \in Invoices |-> "none"]
      /\ batch = [b \in Batches |-> NoBatch] /\ gen = [a \in Jobs |-> NoGen] /\ doubtful = {}
      /\ lost = {} /\ job = [a \in Jobs |-> Idle]
  BY DEF Init, DebtInit
<1>2. BatchTypes
  BY <1>1, DebtAssumption DEF BatchTypes, NoBatch, NoGen
<1>3. \A a \in Jobs : Working(job[a], gen[a])
  BY <1>1 DEF Working, Idle
<1>4. ASSUME NEW b \in Batches PROVE Grouping(b) /\ \A a \in Jobs : Counting(a, b)
  <2>1. Issued(b) = {} /\ Cardinality(Issued(b)) = 0
    BY <1>1, DebtAssumption, BatchAssumption, FS_EmptySet DEF Issued
  <2>2. batch[b].status = "none" /\ batch[b].total = 0
    BY <1>1 DEF NoBatch
  <2>3. \A a \in Jobs : gen[a].batch # b
    BY <1>1, BatchAssumption DEF NoGen
  <2>4. QED
    BY <1>1, <2>1, <2>2, <2>3 DEF Grouping, Counting
<1>5. QED
  BY <1>2, <1>3, <1>4 DEF BatchInv

LEMMA BatchStep ==
  ASSUME BatchInv, DebtInv, [Next]_vars
  PROVE  BatchInv'
<1>1. CASE UNCHANGED vars
  <2>1. UNCHANGED <<live, used, batchOf, batch, gen, doubtful, lost, job>>
    BY <1>1 DEF vars, debtVars, batchVars, batchHistory, ledgerVars
  <2>2. \A b \in Batches : b \in doubtful' <=> b \in doubtful \/ \E i \in live \ live' : batchOf[i] = b
    BY <2>1
  <2>3. \A a \in Jobs : Onward(job[a], job'[a])
    BY <2>1 DEF Onward
  <2>4. QED
    BY <2>1, <2>2, <2>3, Still
<1>2. ASSUME NEW a \in Jobs, GenerateStep(a) PROVE BatchInv'
  <2>1. CASE GenerateBatch(a)
    BY <2>1, GenerateNamed, GenerateStill DEF GenerateBatch
  <2>2. CASE GenerateFault(a)
    BY <2>2, GenerateCounts, GenerateStill DEF GenerateFault
  <2>3. QED
    BY <1>2, <2>1, <2>2, GenerateStill, GenerateLeaves, GenerateCounts, GenerateInserts DEF GenerateStep
<1>3. ASSUME NEW a \in Jobs, CompleteStep(a) PROVE BatchInv'
  BY <1>3, CompleteArrives, CompleteCounts, CompleteLeaves, GenerateStill, ExitBatch DEF CompleteStep,
     CompleteFault
<1>4. QED
  BY <1>1, <1>2, <1>3, RepairBatch, ExitBatch DEF Next

(* Only a request that failed leaves a batch in 'processing'.              *)
THEOREM ProcessingSafety == Spec => []ProcessingIsWorkedAt
<1>1. BatchInv => ProcessingIsWorkedAt
  BY DEF BatchInv, Grouping, ProcessingIsWorkedAt
<1>2. DebtInv /\ BatchInv /\ [Next]_vars => DebtInv' /\ BatchInv'
  BY DebtStep, BatchStep
<1>3. QED
  BY <1>1, <1>2, DebtStart, BatchStart, PTL DEF Spec

(* The total of a batch never exceeds the invoices created for it, and it  *)
(* is their number once the batch is completed, unless a statement failed, *)
(* an invoice was deleted or two requests worked at it at the same time.   *)
THEOREM BatchSafety == Spec => []BatchCountsInvoices
<1>1. BatchInv => BatchCountsInvoices
  BY DEF BatchInv, Grouping, BatchCountsInvoices
<1>2. DebtInv /\ BatchInv /\ [Next]_vars => DebtInv' /\ BatchInv'
  BY DebtStep, BatchStep
<1>3. QED
  BY <1>1, <1>2, DebtStart, BatchStart, PTL DEF Spec
=============================================================================
