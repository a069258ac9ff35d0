---------------------------- MODULE LedgerProofs ----------------------------
(* What holds of the allocation ledger for every number of requests in     *)
(* progress, whatever transactions abort, whatever statements fail and     *)
(* whatever is deleted.                                                    *)
EXTENDS GuardMetrics, SequenceTheorems, FiniteSetTheorems, TLAPS

(***************************************************************************)
(* Sums over finite sets.  The library's induction theorems take an        *)
(* operator; that every non-empty set of naturals has a least element does *)
(* not, and is enough to show that the recursion of a fold has a solution. *)
(***************************************************************************)
PickOf(s) == CHOOSE x \in s : TRUE

\* What SumOver computes, for all subsets of S.
Adds(g, f, S) ==
  /\ g \in [SUBSET S -> Nat] /\ g[{}] = 0
  /\ \A s \in SUBSET S : s # {} => PickOf(s) \in s /\ g[s] = f[PickOf(s)] + g[s \ {PickOf(s)}]

(* A set of naturals has a least element, and so has a set of finite sets. *)
LEMMA LeastNatural ==
  ASSUME NEW T \in SUBSET Nat, T # {}
  PROVE  \E n \in T : \A m \in T : n <= m
<1>1. PICK n \in T : \A m \in T : <<m, n>> \notin OpToRel(<, Nat)
  BY NatLessThanWellFounded, WFMin
<1>2. \A m \in T : ~(m < n)
  BY <1>1, Zenon DEF OpToRel
<1>3. QED
  BY <1>2

LEMMA LeastSubset ==
  ASSUME NEW S, IsFiniteSet(S), NEW T \in SUBSET SUBSET S, T # {}, {} \notin T
  PROVE  \E s \in T : s # {} /\ PickOf(s) \in s /\ s \ {PickOf(s)} \in (SUBSET S) \ T
<1> DEFINE N == {Cardinality(s) : s \in T}
<1>1. \A s \in SUBSET S : IsFiniteSet(s) /\ Cardinality(s) \in Nat
  BY FS_Subset, FS_CardinalityType
<1>2. N \in SUBSET Nat /\ N # {}
  BY <1>1
<1>3. PICK n \in N : \A m \in N : n <= m
  <2> HIDE DEF N
  <2>1. QED
    BY <1>2, LeastNatural
<1>4. PICK s \in T : Cardinality(s) = n
  BY <1>3
<1>5. s # {} /\ PickOf(s) \in s
  BY <1>4 DEF PickOf
<1>6. Cardinality(s \ {PickOf(s)}) = n - 1 /\ n \in Nat
  BY <1>1, <1>4, <1>5, FS_RemoveElement
<1>7. s \ {PickOf(s)} \notin T
  <2>1. ASSUME s \ {PickOf(s)} \in T PROVE FALSE
    <3>1. Cardinality(s \ {PickOf(s)}) \in N
      BY <2>1
    <3> HIDE DEF N
    <3>2. n <= Cardinality(s \ {PickOf(s)})
      BY <1>3, <3>1
    <3>3. QED
      BY <1>6, <3>2
  <2>2. QED
    BY <2>1
<1>8. QED
  BY <1>4, <1>5, <1>7

(* There is a function that computes the sums, by the size of the subsets. *)
LEMMA AddsExists ==
  ASSUME NEW S, IsFiniteSet(S), NEW f, \A x \in S : f[x] \in Nat
  PROVE  \E g : Adds(g, f, S)
<1> DEFINE D(n) == {s \in SUBSET S : Cardinality(s) <= n}
           Sums(g, n) == /\ g \in [D(n) -> Nat]
                         /\ \A s \in D(n) : g[s] = IF s = {} THEN 0
                                                   ELSE f[PickOf(s)] + g[s \ {PickOf(s)}]
           Good(n) == \E g : Sums(g, n)
           Bad == {n \in Nat : ~Good(n)}
<1>1. \A s \in SUBSET S : IsFiniteSet(s) /\ Cardinality(s) \in Nat
  BY FS_Subset, FS_CardinalityType
<1>2. \A s \in SUBSET S : s # {} =>
        /\ PickOf(s) \in s /\ PickOf(s) \in S /\ s \ {PickOf(s)} \in SUBSET S
        /\ Cardinality(s \ {PickOf(s)}) = Cardinality(s) - 1
  <2>1. \A s \in SUBSET S : s # {} => PickOf(s) \in s
    BY DEF PickOf
  <2>2. QED
    BY <1>1, <2>1, FS_RemoveElement
<1>3. Good(0)
  <2>1. \A s \in D(0) : s = {}
    BY <1>1, FS_EmptySet
  <2>2. Sums([s \in D(0) |-> 0], 0)
    BY <2>1
  <2>3. QED
    BY <2>2
<1>4. ASSUME NEW n \in Nat, Good(n) PROVE Good(n + 1)
  <2>1. PICK g : Sums(g, n)
    BY <1>4
  <2> DEFINE h == [s \in D(n + 1) |-> IF s \in D(n) THEN g[s] ELSE f[PickOf(s)] + g[s \ {PickOf(s)}]]
  <2>2. ASSUME NEW s \in D(n + 1)
        PROVE  h[s] \in Nat /\ h[s] = IF s = {} THEN 0 ELSE f[PickOf(s)] + h[s \ {PickOf(s)}]
    <3>1. CASE s = {}
      BY <1>1, <2>1, <3>1, FS_EmptySet
    <3>2. CASE s # {}
      <4>1. s \ {PickOf(s)} \in D(n) /\ s \ {PickOf(s)} \in D(n + 1) /\ PickOf(s) \in S
        BY <1>1, <1>2, <3>2
      <4>2. h[s \ {PickOf(s)}] = g[s \ {PickOf(s)}] /\ g[s \ {PickOf(s)}] \in Nat /\ f[PickOf(s)] \in Nat
        BY <2>1, <4>1
      <4>3. h[s] = f[PickOf(s)] + g[s \ {PickOf(s)}]
        BY <2>1, <3>2
      <4>4. QED
        BY <3>2, <4>2, <4>3
    <3>3. QED
      BY <3>1, <3>2
  <2>3. h \in [D(n + 1) -> Nat]
    BY <2>2
  <2>4. Sums(h, n + 1)
    BY <2>2, <2>3
  <2>5. QED
    BY <2>4
<1>5. \A n \in Nat : Good(n)
  <2> HIDE DEF Good
  <2> SUFFICES ASSUME Bad # {} PROVE FALSE
    OBVIOUS
  <2>1. PICK n \in Bad : \A m \in Bad : n <= m
    BY LeastNatural
  <2>2. n # 0
    BY <1>3, <2>1
  <2>3. n - 1 \in Nat /\ n - 1 \notin Bad
    BY <2>1, <2>2
  <2>4. QED
    BY <1>4, <2>3
<1>6. D(Cardinality(S)) = SUBSET S
  BY <1>1, FS_Subset, FS_CardinalityType
<1>7. PICK g : Sums(g, Cardinality(S))
  BY <1>1, <1>5
<1>8. g \in [SUBSET S -> Nat] /\ \A s \in SUBSET S : g[s] = IF s = {} THEN 0
                                                              ELSE f[PickOf(s)] + g[s \ {PickOf(s)}]
  <2> HIDE DEF D
  <2>1. QED
    BY <1>6, <1>7
<1>9. QED
  BY <1>2, <1>8 DEF Adds

(* SumOver is such a function.                                             *)
LEMMA SumAdds ==
  ASSUME NEW S, IsFiniteSet(S), NEW f, \A x \in S : f[x] \in Nat
  PROVE  \E g : Adds(g, f, S) /\ SumOver(f, S) = g[S]
<1> DEFINE Rec(g) == g = [s \in SUBSET S |->
                            IF s = {} THEN 0
                            ELSE f[CHOOSE x \in s : TRUE] + g[s \ {CHOOSE x \in s : TRUE}]]
           G == CHOOSE g : Rec(g)
           Bad == {s \in SUBSET S : G[s] \notin Nat}
<1>1. PICK g : Adds(g, f, S)
  BY AddsExists
<1>2. Rec(g)
  <2>1. \A s \in SUBSET S : g[s] = IF s = {} THEN 0
          ELSE f[CHOOSE x \in s : TRUE] + g[s \ {CHOOSE x \in s : TRUE}]
    BY <1>1 DEF Adds, PickOf
  <2>2. g = [s \in SUBSET S |-> g[s]]
    BY <1>1 DEF Adds
  <2>3. QED
    BY <2>1, <2>2
<1>3. SumOver(f, S) = G[S]
  BY DEF SumOver, FoldFunctionOnSet, MapThenFoldSet
<1>4. Rec(G)
  <2> HIDE DEF Rec
  <2>1. QED
    BY <1>2
<1>5. /\ G[{}] = 0
      /\ \A s \in SUBSET S : s # {} => PickOf(s) \in s /\ G[s] = f[PickOf(s)] + G[s \ {PickOf(s)}]
      /\ DOMAIN G = SUBSET S /\ G = [s \in SUBSET S |-> G[s]]
  BY <1>4 DEF PickOf
<1> HIDE DEF G
<1>6. \A s \in SUBSET S : G[s] \in Nat
  <2>1. ASSUME Bad # {} PROVE FALSE
    <3>1. Bad \in SUBSET SUBSET S /\ {} \notin Bad
      BY <1>5
    <3>2. PICK s \in Bad : s # {} /\ PickOf(s) \in s /\ s \ {PickOf(s)} \in (SUBSET S) \ Bad
      <4> HIDE DEF Bad
      <4>1. QED
        BY <2>1, <3>1, LeastSubset
    <3>3. G[s] = f[PickOf(s)] + G[s \ {PickOf(s)}] /\ G[s \ {PickOf(s)}] \in Nat
      BY <1>5, <3>2
    <3>4. QED
      BY <3>2, <3>3
  <2>2. QED
    BY <2>1
<1>7. Adds(G, f, S)
  BY <1>5, <1>6 DEF Adds
<1>8. QED
  BY <1>3, <1>7

(* A sum of naturals is a natural.                                         *)
LEMMA SumType ==
  ASSUME NEW S, IsFiniteSet(S), NEW f, \A x \in S : f[x] \in Nat
  PROVE  SumOver(f, S) \in Nat
<1>1. PICK g : Adds(g, f, S) /\ SumOver(f, S) = g[S]
  BY SumAdds
<1>2. QED
  BY <1>1 DEF Adds

(* A sum over nothing but zeros.                                           *)
LEMMA SumZero ==
  ASSUME NEW S, IsFiniteSet(S), NEW f, \A x \in S : f[x] = 0
  PROVE  SumOver(f, S) = 0
<1>1. PICK g : Adds(g, f, S) /\ SumOver(f, S) = g[S]
  BY SumAdds
<1> DEFINE Bad == {s \in SUBSET S : g[s] # 0}
<1>2. ASSUME Bad # {} PROVE FALSE
  <2>1. Bad \in SUBSET SUBSET S /\ {} \notin Bad
    BY <1>1 DEF Adds
  <2>2. PICK s \in Bad : s # {} /\ PickOf(s) \in s /\ s \ {PickOf(s)} \in (SUBSET S) \ Bad
    <3> HIDE DEF Bad
    <3>1. QED
      BY <1>2, <2>1, LeastSubset
  <2>3. g[s] = f[PickOf(s)] + g[s \ {PickOf(s)}] /\ f[PickOf(s)] = 0
    BY <1>1, <2>2 DEF Adds
  <2>4. QED
    BY <2>2, <2>3
<1>3. QED
  BY <1>1, <1>2

(* Smaller values have a smaller sum.                                      *)
LEMMA SumSmaller ==
  ASSUME NEW S, IsFiniteSet(S), NEW f, NEW h, \A x \in S : f[x] \in Nat /\ h[x] \in Nat /\ h[x] <= f[x]
  PROVE  SumOver(h, S) <= SumOver(f, S)
<1>1. PICK g : Adds(g, f, S) /\ SumOver(f, S) = g[S]
  BY SumAdds
<1>2. PICK k : Adds(k, h, S) /\ SumOver(h, S) = k[S]
  BY SumAdds
<1> DEFINE Bad == {s \in SUBSET S : ~(k[s] <= g[s])}
<1>3. ASSUME Bad # {} PROVE FALSE
  <2>1. Bad \in SUBSET SUBSET S /\ {} \notin Bad
    BY <1>1, <1>2 DEF Adds
  <2>2. PICK s \in Bad : s # {} /\ PickOf(s) \in s /\ s \ {PickOf(s)} \in (SUBSET S) \ Bad
    <3> HIDE DEF Bad
    <3>1. QED
      BY <1>3, <2>1, LeastSubset
  <2>3. /\ g[s] = f[PickOf(s)] + g[s \ {PickOf(s)}] /\ k[s] = h[PickOf(s)] + k[s \ {PickOf(s)}]
        /\ g[s \ {PickOf(s)}] \in Nat /\ k[s \ {PickOf(s)}] \in Nat /\ PickOf(s) \in S
    BY <1>1, <1>2, <2>2 DEF Adds
  <2>4. QED
    BY <2>2, <2>3
<1>4. QED
  BY <1>1, <1>2, <1>3

(* A sum in which one value grows.                                         *)
LEMMA SumGrows ==
  ASSUME NEW S, IsFiniteSet(S), NEW f, NEW h, NEW i \in S, NEW d \in Nat,
         \A x \in S : f[x] \in Nat /\ h[x] = IF x = i THEN f[x] + d ELSE f[x]
  PROVE  SumOver(h, S) = SumOver(f, S) + d
<1>1. PICK g : Adds(g, f, S) /\ SumOver(f, S) = g[S]
  BY SumAdds
<1>2. PICK k : Adds(k, h, S) /\ SumOver(h, S) = k[S]
  BY SumAdds
<1> DEFINE Bad == {s \in SUBSET S : k[s] # g[s] + (IF i \in s THEN d ELSE 0)}
<1>3. ASSUME Bad # {} PROVE FALSE
  <2>1. Bad \in SUBSET SUBSET S /\ {} \notin Bad
    BY <1>1, <1>2 DEF Adds
  <2>2. PICK s \in Bad : s # {} /\ PickOf(s) \in s /\ s \ {PickOf(s)} \in (SUBSET S) \ Bad
    <3> HIDE DEF Bad
    <3>1. QED
      BY <1>3, <2>1, LeastSubset
  <2>3. /\ g[s] = f[PickOf(s)] + g[s \ {PickOf(s)}] /\ k[s] = h[PickOf(s)] + k[s \ {PickOf(s)}]
        /\ g[s \ {PickOf(s)}] \in Nat /\ k[s \ {PickOf(s)}] \in Nat /\ PickOf(s) \in S
    BY <1>1, <1>2, <2>2 DEF Adds
  <2>4. k[s \ {PickOf(s)}] = g[s \ {PickOf(s)}] + (IF i \in s \ {PickOf(s)} THEN d ELSE 0)
    BY <2>2
  <2>5. CASE PickOf(s) = i
    BY <2>2, <2>3, <2>4, <2>5
  <2>6. CASE PickOf(s) # i
    BY <2>2, <2>3, <2>4, <2>6
  <2>7. QED
    BY <2>5, <2>6
<1>4. k[S] = g[S] + d
  BY <1>3
<1>5. QED
  BY <1>1, <1>2, <1>4
-----------------------------------------------------------------------------
(***************************************************************************)
(* The ledger's sums by payment and by invoice.                            *)
(***************************************************************************)
Keys == Payments \X Invoices \X Nat
Shares == [Payments -> [Invoices -> Nat]]

InvIn(s, i) == SumOver([p \in Payments |-> s[p][i]], Payments)
PayIn(s, p) == SumOver(s[p], Invoices)

LEMMA SumsIn ==
  /\ \A i : InvSum(i) = InvIn(share, i) /\ InvSum(i)' = InvIn(share', i)
  /\ \A p : PaySum(p) = PayIn(share, p) /\ PaySum(p)' = PayIn(share', p)
  BY DEF InvSum, PaySum, InvIn, PayIn

LEMMA InvType == ASSUME NEW s \in Shares, NEW i \in Invoices PROVE InvIn(s, i) \in Nat
<1>1. IsFiniteSet(Payments) /\ \A p \in Payments : s[p][i] \in Nat
  BY LedgerAssumption DEF Shares
<1> DEFINE f == [p \in Payments |-> s[p][i]]
<1>2. \A p \in Payments : f[p] \in Nat
  BY <1>1
<1> HIDE DEF f
<1>3. SumOver(f, Payments) \in Nat
  BY <1>1, <1>2, SumType
<1> QED
  BY <1>3 DEF f, InvIn

LEMMA PayType == ASSUME NEW s \in Shares, NEW p \in Payments PROVE PayIn(s, p) \in Nat
<1>1. IsFiniteSet(Invoices) /\ \A i \in Invoices : s[p][i] \in Nat
  BY LedgerAssumption DEF Shares
<1> QED
  BY <1>1, SumType DEF PayIn

(* One payment's share of an invoice grows.                                *)
LEMMA InvGrows ==
  ASSUME NEW s \in Shares, NEW t \in Shares, NEW p \in Payments, NEW i \in Invoices, NEW d \in Nat,
         \A q \in Payments : t[q][i] = IF q = p THEN s[q][i] + d ELSE s[q][i]
  PROVE  InvIn(t, i) = InvIn(s, i) + d
<1> DEFINE f == [q \in Payments |-> s[q][i]]
           h == [q \in Payments |-> t[q][i]]
<1>1. IsFiniteSet(Payments) /\ \A q \in Payments : f[q] \in Nat /\ h[q] = IF q = p THEN f[q] + d ELSE f[q]
  BY LedgerAssumption DEF Shares
<1> HIDE DEF f, h
<1>2. SumOver(h, Payments) = SumOver(f, Payments) + d
  BY <1>1, SumGrows
<1> QED
  BY <1>2 DEF f, h, InvIn

LEMMA InvSame ==
  ASSUME NEW s \in Shares, NEW t \in Shares, NEW i \in Invoices, \A q \in Payments : t[q][i] = s[q][i]
  PROVE  InvIn(t, i) = InvIn(s, i)
<1>1. [q \in Payments |-> s[q][i]] = [q \in Payments |-> t[q][i]]
  OBVIOUS
<1> QED
  BY <1>1 DEF InvIn

(* The line an actor works on, its payment and its key are well formed.    *)
LEMMA LineType ==
  ASSUME TypeOK, NEW a \in Actors
  PROVE  /\ req[a].pay \in Payments /\ Line(a) \in Lines
         /\ Line(a).inv \in Invoices /\ Line(a).amt \in Nat /\ Key(a) \in Keys
<1>1. /\ req[a] \in Requests /\ line[a] \in 1..Len(req[a].lines)
  BY DEF TypeOK, ControlTypeOK
<1>2. req[a].pay \in Payments /\ req[a].lines \in Seq(Lines)
  BY <1>1, LedgerAssumption
<1>3. Line(a) \in Lines
  <2>1. \A s \in Seq(Lines) : \A n \in 1..Len(s) : s[n] \in Lines
    OBVIOUS
  <2>2. QED
    BY <1>1, <1>2, <2>1, Zenon DEF Line
<1>4. Line(a).inv \in Invoices /\ Line(a).amt \in Nat
  BY <1>3 DEF Lines
<1>5. QED
  BY <1>2, <1>3, <1>4 DEF Key, Keys

(* A recompute has an invoice to work on.                                  *)
LEMMA TargetType ==
  ASSUME TypeOK, NEW a \in Actors, pc[a] \in {"cRead", "cWrite"}
  PROVE  CacheTarget(a) \in todo[a] /\ CacheTarget(a) \in Invoices
<1>1. todo[a] # {} /\ todo[a] \subseteq Invoices
  BY DEF TypeOK, SyncTypeOK
<1>2. QED
  BY <1>1 DEF CacheTarget


LEMMA InitType == Init => TypeOK
<1>1. Requests # {} => (CHOOSE r \in Requests : TRUE) \in Requests
  OBVIOUS
<1>2. \A r \in Requests : 1 <= Len(r.lines)
  <2>1. \A s \in Seq(Lines) : Len(s) \in Nat
    OBVIOUS
  <2>2. QED
    BY <2>1, LedgerAssumption
<1>3. QED
  BY <1>1, <1>2, LedgerAssumption DEF Init, TypeOK, LedgerTypeOK, ControlTypeOK, TxTypeOK,
                                      SyncTypeOK, PCs, NoRow, Nothing

LEMMA ControlStep ==
  ASSUME ControlTypeOK, SyncTypeOK, NEW a \in Actors, NEW s \in PCs, GoTo(a, s),
         UNCHANGED <<req, line, requests>>, tries' \in [Actors -> Nat]
  PROVE  ControlTypeOK'
BY DEF ControlTypeOK, GoTo

LEMMA SyncStep ==
  ASSUME SyncTypeOK, ControlTypeOK, NEW a \in Actors, NEW s \in PCs, GoTo(a, s),
         UNCHANGED <<todo, seen, history>>, s \notin {"cRead", "cWrite"}
  PROVE  SyncTypeOK'
BY DEF SyncTypeOK, ControlTypeOK, GoTo, history

(* Going to the next line, or to the recomputes, or to COMMIT. *)
LEMMA NextLineType ==
  ASSUME SyncTypeOK, ControlTypeOK, NEW a \in Actors,
         NEW toSync \in SUBSET Invoices, NextLine(a, toSync),
         UNCHANGED <<req, tries, requests, seen, history>>
  PROVE  SyncTypeOK' /\ ControlTypeOK'
<1>1. CASE line[a] < Len(req[a].lines)
  <2>1. /\ line' = [line EXCEPT ![a] = line[a] + 1] /\ todo' = [todo EXCEPT ![a] = toSync]
        /\ pc' = [pc EXCEPT ![a] = "pLine"]
    BY <1>1 DEF NextLine, GoTo
  <2>2. \A r \in Requests : Len(r.lines) \in Nat
    <3>1. \A s \in Seq(Lines) : Len(s) \in Nat
      OBVIOUS
    <3>2. QED
      BY <3>1, LedgerAssumption
  <2>3. line[a] + 1 <= Len(req[a].lines)
    BY <1>1, <2>2 DEF ControlTypeOK
  <2>4. ControlTypeOK'
    BY <2>1, <2>3 DEF ControlTypeOK, PCs
  <2>5. SyncTypeOK'
    BY <2>1 DEF SyncTypeOK, ControlTypeOK, history
  <2>6. QED
    BY <2>4, <2>5
<1>2. CASE ~(line[a] < Len(req[a].lines))
  <2>1. PICK s \in {"commit", "cRead"} : GoTo(a, s) /\ (s = "cRead" => toSync # {})
    BY <1>2 DEF NextLine
  <2>2. UNCHANGED line /\ todo' = [todo EXCEPT ![a] = toSync]
    BY <1>2 DEF NextLine
  <2>3. ControlTypeOK'
    BY <2>1, <2>2 DEF ControlTypeOK, GoTo, PCs
  <2>4. SyncTypeOK'
    BY <2>1, <2>2 DEF SyncTypeOK, ControlTypeOK, GoTo, history
  <2>5. QED
    BY <2>3, <2>4
<1>3. QED
  BY <1>1, <1>2

(* The end of a transaction. *)
LEMMA ResetType ==
  ASSUME TypeOK, NEW a \in Actors, Reset(a), UNCHANGED <<req, line, seen, tries, requests, history>>
  PROVE  ControlTypeOK' /\ TxTypeOK' /\ SyncTypeOK'
<1>1. ControlTypeOK'
  BY DEF Reset, TypeOK, ControlTypeOK, GoTo, PCs
<1>2. TxTypeOK'
  BY DEF Reset, TypeOK, TxTypeOK, Nothing
<1>3. SyncTypeOK'
  BY DEF Reset, TypeOK, SyncTypeOK, ControlTypeOK, GoTo, history
<1>4. QED
  BY <1>1, <1>2, <1>3

LEMMA InsertType ==
  ASSUME TypeOK, NEW a \in Actors, NEW amt \in Nat, InsertPending(a, amt)
  PROVE  pend' \in [Actors -> [Invoices -> Nat]] /\ pendKeys' \in [Actors -> SUBSET Keys]
<1>1. Line(a).inv \in Invoices /\ Key(a) \in Keys
  BY LineType
<1>2. QED
  BY <1>1 DEF InsertPending, TypeOK, TxTypeOK, Keys

(* The sums are natural numbers.                                           *)
LEMMA SumTypes ==
  ASSUME TypeOK
  PROVE  /\ share \in Shares
         /\ \A i \in Invoices : InvSum(i) \in Nat
         /\ \A p \in Payments : PaySum(p) \in Nat
         /\ \A a \in Actors, i \in Invoices : SeenInv(a, i) \in Nat
         /\ \A a \in Actors : SeenPay(a) \in Nat
<1>1. share \in Shares /\ pend \in [Actors -> [Invoices -> Nat]]
  BY DEF TypeOK, LedgerTypeOK, TxTypeOK, Shares
<1>2. /\ \A i \in Invoices : InvSum(i) \in Nat
      /\ \A p \in Payments : PaySum(p) \in Nat
  BY <1>1, InvType, PayType, SumsIn
<1>3. \A a \in Actors, i \in Invoices : SeenInv(a, i) \in Nat
  BY <1>1, <1>2 DEF SeenInv
<1>4. ASSUME NEW a \in Actors PROVE SeenPay(a) \in Nat
  <2> DEFINE f == [i \in Invoices |-> share[req[a].pay][i] + pend[a][i]]
  <2>1. IsFiniteSet(Invoices) /\ \A i \in Invoices : f[i] \in Nat
    BY <1>1, LineType, LedgerAssumption DEF Shares
  <2> HIDE DEF f
  <2>2. SumOver(f, Invoices) \in Nat
    BY <2>1, SumType
  <2> QED
    BY <2>2 DEF f, SeenPay
<1> QED
  BY <1>1, <1>2, <1>3, <1>4

Refused(a) == KeyTaken(a) \/ ~PayThere(a) \/ ~InvThere(a)

(* Every statement of every request keeps the types. *)
LEMMA NextType ==
  ASSUME TypeOK, NEW a \in Actors, Step(a)
  PROVE  TypeOK'
<1> USE DEF ledgerVars, txVars, history, manualFrame, partialFrame, cacheFrame
<1>l. /\ req[a].pay \in Payments /\ Line(a) \in Lines
      /\ Line(a).inv \in Invoices /\ Line(a).amt \in Nat /\ Key(a) \in Keys
  BY LineType
<1>t. LedgerTypeOK /\ ControlTypeOK /\ TxTypeOK /\ SyncTypeOK
  BY DEF TypeOK
<1>u. /\ UNCHANGED <<ledgerVars, cached>> => LedgerTypeOK'
      /\ UNCHANGED txVars => TxTypeOK'
      /\ UNCHANGED tries => tries' \in [Actors -> Nat]
      /\ share \in [Payments -> [Invoices -> Nat]]
  BY <1>t DEF LedgerTypeOK, TxTypeOK, ControlTypeOK
<1>1. ASSUME NEW r \in Requests, Arrive(a, r) PROVE TypeOK'
  <2>1. 1 <= Len(r.lines)
    <3>1. \A s \in Seq(Lines) : Len(s) \in Nat
      OBVIOUS
    <3>2. QED
      BY <3>1, LedgerAssumption
  <2>2. PICK s \in {"mPay", "pSnap", "fRead"} : GoTo(a, s)
    BY <1>1 DEF Arrive
  <2>3. ControlTypeOK'
    BY <1>1, <1>t, <2>1, <2>2 DEF Arrive, ControlTypeOK, GoTo, PCs
  <2>4. SyncTypeOK'
    BY <1>1, <1>t, <2>2, SyncStep DEF Arrive, PCs
  <2>5. QED
    BY <1>1, <1>u, <2>3, <2>4 DEF Arrive, TypeOK
<1>2. CASE ManualCheckPayment(a) \/ ManualCheckInvoice(a) \/ ManualFinish(a) \/ ManualFault(a)
  <2>1. PICK s \in {"idle", "mInv", "mInsert", "mFail"} : GoTo(a, s)
    BY <1>2 DEF ManualCheckPayment, ManualCheckInvoice, ManualFinish, ManualFault
  <2>2. UNCHANGED <<manualFrame, share, isAllocated, tries>>
    BY <1>2 DEF ManualCheckPayment, ManualCheckInvoice, ManualFinish, ManualFault
  <2>3. QED
    BY <1>t, <1>u, <2>1, <2>2, ControlStep, SyncStep DEF TypeOK, PCs
<1>3. CASE ManualInsert(a)
  <2>1. LedgerTypeOK'
    BY <1>3, <1>l, <1>t DEF ManualInsert, LedgerTypeOK
  <2>2. ControlTypeOK'
    BY <1>3, <1>t DEF ManualInsert, ControlTypeOK, GoTo, PCs
  <2>3. SyncTypeOK'
    BY <1>3, <1>t, SyncStep DEF ManualInsert, PCs
  <2>4. QED
    BY <1>3, <1>u, <2>1, <2>2, <2>3 DEF ManualInsert, TypeOK
<1>4. CASE ManualFlag(a)
  <2>1. LedgerTypeOK'
    BY <1>4, <1>l, <1>t DEF ManualFlag, PayThere, LedgerTypeOK
  <2>2. QED
    BY <1>4, <1>t, <1>u, <2>1, ControlStep, SyncStep DEF ManualFlag, TypeOK, PCs
<1>5. CASE ManualFail(a)
  <2>1. PICK s \in {"idle", "mPay"} : GoTo(a, s)
    BY <1>5 DEF ManualFail
  <2>2. tries' \in [Actors -> Nat]
    <3>1. tries' = tries \/ tries' = [tries EXCEPT ![a] = tries[a] + 1]
      BY <1>5 DEF ManualFail
    <3>2. QED
      BY <1>t, <3>1 DEF ControlTypeOK
  <2>3. QED
    BY <1>5, <1>t, <1>u, <2>1, <2>2, ControlStep, SyncStep DEF ManualFail, TypeOK, PCs
<1>6. CASE PartialSnapshot(a) \/ PartialCheck(a) \/ FullRead(a)
  <2>1. PICK s \in {"idle", "pLine", "pInsert", "fUpdate"} : GoTo(a, s)
    BY <1>6 DEF PartialSnapshot, PartialCheck, FullRead
  <2>2. UNCHANGED <<partialFrame, line, txVars, todo>>
    BY <1>6 DEF PartialSnapshot, PartialCheck, FullRead
  <2>3. QED
    BY <1>t, <1>u, <2>1, <2>2, ControlStep, SyncStep DEF TypeOK, PCs
<1>7. todo[a] \in SUBSET Invoices /\ todo[a] \cup {Line(a).inv} \in SUBSET Invoices
  BY <1>l, <1>t DEF SyncTypeOK
<1>8. CASE PartialSkip(a)
  <2>1. NextLine(a, todo[a])
    BY <1>8 DEF PartialSkip
  <2>2. UNCHANGED <<partialFrame, txVars>>
    BY <1>8 DEF PartialSkip
  <2>3. QED
    BY <1>t, <1>u, <1>7, <2>1, <2>2, NextLineType DEF TypeOK
<1>9. CASE PartialReject(a)
  BY <1>9, <1>u, ResetType DEF PartialReject, Rollback, TypeOK
<1>10. CASE PartialInsert(a)
  <2>1. ControlTypeOK' /\ SyncTypeOK'
    BY <1>10, <1>t, <1>7, NextLineType DEF PartialInsert
  <2>2. TxTypeOK'
    BY <1>10, <1>l, <1>t, InsertType DEF PartialInsert, TxTypeOK, Keys
  <2>3. QED
    BY <1>10, <1>u, <2>1, <2>2 DEF PartialInsert, TypeOK
<1>11. CASE PartialInsertFails(a)
  <2>1. NextLine(a, todo[a])
    BY <1>11 DEF PartialInsertFails
  <2>2. /\ UNCHANGED <<partialFrame, pend, pendKeys, pendFlag>>
        /\ aborted' = [aborted EXCEPT ![a] = TRUE]
    BY <1>11 DEF PartialInsertFails
  <2>3. TxTypeOK'
    BY <1>t, <2>2 DEF TxTypeOK
  <2>4. QED
    BY <1>t, <1>u, <1>7, <2>1, <2>2, <2>3, NextLineType DEF TypeOK
<1>12. CASE FullUpdate(a)
  <2>1. PICK s \in {"commit", "fInsert"} : GoTo(a, s)
    BY <1>12 DEF FullUpdate
  <2>2. TxTypeOK'
    BY <1>12, <1>t DEF FullUpdate, PayThere, TxTypeOK
  <2>3. QED
    BY <1>12, <1>t, <1>u, <2>1, <2>2, ControlStep, SyncStep DEF FullUpdate, TypeOK, PCs
<1>13. CASE FullInsert(a)
  <2>1. CASE Refused(a)
    <3>1. TxTypeOK'
      BY <1>13, <1>t, <2>1 DEF FullInsert, Refused, TxTypeOK
    <3>2. QED
      BY <1>13, <1>t, <1>u, <2>1, <3>1, ControlStep, SyncStep DEF FullInsert, Refused, TypeOK, PCs
  <2>2. CASE ~Refused(a)
    <3>1. PayAmount[req[a].pay] \in Nat
      BY <1>l, LedgerAssumption
    <3>2. TxTypeOK'
      BY <1>13, <1>t, <2>2, <3>1, InsertType DEF FullInsert, Refused, TxTypeOK, Keys
    <3>3. ControlTypeOK'
      BY <1>13, <1>t, <1>u, <2>2, ControlStep DEF FullInsert, Refused, PCs
    <3>4. SyncTypeOK'
      <4>1. /\ todo' = [todo EXCEPT ![a] = {Line(a).inv}] /\ seen' = seen
            /\ pc' = [pc EXCEPT ![a] = "cRead"]
            /\ UNCHANGED history
        BY <1>13, <2>2 DEF FullInsert, Refused, GoTo
      <4>2. todo' \in [Actors -> SUBSET Invoices]
        BY <1>l, <1>t, <4>1 DEF SyncTypeOK
      <4>3. ASSUME NEW b \in Actors, pc'[b] \in {"cRead", "cWrite"} PROVE todo'[b] # {}
        <5>1. CASE b = a
          BY <1>t, <4>1, <5>1 DEF SyncTypeOK
        <5>2. CASE b # a
          BY <1>t, <4>1, <4>3, <5>2 DEF SyncTypeOK, ControlTypeOK
        <5>3. QED
          BY <5>1, <5>2
      <4>4. QED
        BY <1>t, <4>1, <4>2, <4>3 DEF SyncTypeOK, history
    <3>5. QED
      BY <1>13, <1>u, <3>2, <3>3, <3>4 DEF FullInsert, Refused, TypeOK
  <2>3. QED
    BY <2>1, <2>2
<1>14. CASE CacheRead(a)
  <2>1. seen' \in [Actors -> Nat]
    BY <1>14, <1>t, TargetType, SumTypes DEF CacheRead, SyncTypeOK
  <2>2. SyncTypeOK'
    BY <1>14, <1>t, <2>1 DEF CacheRead, SyncTypeOK, ControlTypeOK, GoTo
  <2>3. QED
    BY <1>14, <1>t, <1>u, <2>2, ControlStep DEF CacheRead, TypeOK, PCs
<1>15. CASE CacheWrite(a)
  <2>1. CacheTarget(a) \in Invoices
    BY <1>15, TargetType DEF CacheWrite
  <2>2. LedgerTypeOK'
    BY <1>15, <1>t, <2>1 DEF CacheWrite, LedgerTypeOK, SyncTypeOK
  <2>3. PICK s \in {"commit", "cRead"} : GoTo(a, s) /\ (s = "cRead" => todo'[a] # {})
    BY <1>15 DEF CacheWrite
  <2>4. SyncTypeOK'
    BY <1>15, <1>t, <2>3 DEF CacheWrite, SyncTypeOK, ControlTypeOK, GoTo
  <2>5. QED
    BY <1>15, <1>t, <1>u, <2>2, <2>3, <2>4, ControlStep DEF CacheWrite, TypeOK, PCs
<1>16. CASE Commit(a)
  <2>1. LedgerTypeOK'
    <3>1. pend[a] \in [Invoices -> Nat] /\ pendFlag[a] \in BOOLEAN /\ pendKeys[a] \subseteq Keys
      BY <1>t DEF TxTypeOK, Keys
    <3>2. CASE aborted[a]
      BY <1>16, <1>u, <3>2 DEF Commit
    <3>3. CASE ~aborted[a]
      <4>1. share' \in [Payments -> [Invoices -> Nat]]
        <5>1. [i \in Invoices |-> share[req[a].pay][i] + pend[a][i]] \in [Invoices -> Nat]
          BY <1>l, <1>u, <3>1
        <5>2. QED
          BY <1>16, <1>l, <1>u, <3>3, <5>1 DEF Commit
      <4>3. keys' \subseteq Keys
        BY <1>16, <1>t, <3>1, <3>3 DEF Commit, LedgerTypeOK, Keys
      <4>4. isAllocated' \in [Payments -> BOOLEAN]
        BY <1>16, <1>l, <1>t, <3>1, <3>3 DEF Commit, LedgerTypeOK
      <4>5. QED
        BY <1>16, <1>t, <3>3, <4>1, <4>3, <4>4 DEF Commit, LedgerTypeOK, Keys
    <3>4. QED
      BY <3>2, <3>3
  <2>2. QED
    BY <1>16, <2>1, ResetType DEF Commit, TypeOK
<1>17. QED
  BY <1>1, <1>2, <1>3, <1>4, <1>5, <1>6, <1>8, <1>9, <1>10, <1>11, <1>12, <1>13, <1>14,
     <1>15, <1>16 DEF Step

-----------------------------------------------------------------------------
(***************************************************************************)
(* The cache.                                                              *)
(***************************************************************************)
(* The aggregate a recompute has read is still covered when it is written, *)
(* by the ledger and by what was deleted since.                            *)
SeenBacked ==
  \A a \in Actors : pc[a] = "cWrite" => seen[a] <= InvSum(CacheTarget(a)) + missed[a]

(* An invoice to recompute has a row of the transaction, so it is not      *)
(* deleted before the transaction ends.                                    *)
Held ==
  \A a \in Actors :
    /\ \A i \in todo[a] : pend[a][i] # 0
    /\ pc[a] = "pInsert" => Line(a).amt # 0

IInv == TypeOK /\ CacheBacked /\ SeenBacked /\ Held

\* What a step of actor a does to the ledger and to its transaction.
Keeps(a) == share' = share /\ pend' = pend
Allocates(a) ==
  /\ pc[a] = "mInsert"
  /\ share' = [share EXCEPT ![req[a].pay][Line(a).inv] = @ + Line(a).amt] /\ pend' = pend
Inserts(a, amt) ==
  share' = share /\ pend' = [pend EXCEPT ![a][Line(a).inv] = @ + amt]
Drops(a) == share' = share /\ pend' = [pend EXCEPT ![a] = Nothing]
Commits(a) ==
  /\ pc[a] = "commit" /\ pend' = [pend EXCEPT ![a] = Nothing]
  /\ share' = [share EXCEPT ![req[a].pay] = [i \in Invoices |-> @[i] + pend[a][i]]]

LEMMA Effects ==
  ASSUME NEW a \in Actors, Step(a)
  PROVE  /\ \/ Keeps(a) \/ Allocates(a) \/ Drops(a) \/ Commits(a)
            \/ pc[a] = "pInsert" /\ Inserts(a, Line(a).amt)
            \/ pc[a] = "fInsert" /\ Inserts(a, PayAmount[req[a].pay])
         /\ UNCHANGED <<payRows, invRows>>
<1> USE DEF ledgerVars, txVars, manualFrame, partialFrame, cacheFrame
<1>1. ASSUME NEW r \in Requests, Arrive(a, r) PROVE Keeps(a) /\ UNCHANGED <<payRows, invRows>>
  BY <1>1 DEF Arrive, Keeps
<1>2. CASE \/ ManualCheckPayment(a) \/ ManualCheckInvoice(a) \/ ManualFlag(a) \/ ManualFinish(a)
           \/ ManualFault(a) \/ ManualFail(a)
  BY <1>2 DEF ManualCheckPayment, ManualCheckInvoice, ManualFlag, ManualFinish, ManualFault,
     ManualFail, Keeps
<1>3. CASE ManualInsert(a)
  BY <1>3 DEF ManualInsert, Allocates
<1>4. CASE \/ PartialSnapshot(a) \/ PartialCheck(a) \/ PartialSkip(a) \/ PartialInsertFails(a)
           \/ FullRead(a) \/ FullUpdate(a) \/ CacheRead(a) \/ CacheWrite(a)
  BY <1>4 DEF PartialSnapshot, PartialCheck, PartialSkip, PartialInsertFails, FullRead, FullUpdate,
     CacheRead, CacheWrite, Keeps
<1>5. CASE PartialReject(a)
  BY <1>5 DEF PartialReject, Rollback, Reset, Drops
<1>6. CASE PartialInsert(a)
  BY <1>6 DEF PartialInsert, InsertPending, Inserts
<1>7. CASE FullInsert(a)
  BY <1>7 DEF FullInsert, InsertPending, Inserts, Keeps
<1>8. CASE Commit(a)
  BY <1>8 DEF Commit, Reset, Drops, Commits
<1> QED
  BY <1>1, <1>2, <1>3, <1>4, <1>5, <1>6, <1>7, <1>8 DEF Step

(* What such a step does to the sum of an invoice.                         *)
LEMMA InvSteps ==
  ASSUME TypeOK, TypeOK', NEW a \in Actors, NEW i \in Invoices,
         share' = share \/ Allocates(a) \/ Commits(a)
  PROVE  InvIn(share', i) =
           InvIn(share, i) + (IF share' = share THEN 0
                              ELSE IF Allocates(a) THEN IF i = Line(a).inv THEN Line(a).amt ELSE 0
                              ELSE pend[a][i])
<1>1. /\ share \in Shares /\ share' \in Shares /\ req[a].pay \in Payments
      /\ Line(a).inv \in Invoices /\ Line(a).amt \in Nat /\ pend[a][i] \in Nat
      /\ InvIn(share, i) \in Nat
  BY LineType, InvType DEF TypeOK, LedgerTypeOK, TxTypeOK, Shares
<1>2. CASE share' = share
  BY <1>1, <1>2
<1>3. CASE share' # share /\ Allocates(a)
  <2>1. \A q \in Payments : share'[q][i] = IF q = req[a].pay
          THEN share[q][i] + (IF i = Line(a).inv THEN Line(a).amt ELSE 0) ELSE share[q][i]
    BY <1>1, <1>3 DEF Allocates, Shares
  <2>2. (IF i = Line(a).inv THEN Line(a).amt ELSE 0) \in Nat
    BY <1>1
  <2>3. QED
    BY <1>1, <1>3, <2>1, <2>2, InvGrows
<1>4. CASE share' # share /\ ~Allocates(a)
  <2>1. Commits(a)
    BY <1>4
  <2>2. \A q \in Payments : share'[q][i] = IF q = req[a].pay THEN share[q][i] + pend[a][i] ELSE share[q][i]
    BY <1>1, <2>1 DEF Commits, Shares
  <2>3. QED
    BY <1>1, <1>4, <2>2, InvGrows
<1> QED
  BY <1>2, <1>3, <1>4

LEMMA LedgerGrows ==
  ASSUME TypeOK, TypeOK', NEW a \in Actors, Step(a), NEW i \in Invoices
  PROVE  InvIn(share, i) <= InvIn(share', i) /\ InvIn(share, i) \in Nat /\ InvIn(share', i) \in Nat
<1>1. share' = share \/ Allocates(a) \/ Commits(a)
  BY Effects DEF Keeps, Drops, Inserts
<1>2. /\ share \in Shares /\ share' \in Shares /\ Line(a).amt \in Nat /\ pend[a][i] \in Nat
  BY LineType DEF TypeOK, LedgerTypeOK, TxTypeOK, Shares
<1>3. InvIn(share, i) \in Nat /\ InvIn(share', i) \in Nat
  BY <1>2, InvType
<1> QED
  BY <1>1, <1>2, <1>3, InvSteps

(* Only the insert of an actor gives it an invoice to recompute.           *)
LEMMA HeldNext == ASSUME TypeOK, TypeOK', Held, NEW a \in Actors, Step(a) PROVE Held'
<1> USE DEF ledgerVars, txVars, manualFrame, partialFrame, cacheFrame, GoTo
<1>t. /\ pc \in [Actors -> PCs] /\ todo \in [Actors -> SUBSET Invoices] /\ req \in [Actors -> Requests]
      /\ pend \in [Actors -> [Invoices -> Nat]] /\ line \in [Actors -> Nat \ {0}]
      /\ Line(a).inv \in Invoices /\ Line(a).amt \in Nat /\ req[a].pay \in Payments
  BY LineType DEF TypeOK, ControlTypeOK, TxTypeOK, SyncTypeOK
<1>1. ASSUME NEW b \in Actors, b # a
      PROVE  /\ pc'[b] = pc[b] /\ todo'[b] = todo[b] /\ pend'[b] = pend[b]
             /\ line'[b] = line[b] /\ req'[b] = req[b]
  <2>1. pc'[b] = pc[b] /\ todo'[b] = todo[b] /\ line'[b] = line[b] /\ req'[b] = req[b]
    BY <1>t, <1>1 DEF Step, Arrive, ManualCheckPayment, ManualCheckInvoice, ManualInsert,
       ManualFlag, ManualFinish, ManualFault, ManualFail, PartialSnapshot, PartialCheck,
       PartialSkip, PartialReject, Rollback, PartialInsert, PartialInsertFails, FullRead,
       FullUpdate, FullInsert, CacheRead, CacheWrite, Commit, NextLine, Reset
  <2>2. pend'[b] = pend[b]
    BY <1>t, <1>1, Effects DEF Keeps, Allocates, Inserts, Drops, Commits
  <2>3. QED
    BY <2>1, <2>2
<1>2. SUFFICES (\A i \in todo'[a] : pend'[a][i] # 0) /\ (pc'[a] = "pInsert" => Line(a)'.amt # 0)
  BY <1>1 DEF Held, Line
<1>h. \A i \in todo[a] : pend[a][i] # 0
  BY DEF Held
<1>3. CASE PartialInsert(a)
  <2>1. pc'[a] # "pInsert" /\ todo'[a] = todo[a] \cup {Line(a).inv} /\ Line(a).amt # 0
    BY <1>3, <1>t DEF PartialInsert, NextLine, Held
  <2>2. pend'[a] = [pend[a] EXCEPT ![Line(a).inv] = pend[a][Line(a).inv] + Line(a).amt]
    BY <1>3, <1>t DEF PartialInsert, InsertPending
  <2>3. ASSUME NEW i \in todo'[a] PROVE pend'[a][i] # 0
    <3>1. i \in Invoices /\ pend[a] \in [Invoices -> Nat]
      BY <1>t, <2>1, <2>3
    <3>2. CASE i = Line(a).inv
      BY <1>t, <2>1, <2>2, <3>1, <3>2
    <3>3. CASE i # Line(a).inv
      BY <1>h, <1>t, <2>1, <2>2, <2>3, <3>1, <3>3
    <3>4. QED
      BY <3>2, <3>3
  <2>4. QED
    BY <2>1, <2>3
<1>4. CASE FullInsert(a)
  <2>1. pc'[a] # "pInsert"
    BY <1>4, <1>t DEF FullInsert
  <2>2. CASE Refused(a)
    BY <1>4, <1>h, <2>1, <2>2 DEF FullInsert, Refused
  <2>3. CASE ~Refused(a)
    <3>1. todo'[a] = {Line(a).inv} /\ PayAmount[req[a].pay] \in Nat \ {0}
      BY <1>4, <1>t, <2>3, LedgerAssumption DEF FullInsert, Refused
    <3>2. pend'[a][Line(a).inv] = pend[a][Line(a).inv] + PayAmount[req[a].pay]
      BY <1>4, <1>t, <2>3 DEF FullInsert, InsertPending, Refused
    <3>3. QED
      BY <1>t, <2>1, <3>1, <3>2
  <2>4. QED
    BY <2>2, <2>3
<1>5. CASE PartialReject(a) \/ Commit(a)
  BY <1>5, <1>t DEF PartialReject, Rollback, Commit, Reset
<1>6. CASE PartialCheck(a)
  <2>1. Line(a)' = Line(a) /\ Line(a).amt > 0 /\ UNCHANGED <<todo, pend>>
    BY <1>6 DEF PartialCheck, Line
  <2>2. QED
    BY <1>h, <1>t, <2>1
<1>7. CASE CacheWrite(a)
  BY <1>7, <1>h, <1>t DEF CacheWrite
<1>8. CASE PartialSkip(a) \/ PartialInsertFails(a)
  BY <1>8, <1>h, <1>t DEF PartialSkip, PartialInsertFails, NextLine
<1>9. CASE PartialSnapshot(a) \/ FullRead(a) \/ FullUpdate(a) \/ CacheRead(a)
  BY <1>9, <1>h, <1>t DEF PartialSnapshot, FullRead, FullUpdate, CacheRead
<1>10. CASE \/ ManualCheckPayment(a) \/ ManualCheckInvoice(a) \/ ManualInsert(a) \/ ManualFlag(a)
            \/ ManualFinish(a) \/ ManualFault(a) \/ ManualFail(a)
  BY <1>10, <1>h, <1>t DEF ManualCheckPayment, ManualCheckInvoice, ManualInsert, ManualFlag,
     ManualFinish, ManualFault, ManualFail
<1>11. ASSUME NEW r \in Requests, Arrive(a, r)
       PROVE  (\A i \in todo'[a] : pend'[a][i] # 0) /\ (pc'[a] = "pInsert" => Line(a)'.amt # 0)
  BY <1>11, <1>h, <1>t DEF Arrive
<1> QED
  BY <1>3, <1>4, <1>5, <1>6, <1>7, <1>8, <1>9, <1>10, <1>11 DEF Step

(* A step of a request other than a recompute's two statements.            *)
LEMMA OtherStep ==
  ASSUME TypeOK, NEW a \in Actors, Step(a), ~CacheRead(a), ~CacheWrite(a)
  PROVE  /\ UNCHANGED <<cached, unseen>>
         /\ \A b \in Actors : pc'[b] = "cWrite" =>
              pc[b] = "cWrite" /\ todo'[b] = todo[b] /\ seen'[b] = seen[b] /\ missed'[b] = missed[b]
<1> USE DEF GoTo, ledgerVars, txVars, history, manualFrame, partialFrame
<1>t. /\ pc \in [Actors -> PCs] /\ todo \in [Actors -> SUBSET Invoices] /\ seen \in [Actors -> Nat]
  BY DEF TypeOK, ControlTypeOK, SyncTypeOK
<1>1. cached' = cached /\ seen' = seen /\ unseen' = unseen /\ missed' = missed
  BY DEF Step, Arrive, ManualCheckPayment, ManualCheckInvoice, ManualInsert, ManualFlag,
     ManualFinish, ManualFault, ManualFail, PartialSnapshot, PartialCheck, PartialSkip,
     PartialReject, Rollback, PartialInsert, PartialInsertFails, FullRead, FullUpdate, FullInsert,
     Commit
<1>2. ASSUME NEW b \in Actors, b # a PROVE pc'[b] = pc[b] /\ todo'[b] = todo[b]
  BY <1>t, <1>2 DEF Step, Arrive, ManualCheckPayment, ManualCheckInvoice, ManualInsert,
     ManualFlag, ManualFinish, ManualFault, ManualFail, PartialSnapshot, PartialCheck, PartialSkip,
     PartialReject, Rollback, PartialInsert, PartialInsertFails, FullRead, FullUpdate, FullInsert,
     Commit, NextLine, Reset
<1>3. pc'[a] # "cWrite"
  BY <1>t DEF Step, Arrive, ManualCheckPayment, ManualCheckInvoice, ManualInsert,
     ManualFlag, ManualFinish, ManualFault, ManualFail, PartialSnapshot, PartialCheck, PartialSkip,
     PartialReject, Rollback, PartialInsert, PartialInsertFails, FullRead, FullUpdate, FullInsert,
     Commit, NextLine, Reset
<1>4. QED
  BY <1>1, <1>2, <1>3

(* A step that keeps what is under way and takes nothing from an invoice   *)
(* without remembering it.                                                 *)
LEMMA Backed ==
  ASSUME IInv, TypeOK',
         \A i \in Invoices : InvIn(share, i) <= InvIn(share', i) + unseen'[i] - unseen[i],
         \A i \in Invoices : cached'[i] = cached[i],
         \A b \in Actors : pc'[b] = "cWrite" =>
           /\ pc[b] = "cWrite" /\ todo'[b] = todo[b] /\ seen'[b] = seen[b]
           /\ InvIn(share, CacheTarget(b)) <= InvIn(share', CacheTarget(b)) + missed'[b] - missed[b]
  PROVE  CacheBacked' /\ SeenBacked'
<1>t. /\ TypeOK /\ cached \in [Invoices -> Nat \cup {NoRow}] /\ unseen \in [Invoices -> Nat]
      /\ unseen' \in [Invoices -> Nat] /\ share \in Shares /\ share' \in Shares
      /\ seen \in [Actors -> Nat] /\ missed \in [Actors -> Nat] /\ missed' \in [Actors -> Nat]
  BY DEF IInv, TypeOK, LedgerTypeOK, SyncTypeOK, Shares
<1>1. ASSUME NEW i \in Invoices PROVE cached'[i] <= InvIn(share', i) + unseen'[i]
  <2>1. cached[i] \in Int /\ unseen[i] \in Nat /\ unseen'[i] \in Nat /\ cached'[i] = cached[i]
    BY <1>t DEF NoRow
  <2>2. InvIn(share, i) \in Nat /\ InvIn(share', i) \in Nat
    BY <1>t, InvType
  <2>3. cached[i] <= InvIn(share, i) + unseen[i]
    BY SumsIn DEF IInv, CacheBacked
  <2>4. InvIn(share, i) <= InvIn(share', i) + unseen'[i] - unseen[i]
    OBVIOUS
  <2>5. QED
    BY <2>1, <2>2, <2>3, <2>4
<1>2. ASSUME NEW b \in Actors, pc'[b] = "cWrite"
      PROVE  seen'[b] <= InvIn(share', CacheTarget(b)') + missed'[b]
  <2>1. CacheTarget(b)' = CacheTarget(b)
    BY <1>2 DEF CacheTarget
  <2>2. CacheTarget(b) \in Invoices
    BY <1>2, <1>t, TargetType
  <2>3. seen[b] <= InvIn(share, CacheTarget(b)) + missed[b]
    BY <1>2, SumsIn DEF IInv, SeenBacked
  <2>4. InvIn(share, CacheTarget(b)) <= InvIn(share', CacheTarget(b)) + missed'[b] - missed[b]
    BY <1>2
  <2>5. InvIn(share, CacheTarget(b)) \in Nat /\ InvIn(share', CacheTarget(b)) \in Nat
    BY <1>t, <2>2, InvType
  <2>6. seen[b] \in Nat /\ missed[b] \in Nat /\ missed'[b] \in Nat /\ seen'[b] = seen[b]
    BY <1>t, <1>2
  <2>7. seen[b] <= InvIn(share', CacheTarget(b)) + missed'[b]
    BY <2>3, <2>4, <2>5, <2>6
  <2>8. QED
    BY <2>1, <2>6, <2>7
<1>3. CacheBacked'
  BY <1>1, SumsIn DEF CacheBacked
<1>4. SeenBacked'
  BY <1>2, SumsIn DEF SeenBacked
<1>5. QED
  BY <1>3, <1>4

(* The two statements of a recompute. *)
LEMMA RecomputeStep ==
  ASSUME IInv, TypeOK', NEW a \in Actors, CacheRead(a) \/ CacheWrite(a)
  PROVE  CacheBacked' /\ SeenBacked'
<1> USE DEF ledgerVars, txVars, cacheFrame, GoTo
<1>t. /\ TypeOK /\ pc \in [Actors -> PCs] /\ todo \in [Actors -> SUBSET Invoices]
      /\ seen \in [Actors -> Nat] /\ missed \in [Actors -> Nat] /\ unseen \in [Invoices -> Nat]
      /\ cached \in [Invoices -> Nat \cup {NoRow}] /\ share \in Shares /\ share' = share
  BY DEF IInv, TypeOK, LedgerTypeOK, ControlTypeOK, SyncTypeOK, Shares, CacheRead, CacheWrite
<1>i. CacheTarget(a) \in Invoices
  BY <1>t, TargetType DEF CacheRead, CacheWrite
<1>0. InvIn(share, CacheTarget(a)) \in Nat
  BY <1>t, <1>i, InvType
<1>b. /\ \A i \in Invoices : cached[i] <= InvIn(share, i) + unseen[i]
      /\ \A b \in Actors : pc[b] = "cWrite" => seen[b] <= InvIn(share, CacheTarget(b)) + missed[b]
  BY SumsIn DEF IInv, CacheBacked, SeenBacked
<1>1. CASE CacheRead(a)
  <2>1. UNCHANGED <<cached, unseen, todo, share>>
    BY <1>1 DEF CacheRead
  <2>2. CacheBacked'
    BY <1>b, <2>1, SumsIn DEF CacheBacked
  <2>3. ASSUME NEW b \in Actors, pc'[b] = "cWrite" PROVE seen'[b] <= InvIn(share', CacheTarget(b)') + missed'[b]
    <3>1. CacheTarget(b)' = CacheTarget(b)
      BY <2>1 DEF CacheTarget
    <3>2. CASE b = a
      <4>1. seen'[a] = InvIn(share, CacheTarget(a)) /\ missed'[a] = 0
        BY <1>1, <1>t, SumsIn DEF CacheRead
      <4>2. QED
        BY <1>0, <2>1, <3>1, <3>2, <4>1
    <3>3. CASE b # a
      <4>1. pc[b] = "cWrite" /\ seen'[b] = seen[b] /\ missed'[b] = missed[b]
        BY <1>1, <1>t, <2>3, <3>3 DEF CacheRead
      <4>2. QED
        BY <1>b, <2>1, <3>1, <4>1
    <3>4. QED
      BY <3>2, <3>3
  <2>4. SeenBacked'
    BY <2>3, SumsIn DEF SeenBacked
  <2>5. QED
    BY <2>2, <2>4
<1>2. CASE CacheWrite(a)
  <2>1. /\ pc[a] = "cWrite" /\ UNCHANGED <<seen, missed, share>>
        /\ cached' = [cached EXCEPT ![CacheTarget(a)] = seen[a]]
        /\ unseen' = [unseen EXCEPT ![CacheTarget(a)] = missed[a]]
    BY <1>2 DEF CacheWrite
  <2>2. ASSUME NEW i \in Invoices PROVE cached'[i] <= InvIn(share', i) + unseen'[i]
    <3>1. CASE i = CacheTarget(a)
      BY <1>b, <1>t, <1>i, <2>1, <3>1
    <3>2. CASE i # CacheTarget(a)
      BY <1>b, <1>t, <1>i, <2>1, <3>2
    <3>3. QED
      BY <3>1, <3>2
  <2>3. ASSUME NEW b \in Actors, pc'[b] = "cWrite" PROVE seen'[b] <= InvIn(share', CacheTarget(b)') + missed'[b]
    <3>1. b # a /\ pc[b] = "cWrite" /\ todo'[b] = todo[b]
      BY <1>2, <1>t, <2>3 DEF CacheWrite
    <3>2. CacheTarget(b)' = CacheTarget(b)
      BY <3>1 DEF CacheTarget
    <3>3. QED
      BY <1>b, <2>1, <3>1, <3>2
  <2>4. CacheBacked' /\ SeenBacked'
    BY <2>2, <2>3, SumsIn DEF CacheBacked, SeenBacked
  <2>5. QED
    BY <2>4
<1>3. QED
  BY <1>1, <1>2

(* A deleted payment takes its shares along, a deleted invoice those it    *)
(* has.                                                                    *)
LEMMA DeletePaymentShares ==
  ASSUME TypeOK, NEW p \in Payments, DeletePayment(p)
  PROVE  /\ share' \in Shares
         /\ \A i \in Invoices : share[p][i] \in Nat /\ InvIn(share, i) = InvIn(share', i) + share[p][i]
<1>1. share \in Shares /\ share' = [share EXCEPT ![p] = Nothing] /\ Nothing \in [Invoices -> Nat]
  BY DEF TypeOK, LedgerTypeOK, Shares, DeletePayment, Nothing
<1>2. share' \in Shares
  BY <1>1 DEF Shares
<1>3. ASSUME NEW i \in Invoices
      PROVE  share[p][i] \in Nat /\ InvIn(share, i) = InvIn(share', i) + share[p][i]
  <2>1. share[p][i] \in Nat
    BY <1>1 DEF Shares
  <2>2. \A q \in Payments : share[q][i] = IF q = p THEN share'[q][i] + share[p][i] ELSE share'[q][i]
    BY <1>1, <2>1 DEF Shares, Nothing
  <2>3. QED
    BY <1>1, <1>2, <2>1, <2>2, InvGrows
<1>4. QED
  BY <1>2, <1>3

LEMMA DeletePaymentType ==
  ASSUME TypeOK, NEW p \in Payments, DeletePayment(p)
  PROVE  TypeOK'
<1> USE DEF deleteFrame, txVars
<1>1. /\ share' \in [Payments -> [Invoices -> Nat]]
      /\ \A i \in Invoices : share[p][i] \in Nat
  BY DeletePaymentShares DEF Shares
<1>2. LedgerTypeOK'
  BY <1>1 DEF TypeOK, LedgerTypeOK, DeletePayment
<1>3. missed' \in [Actors -> Nat]
  <2>1. missed \in [Actors -> Nat]
    BY DEF TypeOK, SyncTypeOK
  <2>2. ASSUME NEW a \in Actors PROVE (IF pc[a] = "cWrite" THEN share[p][CacheTarget(a)] ELSE 0) \in Nat
    BY <1>1, TargetType
  <2>3. missed' = [a \in Actors |-> missed[a] + IF pc[a] = "cWrite" THEN share[p][CacheTarget(a)] ELSE 0]
    BY DEF DeletePayment
  <2>4. QED
    BY <2>1, <2>2, <2>3
<1>4. unseen' \in [Invoices -> Nat]
  BY <1>1 DEF TypeOK, SyncTypeOK, DeletePayment
<1>5. SyncTypeOK'
  BY <1>3, <1>4 DEF TypeOK, SyncTypeOK, DeletePayment
<1>6. ControlTypeOK' /\ TxTypeOK'
  BY DEF TypeOK, ControlTypeOK, TxTypeOK, DeletePayment
<1>7. QED
  BY <1>2, <1>5, <1>6 DEF TypeOK

LEMMA DeleteInvoiceShares ==
  ASSUME TypeOK, NEW i \in Invoices, DeleteInvoice(i)
  PROVE  /\ share' \in Shares
         /\ \A j \in Invoices \ {i} : InvIn(share', j) = InvIn(share, j)
         /\ InvIn(share', i) = 0
<1>1. share \in Shares /\ share' = [p \in Payments |-> [share[p] EXCEPT ![i] = 0]]
  BY DEF TypeOK, LedgerTypeOK, Shares, DeleteInvoice
<1>2. share' \in Shares
  BY <1>1 DEF Shares
<1>3. ASSUME NEW j \in Invoices \ {i} PROVE InvIn(share', j) = InvIn(share, j)
  <2>1. \A q \in Payments : share'[q][j] = share[q][j]
    BY <1>1 DEF Shares
  <2>2. QED
    BY <1>1, <1>2, <2>1, InvSame
<1>4. InvIn(share', i) = 0
  <2> DEFINE f == [q \in Payments |-> share'[q][i]]
  <2>1. \A q \in Payments : f[q] = 0
    BY <1>1 DEF Shares
  <2> HIDE DEF f
  <2>2. SumOver(f, Payments) = 0
    BY <2>1, SumZero, LedgerAssumption
  <2>3. QED
    BY <2>2 DEF f, InvIn
<1>5. QED
  BY <1>2, <1>3, <1>4

LEMMA DeleteInvoiceType ==
  ASSUME TypeOK, NEW i \in Invoices, DeleteInvoice(i)
  PROVE  TypeOK'
<1> USE DEF deleteFrame, txVars
<1>1. share' \in [Payments -> [Invoices -> Nat]]
  BY DeleteInvoiceShares DEF Shares
<1>2. LedgerTypeOK'
  BY <1>1 DEF TypeOK, LedgerTypeOK, DeleteInvoice
<1>3. SyncTypeOK' /\ ControlTypeOK' /\ TxTypeOK'
  BY DEF TypeOK, SyncTypeOK, ControlTypeOK, TxTypeOK, DeleteInvoice
<1>4. QED
  BY <1>2, <1>3 DEF TypeOK

LEMMA RestartType == ASSUME TypeOK, Restart PROVE TypeOK'
<1> USE DEF ledgerVars, history
<1>1. LedgerTypeOK' /\ SyncTypeOK'
  BY DEF TypeOK, LedgerTypeOK, SyncTypeOK, Restart
<1>2. ControlTypeOK'
  BY DEF TypeOK, ControlTypeOK, Restart, PCs
<1>3. TxTypeOK'
  BY DEF TypeOK, TxTypeOK, Restart, Nothing
<1>4. QED
  BY <1>1, <1>2, <1>3 DEF TypeOK

LEMMA TypeNext == TypeOK /\ [Next]_vars => TypeOK'
<1>1. ASSUME TypeOK, UNCHANGED vars PROVE TypeOK'
  BY <1>1 DEF vars, ledgerVars, txVars, history, TypeOK, LedgerTypeOK, ControlTypeOK, TxTypeOK,
     SyncTypeOK, CacheTarget
<1>2. QED
  BY <1>1, NextType, DeletePaymentType, DeleteInvoiceType, RestartType DEF Next, Deletion

LEMMA InitInv == Init => IInv
<1> SUFFICES ASSUME Init PROVE IInv
  OBVIOUS
<1>1. TypeOK
  BY InitType
<1>2. CacheBacked
  <2>1. ASSUME NEW i \in Invoices PROVE cached[i] <= InvIn(share, i) + unseen[i]
    <3>1. cached[i] = -1 /\ unseen[i] = 0 /\ share \in Shares
      BY <1>1 DEF Init, NoRow, Nothing, TypeOK, LedgerTypeOK, Shares
    <3>2. InvIn(share, i) \in Nat
      BY <3>1, InvType
    <3>3. QED
      BY <3>1, <3>2
  <2>2. QED
    BY <2>1, SumsIn DEF CacheBacked
<1>3. SeenBacked /\ Held
  BY DEF Init, SeenBacked, Held
<1>4. QED
  BY <1>1, <1>2, <1>3 DEF IInv

LEMMA DeletePaymentInv == ASSUME IInv, NEW p \in Payments, DeletePayment(p) PROVE IInv'
<1> USE DEF deleteFrame, txVars
<1>t. TypeOK /\ TypeOK'
  BY DeletePaymentType DEF IInv
<1>1. \A i \in Invoices : share[p][i] \in Nat /\ InvIn(share, i) = InvIn(share', i) + share[p][i]
  BY <1>t, DeletePaymentShares
<1>s. share \in Shares /\ share' \in Shares
  BY <1>t, DeletePaymentShares DEF TypeOK, LedgerTypeOK, Shares
<1>2. ASSUME NEW i \in Invoices
      PROVE  /\ InvIn(share, i) <= InvIn(share', i) + unseen'[i] - unseen[i]
             /\ cached'[i] = cached[i]
  <2>1. unseen'[i] = unseen[i] + share[p][i] /\ unseen[i] \in Nat /\ cached' = cached
    BY <1>t DEF DeletePayment, TypeOK, SyncTypeOK
  <2>2. InvIn(share', i) \in Nat
    BY <1>s, InvType
  <2>3. QED
    BY <1>1, <2>1, <2>2
<1>3. ASSUME NEW b \in Actors, pc'[b] = "cWrite"
      PROVE  /\ pc[b] = "cWrite" /\ todo'[b] = todo[b] /\ seen'[b] = seen[b]
             /\ InvIn(share, CacheTarget(b)) <= InvIn(share', CacheTarget(b)) + missed'[b] - missed[b]
  <2>1. pc[b] = "cWrite" /\ todo'[b] = todo[b] /\ seen'[b] = seen[b]
    BY <1>3 DEF DeletePayment
  <2>2. CacheTarget(b) \in Invoices
    BY <1>t, <2>1, TargetType
  <2>3. missed'[b] = missed[b] + share[p][CacheTarget(b)] /\ missed[b] \in Nat
    BY <1>t, <2>1 DEF DeletePayment, TypeOK, SyncTypeOK
  <2>4. InvIn(share', CacheTarget(b)) \in Nat
    BY <1>s, <2>2, InvType
  <2>5. QED
    BY <1>1, <2>1, <2>2, <2>3, <2>4
<1>4. CacheBacked' /\ SeenBacked'
  BY <1>t, <1>2, <1>3, Backed
<1>5. Held'
  BY DEF IInv, Held, DeletePayment, Line
<1>6. QED
  BY <1>t, <1>4, <1>5 DEF IInv

LEMMA DeleteInvoiceInv == ASSUME IInv, NEW i \in Invoices, DeleteInvoice(i) PROVE IInv'
<1> USE DEF deleteFrame, txVars
<1>t. TypeOK /\ TypeOK'
  BY DeleteInvoiceType DEF IInv
<1>1. /\ \A j \in Invoices \ {i} : InvIn(share', j) = InvIn(share, j)
      /\ InvIn(share', i) = 0
  BY <1>t, DeleteInvoiceShares
<1>2. ASSUME NEW j \in Invoices PROVE cached'[j] <= InvIn(share', j) + unseen'[j]
  <2>1. CASE j = i
    <3>1. cached'[i] = -1 /\ unseen'[i] = 0
      BY <1>t DEF DeleteInvoice, NoRow, TypeOK, LedgerTypeOK, SyncTypeOK
    <3>2. QED
      BY <1>1, <2>1, <3>1
  <2>2. CASE j # i
    <3>1. cached'[j] = cached[j] /\ unseen'[j] = unseen[j]
      BY <1>t, <2>2 DEF DeleteInvoice, TypeOK, LedgerTypeOK, SyncTypeOK
    <3>2. cached[j] <= InvIn(share, j) + unseen[j]
      BY SumsIn DEF IInv, CacheBacked
    <3>3. QED
      BY <1>1, <2>2, <3>1, <3>2
  <2>3. QED
    BY <2>1, <2>2
<1>3. ASSUME NEW b \in Actors, pc'[b] = "cWrite"
      PROVE  seen'[b] <= InvIn(share', CacheTarget(b)') + missed'[b]
  <2>1. pc[b] = "cWrite" /\ UNCHANGED <<seen, missed, todo>>
    BY <1>3 DEF DeleteInvoice
  <2>2. CacheTarget(b) \in todo[b] /\ CacheTarget(b) \in Invoices
    BY <1>t, <2>1, TargetType
  <2>3. CacheTarget(b) # i
    BY <2>2 DEF IInv, Held, DeleteInvoice
  <2>4. CacheTarget(b)' = CacheTarget(b)
    BY <2>1 DEF CacheTarget
  <2>5. seen[b] <= InvIn(share, CacheTarget(b)) + missed[b]
    BY <2>1, SumsIn DEF IInv, SeenBacked
  <2>6. InvIn(share', CacheTarget(b)) = InvIn(share, CacheTarget(b))
    BY <1>1, <2>2, <2>3
  <2>7. QED
    BY <2>1, <2>4, <2>5, <2>6
<1>4. CacheBacked' /\ SeenBacked'
  BY <1>2, <1>3, SumsIn DEF CacheBacked, SeenBacked
<1>5. Held'
  BY DEF IInv, Held, DeleteInvoice, Line
<1>6. QED
  BY <1>t, <1>4, <1>5 DEF IInv

LEMMA NextInv == IInv /\ [Next]_vars => IInv'
<1> SUFFICES ASSUME IInv, [Next]_vars PROVE IInv'
  OBVIOUS
<1>t. TypeOK /\ TypeOK'
  BY TypeNext DEF IInv
<1>1. ASSUME NEW a \in Actors, Step(a) PROVE IInv'
  <2>1. Held'
    BY <1>1, <1>t, HeldNext DEF IInv
  <2>2. CASE CacheRead(a) \/ CacheWrite(a)
    BY <1>t, <2>1, <2>2, RecomputeStep DEF IInv
  <2>3. CASE ~(CacheRead(a) \/ CacheWrite(a))
    <3>1. /\ UNCHANGED <<cached, unseen>>
          /\ \A b \in Actors : pc'[b] = "cWrite" =>
               pc[b] = "cWrite" /\ todo'[b] = todo[b] /\ seen'[b] = seen[b] /\ missed'[b] = missed[b]
      BY <1>1, <1>t, <2>3, OtherStep
    <3>2. \A i \in Invoices : InvIn(share, i) <= InvIn(share', i)
            /\ InvIn(share, i) \in Nat /\ InvIn(share', i) \in Nat
      BY <1>1, <1>t, LedgerGrows
    <3>3. unseen \in [Invoices -> Nat] /\ missed \in [Actors -> Nat]
      BY <1>t DEF TypeOK, SyncTypeOK
    <3>4. \A i \in Invoices : InvIn(share, i) <= InvIn(share', i) + unseen'[i] - unseen[i]
      BY <3>1, <3>2, <3>3
    <3>5. ASSUME NEW b \in Actors, pc'[b] = "cWrite"
          PROVE  /\ pc[b] = "cWrite" /\ todo'[b] = todo[b] /\ seen'[b] = seen[b]
                 /\ InvIn(share, CacheTarget(b)) <= InvIn(share', CacheTarget(b)) + missed'[b] - missed[b]
      <4>1. pc[b] = "cWrite" /\ todo'[b] = todo[b] /\ seen'[b] = seen[b] /\ missed'[b] = missed[b]
        BY <3>1, <3>5
      <4>2. CacheTarget(b) \in Invoices
        BY <1>t, <4>1, TargetType
      <4>3. QED
        BY <3>2, <3>3, <4>1, <4>2
    <3>6. CacheBacked' /\ SeenBacked'
      BY <1>t, <3>1, <3>4, <3>5, Backed
    <3>7. QED
      BY <1>t, <2>1, <3>6 DEF IInv
  <2>4. QED
    BY <2>2, <2>3
<1>2. CASE Restart
  <2>1. share' = share /\ cached' = cached /\ unseen' = unseen
    BY <1>2 DEF Restart, ledgerVars, history
  <2>2. CacheBacked'
    BY <2>1, SumsIn DEF IInv, CacheBacked
  <2>3. SeenBacked' /\ Held'
    BY <1>2 DEF Restart, SeenBacked, Held
  <2>4. QED
    BY <1>t, <2>2, <2>3 DEF IInv
<1>3. CASE UNCHANGED vars
  <2>1. CacheBacked' /\ SeenBacked'
    BY <1>3, SumsIn DEF vars, ledgerVars, txVars, history, IInv, CacheBacked, SeenBacked, CacheTarget
  <2>2. Held'
    BY <1>3 DEF vars, ledgerVars, txVars, history, IInv, Held, Line
  <2>3. QED
    BY <1>t, <2>1, <2>2 DEF IInv
<1>4. QED
  BY <1>1, <1>2, <1>3, DeletePaymentInv, DeleteInvoiceInv DEF Next, Deletion

(* Every recompute leaves a value in the cache that the ledger and what    *)
(* was deleted since still cover, whatever transactions abort, however     *)
(* many requests and recomputes are under way, whatever is deleted between *)
(* the two statements of a recompute, and whenever the process exits.      *)
THEOREM CacheSafety == Spec => [](TypeOK /\ CacheBacked)
<1>1. IInv => TypeOK /\ CacheBacked
  BY DEF IInv
<1>2. QED
  BY <1>1, InitInv, NextInv, PTL DEF Spec

(* Its part about the types: amounts, statuses and the place of every      *)
(* request, whatever is requested, refused and deleted.                    *)
THEOREM LedgerTypes == Spec => []TypeOK
  BY CacheSafety, PTL
-----------------------------------------------------------------------------
(***************************************************************************)
(* The ledger together with the events its guards record, for every size   *)
(* of a batch and any failures of the statements that store events.        *)
(***************************************************************************)
QueueTypeOK ==
  /\ recorded \in Nat /\ flushing \in BOOLEAN /\ lost \subseteq 1..recorded
  /\ queue \in Seq(Nat) /\ batch \in Seq(Nat) /\ stored \in Seq(Nat)

Rising(s) == \A i, j \in DOMAIN s : i < j => s[i] < s[j]

\* A batch exists only while it is being stored.
QueueInv == QueueTypeOK /\ (~flushing => batch = <<>>) /\ EventsOnce

(* A validation reports finitely many violations. *)
LEMMA ViolationsType ==
  ASSUME TypeOK, NEW a \in Actors
  PROVE  Violations(a) \in Nat
<1> DEFINE K == {k \in DOMAIN req[a].lines :
                   LET l == req[a].lines[k] IN
                   l.inv \notin invRows \/ l.amt <= 0 \/ l.amt > InvAmount[l.inv] - SeenInv(a, l.inv)}
<1>1. req[a].lines \in Seq(Lines)
  BY LedgerAssumption DEF TypeOK, ControlTypeOK
<1>2. DOMAIN req[a].lines = 1..Len(req[a].lines) /\ Len(req[a].lines) \in Nat
  BY <1>1, LenProperties
<1>3. IsFiniteSet(DOMAIN req[a].lines)
  BY <1>2, FS_Interval
<1>4. K \subseteq DOMAIN req[a].lines
  OBVIOUS
<1>5. IsFiniteSet(K)
  BY <1>3, <1>4, FS_Subset
<1>6. Cardinality(K) \in Nat
  BY <1>5, FS_CardinalityType
<1> HIDE DEF K
<1>7. Violations(a) = (IF Total(req[a]) <= 0 THEN 1 ELSE 0)
                        + (IF Total(req[a]) > PayAmount[req[a].pay] - SeenPay(a) THEN 1 ELSE 0)
                        + Cardinality(K)
  BY DEF Violations, K
<1>8. /\ (IF Total(req[a]) <= 0 THEN 1 ELSE 0) \in Nat
      /\ (IF Total(req[a]) > PayAmount[req[a].pay] - SeenPay(a) THEN 1 ELSE 0) \in Nat
  OBVIOUS
<1>9. QED
  BY <1>6, <1>7, <1>8

(* Concatenation, position by position. *)
LEMMA Positions ==
  ASSUME NEW s \in Seq(Nat), NEW t \in Seq(Nat)
  PROVE  /\ s \o t \in Seq(Nat) /\ Len(s) \in Nat /\ Len(t) \in Nat
         /\ DOMAIN s = 1..Len(s) /\ DOMAIN t = 1..Len(t)
         /\ DOMAIN (s \o t) = 1..(Len(s) + Len(t))
         /\ \A i \in 1..Len(s) : (s \o t)[i] = s[i]
         /\ \A i \in 1..Len(t) : (s \o t)[Len(s) + i] = t[i]
<1>1. /\ s \o t \in Seq(Nat) /\ Len(s \o t) = Len(s) + Len(t)
      /\ \A i \in 1..(Len(s) + Len(t)) :
           (s \o t)[i] = IF i <= Len(s) THEN s[i] ELSE t[i - Len(s)]
  BY ConcatProperties
<1>2. /\ Len(s) \in Nat /\ Len(t) \in Nat
      /\ DOMAIN s = 1..Len(s) /\ DOMAIN t = 1..Len(t)
  BY LenProperties
<1>3. DOMAIN (s \o t) = 1..Len(s \o t)
  BY <1>1, LenProperties
<1>4. ASSUME NEW i \in 1..Len(s) PROVE (s \o t)[i] = s[i]
  BY <1>1, <1>2
<1>5. ASSUME NEW i \in 1..Len(t) PROVE (s \o t)[Len(s) + i] = t[i]
  <2>1. Len(s) + i \in 1..(Len(s) + Len(t)) /\ ~(Len(s) + i <= Len(s)) /\ Len(s) + i - Len(s) = i
    BY <1>2
  <2>2. QED
    BY <1>1, <2>1
<1>6. QED
  BY <1>1, <1>2, <1>3, <1>4, <1>5

(* Concatenation is associative: no part of the events has to be named. *)
LEMMA Assoc ==
  \A s, t, u \in Seq(Nat) : (s \o t) \o u = s \o (t \o u)
BY ConcatAssociative

(* The elements of a concatenation are those of its parts; it rises if and *)
(* only if its parts do and the first part stays below the second.         *)
LEMMA Parts ==
  ASSUME NEW s \in Seq(Nat), NEW t \in Seq(Nat)
  PROVE  /\ Range(s \o t) = Range(s) \cup Range(t)
         /\ Range(s) \subseteq Nat /\ Range(t) \subseteq Nat
         /\ Rising(s \o t) <=> /\ Rising(s) /\ Rising(t)
                               /\ \A x \in Range(s), y \in Range(t) : x < y
<1> DEFINE u == s \o t
<1>1. /\ Len(s) \in Nat /\ Len(t) \in Nat
      /\ DOMAIN s = 1..Len(s) /\ DOMAIN t = 1..Len(t) /\ DOMAIN u = 1..(Len(s) + Len(t))
      /\ \A i \in 1..Len(s) : u[i] = s[i]
      /\ \A i \in 1..Len(t) : u[Len(s) + i] = t[i]
  BY Positions
<1> HIDE DEF u
<1>2. ASSUME NEW i \in DOMAIN u PROVE i \in DOMAIN s \/ \E k \in DOMAIN t : i = Len(s) + k
  <2>1. CASE i <= Len(s)
    BY <1>1, <2>1
  <2>2. CASE ~(i <= Len(s))
    <3>1. i - Len(s) \in DOMAIN t /\ i = Len(s) + (i - Len(s))
      BY <1>1, <2>2
    <3>2. QED
      BY <3>1
  <2>3. QED
    BY <2>1, <2>2
<1>3. Range(u) = Range(s) \cup Range(t)
  <2>1. ASSUME NEW i \in DOMAIN u PROVE u[i] \in Range(s) \cup Range(t)
    BY <1>1, <1>2 DEF Range
  <2>2. ASSUME NEW i \in DOMAIN s PROVE s[i] \in Range(u)
    <3>1. i \in DOMAIN u /\ u[i] = s[i]
      BY <1>1
    <3>2. QED
      BY <3>1 DEF Range
  <2>3. ASSUME NEW i \in DOMAIN t PROVE t[i] \in Range(u)
    <3>1. Len(s) + i \in DOMAIN u /\ u[Len(s) + i] = t[i]
      BY <1>1
    <3>2. QED
      BY <3>1 DEF Range
  <2>4. QED
    BY <2>1, <2>2, <2>3 DEF Range
<1>4. Range(s) \subseteq Nat /\ Range(t) \subseteq Nat
  BY <1>1, ElementOfSeq DEF Range
<1>5. ASSUME Rising(u)
      PROVE  /\ Rising(s) /\ Rising(t)
             /\ \A x \in Range(s), y \in Range(t) : x < y
  <2>1. ASSUME NEW i \in DOMAIN s, NEW j \in DOMAIN s, i < j PROVE s[i] < s[j]
    <3>1. i \in DOMAIN u /\ j \in DOMAIN u /\ u[i] = s[i] /\ u[j] = s[j]
      BY <1>1
    <3>2. QED
      BY <1>5, <2>1, <3>1 DEF Rising
  <2>2. ASSUME NEW i \in DOMAIN t, NEW j \in DOMAIN t, i < j PROVE t[i] < t[j]
    <3>1. /\ Len(s) + i \in DOMAIN u /\ Len(s) + j \in DOMAIN u /\ Len(s) + i < Len(s) + j
          /\ u[Len(s) + i] = t[i] /\ u[Len(s) + j] = t[j]
      BY <1>1, <2>2
    <3>2. QED
      BY <1>5, <3>1 DEF Rising
  <2>3. ASSUME NEW i \in DOMAIN s, NEW j \in DOMAIN t PROVE s[i] < t[j]
    <3>1. /\ i \in DOMAIN u /\ Len(s) + j \in DOMAIN u /\ i < Len(s) + j
          /\ u[i] = s[i] /\ u[Len(s) + j] = t[j]
      BY <1>1
    <3>2. QED
      BY <1>5, <3>1 DEF Rising
  <2>4. QED
    BY <2>1, <2>2, <2>3 DEF Rising, Range
<1>6. ASSUME Rising(s), Rising(t), \A x \in Range(s), y \in Range(t) : x < y
      PROVE  Rising(u)
  <2>1. SUFFICES ASSUME NEW i \in DOMAIN u, NEW j \in DOMAIN u, i < j PROVE u[i] < u[j]
    BY DEF Rising
  <2>2. CASE i \in DOMAIN s /\ j \in DOMAIN s
    BY <1>1, <1>6, <2>1, <2>2 DEF Rising
  <2>3. CASE i \in DOMAIN s /\ \E k \in DOMAIN t : j = Len(s) + k
    <3>1. PICK k \in DOMAIN t : j = Len(s) + k
      BY <2>3
    <3>2. u[i] = s[i] /\ u[j] = t[k]
      BY <1>1, <2>3, <3>1
    <3>3. s[i] \in Range(s) /\ t[k] \in Range(t)
      BY <2>3 DEF Range
    <3>4. QED
      BY <1>6, <3>2, <3>3
  <2>4. CASE (\E k \in DOMAIN t : i = Len(s) + k) /\ (\E k \in DOMAIN t : j = Len(s) + k)
    <3>1. PICK k \in DOMAIN t : i = Len(s) + k
      BY <2>4
    <3>2. PICK l \in DOMAIN t : j = Len(s) + l
      BY <2>4
    <3>3. k < l /\ u[i] = t[k] /\ u[j] = t[l]
      BY <1>1, <2>1, <3>1, <3>2
    <3>4. QED
      BY <1>6, <3>3 DEF Rising
  <2>5. CASE (\E k \in DOMAIN t : i = Len(s) + k) /\ j \in DOMAIN s
    BY <1>1, <2>1, <2>5
  <2>6. QED
    BY <1>2, <2>2, <2>3, <2>4, <2>5
<1>7. QED
  BY <1>3, <1>4, <1>5, <1>6 DEF u

(* A flush moves the front of the queue into the batch. *)
LEMMA FlushMoves ==
  ASSUME NEW q \in Seq(Nat), Flush(q)
  PROVE  batch' \in Seq(Nat) /\ queue' \in Seq(Nat) /\ flushing' = TRUE /\ batch' \o queue' = q
<1> DEFINE n == IF Len(q) < MaxBatch THEN Len(q) ELSE MaxBatch
<1>1. n \in 0..Len(q) /\ Len(q) \in Nat /\ DOMAIN q = 1..Len(q)
  BY GuardAssumption, LenProperties
<1>2. batch' = SubSeq(q, 1, n) /\ queue' = SubSeq(q, n + 1, Len(q)) /\ flushing' = TRUE
  BY DEF Flush
<1> HIDE DEF n
<1>3. \A i \in 1..Len(q) : q[i] \in Nat
  BY ElementOfSeq
<1>4. batch' \in Seq(Nat)
  <2>1. \A i \in 1..n : q[i] \in Nat
    BY <1>1, <1>3
  <2>2. QED
    BY <1>1, <1>2, <2>1, SubSeqProperties
<1>5. queue' \in Seq(Nat)
  <2>1. \A i \in (n + 1)..Len(q) : q[i] \in Nat
    BY <1>1, <1>3
  <2>2. QED
    BY <1>1, <1>2, <2>1, SubSeqProperties
<1>6. SubSeq(q, 1, n) \o SubSeq(q, n + 1, Len(q)) = SubSeq(q, 1, Len(q))
  <2>1. 1 \in 1..(Len(q) + 1) /\ n \in (1 - 1)..Len(q) /\ Len(q) \in n..Len(q)
    BY <1>1
  <2>2. QED
    BY <2>1, ConcatAdjacentSubSeq
<1>7. SubSeq(q, 1, Len(q)) = q
  BY SubSeqFull
<1>8. QED
  BY <1>2, <1>4, <1>5, <1>6, <1>7

(* Numbers above all that were used are appended: nothing is out of order. *)
LEMMA Numbered ==
  ASSUME QueueInv, NEW n \in Nat, NEW e \in Seq(Nat),
         DOMAIN e = 1..n, \A i \in 1..n : e[i] = recorded + i
  PROVE  Rising(Events \o e) /\ Range(Events \o e) = (1..(recorded + n)) \ lost
<1>1. recorded \in Nat /\ lost \subseteq 1..recorded
  BY DEF QueueInv, QueueTypeOK
<1>2. Rising(Events) /\ Range(Events) = (1..recorded) \ lost
  BY DEF QueueInv, EventsOnce, Rising
<1>3. Events \in Seq(Nat)
  BY ConcatProperties DEF QueueInv, QueueTypeOK, Events
<1>4. Range(e) = (recorded + 1)..(recorded + n)
  <2>1. ASSUME NEW x \in (recorded + 1)..(recorded + n) PROVE x \in Range(e)
    <3>1. x - recorded \in 1..n /\ x = recorded + (x - recorded)
      BY <1>1
    <3>2. QED
      BY <3>1 DEF Range
  <2>2. ASSUME NEW i \in 1..n PROVE e[i] \in (recorded + 1)..(recorded + n)
    BY <1>1
  <2>3. QED
    BY <2>1, <2>2 DEF Range
<1>5. Rising(e)
  BY <1>1 DEF Rising
<1>6. \A x \in Range(Events), y \in Range(e) : x < y
  BY <1>1, <1>2, <1>4
<1>7. Rising(Events \o e) /\ Range(Events \o e) = Range(Events) \cup Range(e)
  BY <1>2, <1>3, <1>5, <1>6, Parts
<1>8. ((1..recorded) \ lost) \cup ((recorded + 1)..(recorded + n)) = (1..(recorded + n)) \ lost
  BY <1>1
<1>9. QED
  BY <1>2, <1>4, <1>7, <1>8

(* Recording events, whether it fills the queue or not. *)
LEMMA RecordInv ==
  ASSUME QueueInv, NEW n \in Nat, Record(n)
  PROVE  QueueInv'
<1> DEFINE e == [i \in 1..n |-> recorded + i]
           q == queue \o e
<1>1. e \in Seq(Nat)
  BY DEF QueueInv, QueueTypeOK
<1> HIDE DEF e
<1>2. q \in Seq(Nat)
  BY <1>1, ConcatProperties DEF QueueInv, QueueTypeOK
<1>3. recorded' = recorded + n /\ UNCHANGED <<stored, lost>>
  BY DEF Record
<1>4. /\ batch' \in Seq(Nat) /\ queue' \in Seq(Nat) /\ flushing' \in BOOLEAN
      /\ (~flushing' => batch' = <<>>) /\ batch' \o queue' = batch \o q
  <2>1. CASE n > 0 /\ ~flushing /\ Len(q) >= MaxBatch
    <3>1. Flush(q)
      BY <2>1 DEF Record, e
    <3>2. batch \o q = q
      BY <1>2, <2>1, ConcatEmptySeq DEF QueueInv
    <3>3. QED
      BY <1>2, <3>1, <3>2, FlushMoves
  <2>2. CASE ~(n > 0 /\ ~flushing /\ Len(q) >= MaxBatch)
    <3>1. queue' = q /\ UNCHANGED <<flushing, batch>>
      BY <2>2 DEF Record, e
    <3>2. QED
      BY <1>2, <3>1 DEF QueueInv, QueueTypeOK
  <2>3. QED
    BY <2>1, <2>2
<1>5. Events' = Events \o e
  <2> DEFINE h == stored \o batch
  <2>1. /\ stored \in Seq(Nat) /\ batch \in Seq(Nat) /\ queue \in Seq(Nat)
        /\ h \in Seq(Nat)
    BY ConcatProperties DEF QueueInv, QueueTypeOK
  <2>2. Events' = stored \o (batch' \o queue')
    <3>1. Events' = (stored \o batch') \o queue'
      BY <1>3 DEF Events
    <3>2. (stored \o batch') \o queue' = stored \o (batch' \o queue')
      BY <1>4, <2>1, Assoc, Zenon
    <3>3. QED
      BY <3>1, <3>2
  <2>3. stored \o (batch \o q) = h \o q
    BY <1>2, <2>1, Assoc
  <2> HIDE DEF h
  <2>4. h \o q = (h \o queue) \o e
    BY <1>1, <2>1, Assoc
  <2>5. QED
    BY <1>4, <2>2, <2>3, <2>4 DEF Events, h
<1>6. Rising(Events \o e) /\ Range(Events \o e) = (1..(recorded + n)) \ lost
  <2>1. DOMAIN e = 1..n /\ \A i \in 1..n : e[i] = recorded + i
    BY DEF e
  <2>2. QED
    BY <1>1, <2>1, Numbered
<1>7. EventsOnce'
  BY <1>3, <1>5, <1>6 DEF EventsOnce, Rising
<1>8. QueueTypeOK'
  BY <1>3, <1>4 DEF QueueInv, QueueTypeOK
<1>9. QED
  BY <1>4, <1>7, <1>8 DEF QueueInv

(* The end of an INSERT, stored or not. *)
LEMMA FlushEndInv ==
  ASSUME QueueInv, FlushEnd
  PROVE  QueueInv'
<1>1. /\ stored \in Seq(Nat) /\ batch \in Seq(Nat) /\ queue \in Seq(Nat)
      /\ recorded \in Nat /\ lost \subseteq 1..recorded
  BY DEF QueueInv, QueueTypeOK
<1>2. flushing' = FALSE /\ batch' = <<>> /\ UNCHANGED <<recorded, queue>>
  BY DEF FlushEnd
<1> DEFINE h == stored \o batch
<1>3. h \in Seq(Nat) /\ Events = h \o queue
  BY <1>1, ConcatProperties DEF Events
<1>4. Rising(Events) /\ Range(Events) = (1..recorded) \ lost
  BY DEF QueueInv, EventsOnce, Rising
<1>5. CASE stored' = h /\ UNCHANGED lost
  <2>1. Events' = Events
    <3>1. Events' = (h \o <<>>) \o queue
      BY <1>2, <1>5 DEF Events
    <3>2. h \o <<>> = h
      BY <1>3, ConcatEmptySeq
    <3>3. QED
      BY <1>3, <3>1, <3>2
  <2>2. EventsOnce'
    BY <1>2, <1>4, <1>5, <2>1 DEF EventsOnce, Rising
  <2> HIDE DEF h
  <2>3. <<>> \in Seq(Nat)
    BY EmptySeq
  <2>4. QueueTypeOK'
    BY <1>1, <1>2, <1>3, <1>5, <2>3 DEF QueueTypeOK
  <2>5. QED
    BY <1>2, <2>2, <2>4 DEF QueueInv
<1>6. CASE lost' = lost \cup Range(batch) /\ UNCHANGED stored
  <2> HIDE DEF h
  <2>1. /\ Range(Events) = Range(h) \cup Range(queue)
        /\ Rising(h) /\ Rising(queue) /\ \A x \in Range(h), y \in Range(queue) : x < y
    BY <1>1, <1>3, <1>4, Parts, Zenon
  <2>2. /\ Range(h) = Range(stored) \cup Range(batch)
        /\ Range(stored) \subseteq Nat /\ Range(batch) \subseteq Nat
        /\ Rising(stored) /\ \A x \in Range(stored), y \in Range(batch) : x < y
    BY <1>1, <2>1, Parts DEF h
  <2>3. Range(queue) \subseteq Nat
    BY <1>1, Parts
  <2>4. Events' = stored \o queue
    <3>1. Events' = (stored \o <<>>) \o queue
      BY <1>2, <1>6 DEF Events
    <3>2. stored \o <<>> = stored
      BY <1>1, ConcatEmptySeq
    <3>3. QED
      BY <3>1, <3>2
  <2>5. Rising(stored \o queue) /\ Range(stored \o queue) = Range(stored) \cup Range(queue)
    BY <1>1, <2>1, <2>2, Parts
  <2>6. Range(stored) \cap Range(batch) = {} /\ Range(queue) \cap Range(batch) = {}
    <3>1. \A x \in Nat : ~(x < x)
      OBVIOUS
    <3>2. QED
      BY <2>1, <2>2, <2>3, <3>1
  <2>7. Range(stored) \cup Range(queue) = (1..recorded) \ lost'
    BY <1>4, <1>6, <2>1, <2>2, <2>6
  <2>8. EventsOnce'
    BY <1>2, <2>4, <2>5, <2>7 DEF EventsOnce, Rising
  <2>9. lost' \subseteq 1..recorded
    BY <1>1, <1>4, <1>6, <2>1, <2>2
  <2>10. QED
    BY <1>1, <1>2, <1>6, <2>8, <2>9, EmptySeq DEF QueueInv, QueueTypeOK
<1>7. (stored' = h /\ lost' = lost) \/ (lost' = lost \cup Range(batch) /\ stored' = stored)
  BY DEF FlushEnd
<1>8. QED
  BY <1>5, <1>6, <1>7, Zenon

(* A restart keeps what was stored, with the INSERT in progress or without *)
(* it.                                                                     *)
LEMMA GuardRestartInv ==
  ASSUME QueueInv, GuardRestart
  PROVE  QueueInv'
<1> DEFINE h == stored \o batch
<1>1. /\ stored \in Seq(Nat) /\ batch \in Seq(Nat) /\ queue \in Seq(Nat)
      /\ recorded \in Nat /\ lost \subseteq 1..recorded
  BY DEF QueueInv, QueueTypeOK
<1>2. /\ flushing' = FALSE /\ batch' = <<>> /\ queue' = <<>> /\ recorded' = recorded
      /\ \/ stored' = h /\ lost' = lost \cup Range(queue)
         \/ stored' = stored /\ lost' = lost \cup Range(batch) \cup Range(queue)
  BY DEF GuardRestart
<1>3. h \in Seq(Nat) /\ Events = h \o queue /\ <<>> \in Seq(Nat)
  BY <1>1, ConcatProperties, EmptySeq DEF Events
<1>4. Rising(Events) /\ Range(Events) = (1..recorded) \ lost
  BY DEF QueueInv, EventsOnce, Rising
<1>5. Range(h) = Range(stored) \cup Range(batch)
  BY <1>1, Parts
<1>h. Rising(h) => Rising(stored) /\ \A x \in Range(stored), y \in Range(batch) : x < y
  BY <1>1, Parts
<1> HIDE DEF h
<1>6. /\ Range(Events) = Range(h) \cup Range(queue) /\ Rising(h)
      /\ Range(h) \subseteq Nat /\ Range(queue) \subseteq Nat
      /\ \A x \in Range(h), y \in Range(queue) : x < y
  BY <1>1, <1>3, <1>4, Parts, Zenon
<1>7. Range(h) \cap Range(queue) = {} /\ Range(stored) \cap Range(batch) = {}
  <2>1. \A x \in Nat : ~(x < x)
    OBVIOUS
  <2>2. QED
    BY <1>5, <1>6, <1>h, <2>1
<1>8. Events' = stored'
  <2>1. stored' \in Seq(Nat)
    BY <1>1, <1>2, <1>3
  <2>2. stored' \o <<>> = stored'
    BY <2>1, ConcatEmptySeq
  <2>3. Events' = (stored' \o <<>>) \o <<>>
    BY <1>2 DEF Events
  <2>4. QED
    BY <2>2, <2>3
<1>9. Rising(stored') /\ Range(stored') = (1..recorded) \ lost'
  BY <1>2, <1>4, <1>5, <1>6, <1>7, <1>h
<1>10. EventsOnce'
  BY <1>2, <1>8, <1>9 DEF EventsOnce, Rising
<1>11. lost' \subseteq 1..recorded
  BY <1>1, <1>2, <1>4, <1>5, <1>6
<1>12. QED
  BY <1>1, <1>2, <1>3, <1>10, <1>11 DEF QueueInv, QueueTypeOK

LEMMA QueueInit == GuardInit => QueueInv
<1>1. ASSUME GuardInit PROVE Events = <<>> /\ QueueTypeOK /\ batch = <<>>
  <2>1. <<>> \in Seq(Nat)
    BY EmptySeq
  <2>2. <<>> \o <<>> = <<>>
    BY <2>1, ConcatEmptySeq
  <2>3. QED
    BY <1>1, <2>1, <2>2 DEF GuardInit, Events, QueueTypeOK
<1>2. ASSUME GuardInit PROVE EventsOnce
  <2>1. DOMAIN Events = {}
    <3>1. Len(<<>>) = 0 /\ DOMAIN <<>> = {}
      OBVIOUS
    <3>2. QED
      BY <1>1, <1>2, <3>1
  <2>2. Range(Events) = {} /\ recorded = 0 /\ 1..0 = {}
    BY <1>2, <2>1 DEF GuardInit, Range
  <2>3. QED
    BY <2>1, <2>2 DEF EventsOnce
<1>3. QED
  BY <1>1, <1>2 DEF QueueInv

LEMMA QueueNext == TypeOK /\ QueueInv /\ [GuardedNext]_<<vars, guardVars>> => QueueInv'
<1> SUFFICES ASSUME TypeOK, QueueInv, [GuardedNext]_<<vars, guardVars>>
             PROVE  QueueInv'
  OBVIOUS
<1>1. ASSUME NEW a \in Actors, Check(a) PROVE QueueInv'
  <2>1. PICK n \in Nat : Record(n)
    <3>1. Violations(a) \in Nat /\ Violations(a) + 1 \in Nat /\ 0 \in Nat
      BY ViolationsType
    <3>2. QED
      BY <1>1, <3>1 DEF Check
  <2>2. QED
    BY <2>1, RecordInv
<1>2. ASSUME UNCHANGED guardVars PROVE QueueInv'
  BY <1>2 DEF guardVars, QueueInv, QueueTypeOK, EventsOnce, Events
<1>3. CASE FlushTimer
  <2>1. Flush(queue) /\ ~flushing /\ UNCHANGED <<recorded, stored, lost>>
    BY <1>3 DEF FlushTimer
  <2>2. /\ batch' \in Seq(Nat) /\ queue' \in Seq(Nat) /\ flushing' = TRUE
        /\ batch' \o queue' = queue
    BY <2>1, FlushMoves DEF QueueInv, QueueTypeOK
  <2>3. Events' = Events
    <3>1. stored \in Seq(Nat) /\ queue \in Seq(Nat) /\ batch = <<>>
      BY <2>1 DEF QueueInv, QueueTypeOK
    <3>2. Events' = stored \o (batch' \o queue')
      <4>1. Events' = (stored \o batch') \o queue'
        BY <2>1 DEF Events
      <4>2. (stored \o batch') \o queue' = stored \o (batch' \o queue')
        BY <2>2, <3>1, Assoc, Zenon
      <4>3. QED
        BY <4>1, <4>2
    <3>3. Events = stored \o queue
      <4>1. Events = (stored \o <<>>) \o queue
        BY <3>1 DEF Events
      <4>2. stored \o <<>> = stored
        BY <3>1, ConcatEmptySeq
      <4>3. QED
        BY <4>1, <4>2
    <3>4. QED
      BY <2>2, <3>2, <3>3
  <2>4. EventsOnce'
    BY <2>1, <2>3 DEF QueueInv, EventsOnce
  <2>5. QED
    BY <2>1, <2>2, <2>4 DEF QueueInv, QueueTypeOK
<1>4. CASE FlushEnd
  BY <1>4, FlushEndInv
<1>5. CASE GuardRestart
  BY <1>5, GuardRestartInv
<1>6. CASE UNCHANGED <<vars, guardVars>>
  BY <1>2, <1>6
<1>7. QED
  BY <1>1, <1>2, <1>3, <1>4, <1>5, <1>6 DEF GuardedNext, Other

(* With its events the ledger still behaves as AllocationLedger says.      *)
LEMMA GuardedImplementsLedger == GuardedSpec => ImplementsLedger
<1>1. GuardInit => Init
  BY DEF GuardInit
<1>2. [GuardedNext]_<<vars, guardVars>> => [Next]_vars
  <2>1. ASSUME NEW a \in Actors, Check(a) \/ Other(a) PROVE Next
    BY <2>1 DEF Check, Other, Next, Step
  <2>2. FlushTimer \/ FlushEnd => UNCHANGED vars
    BY DEF FlushTimer, FlushEnd
  <2>3. GuardRestart \/ Deletion => Next
    BY DEF GuardRestart, Next
  <2>4. QED
    BY <2>1, <2>2, <2>3 DEF GuardedNext
<1>3. QED
  BY <1>1, <1>2, PTL DEF GuardedSpec, ImplementsLedger, Spec

(* What guard-metrics-persistence-service.ts does to the events between    *)
(* enqueue and the table loses and repeats none, except with a batch that  *)
(* the database refused and with what is in memory when the process exits, *)
(* whenever it exits.                                                      *)
THEOREM EventsSafety == GuardedSpec => []EventsOnce
<1>1. GuardedSpec => []TypeOK
  BY GuardedImplementsLedger, CacheSafety, PTL DEF ImplementsLedger
<1>2. GuardInit => QueueInv
  BY QueueInit
<1>3. TypeOK /\ QueueInv /\ [GuardedNext]_<<vars, guardVars>> => QueueInv'
  BY QueueNext
<1>4. QueueInv => EventsOnce
  BY DEF QueueInv
<1>5. QED
  BY <1>1, <1>2, <1>3, <1>4, PTL DEF GuardedSpec
-----------------------------------------------------------------------------
(***************************************************************************)
(* The total of a request's lines.                                         *)
(***************************************************************************)
LEMMA MaxIn ==
  ASSUME NEW n \in Nat, NEW S \in SUBSET (1..n), S # {}
  PROVE  Max(S) \in S
<1> DEFINE T == {m \in Nat : \A k \in S : k <= m}
<1>1. n \in T
  OBVIOUS
<1>2. PICK m \in T : \A k \in T : m <= k
  <2>1. T \in SUBSET Nat /\ T # {}
    BY <1>1
  <2> HIDE DEF T
  <2>2. QED
    BY <2>1, LeastNatural
<1>3. m \in S
  <2> SUFFICES ASSUME m \notin S PROVE FALSE
    OBVIOUS
  <2>0. PICK k \in S : TRUE
    OBVIOUS
  <2>1. m \in Nat /\ \A j \in S : j \in Nat /\ 1 <= j /\ j <= m
    OBVIOUS
  <2>2. m - 1 \in Nat
    BY <2>0, <2>1
  <2>3. ASSUME NEW j \in S PROVE j <= m - 1
    BY <2>1, <2>3
  <2>4. m - 1 \in T
    BY <2>2, <2>3
  <2>5. m <= m - 1
    BY <1>2, <2>4
  <2>6. QED
    BY <2>1, <2>5
<1>4. QED
  BY <1>2, <1>3 DEF Max

Picks(c, S) == \A s \in SUBSET S : s # {} => c[s] \in s

\* The recursion of a fold that adds v[x] for the element x that c picks.
Recursion(g, v, c, S) ==
  \A s \in SUBSET S : g[s] = IF s = {} THEN 0 ELSE v[c[s]] + g[s \ {c[s]}]

(* It has a solution for every finite set and every way to pick. *)
LEMMA FoldExists ==
  ASSUME NEW S, IsFiniteSet(S), NEW v \in [S -> Nat], NEW c, Picks(c, S)
  PROVE  \E g \in [SUBSET S -> Nat] : Recursion(g, v, c, S)
<1> DEFINE D(n) == {s \in SUBSET S : Cardinality(s) <= n}
           Good(n) == \E g \in [D(n) -> Nat] : \A s \in D(n) :
                        g[s] = IF s = {} THEN 0 ELSE v[c[s]] + g[s \ {c[s]}]
           Bad == {n \in Nat : ~Good(n)}
<1>1. \A s \in SUBSET S : IsFiniteSet(s) /\ Cardinality(s) \in Nat
  BY FS_Subset, FS_CardinalityType
<1>2. \A s \in SUBSET S : s # {} =>
        /\ c[s] \in S /\ s \ {c[s]} \in SUBSET S
        /\ Cardinality(s \ {c[s]}) = Cardinality(s) - 1
  BY <1>1, FS_RemoveElement DEF Picks
<1>3. Good(0)
  <2>1. \A s \in D(0) : s = {}
    BY <1>1, FS_EmptySet
  <2> DEFINE g == [s \in D(0) |-> 0]
  <2>2. g \in [D(0) -> Nat]
    OBVIOUS
  <2>3. QED
    BY <2>1, <2>2
<1>4. ASSUME NEW n \in Nat, Good(n) PROVE Good(n + 1)
  <2>1. PICK g \in [D(n) -> Nat] : \A s \in D(n) :
          g[s] = IF s = {} THEN 0 ELSE v[c[s]] + g[s \ {c[s]}]
    BY <1>4
  <2> DEFINE h == [s \in D(n + 1) |-> IF s \in D(n) THEN g[s] ELSE v[c[s]] + g[s \ {c[s]}]]
  <2>2. ASSUME NEW s \in D(n + 1)
        PROVE  h[s] \in Nat /\ h[s] = IF s = {} THEN 0 ELSE v[c[s]] + h[s \ {c[s]}]
    <3>1. CASE s = {}
      BY <1>1, <2>1, <3>1, FS_EmptySet
    <3>2. CASE s # {}
      <4>1. s \ {c[s]} \in D(n) /\ s \ {c[s]} \in D(n + 1) /\ c[s] \in S
        BY <1>1, <1>2, <3>2
      <4>2. h[s \ {c[s]}] = g[s \ {c[s]}] /\ g[s \ {c[s]}] \in Nat /\ v[c[s]] \in Nat
        BY <2>1, <4>1
      <4>3. h[s] = v[c[s]] + g[s \ {c[s]}]
        BY <2>1, <3>2
      <4>4. QED
        BY <3>2, <4>2, <4>3
    <3>3. QED
      BY <3>1, <3>2
  <2>3. h \in [D(n + 1) -> Nat]
    BY <2>2
  <2>4. QED
    BY <2>2, <2>3
<1>5. \A n \in Nat : Good(n)
  <2> HIDE DEF Good
  <2> SUFFICES ASSUME Bad # {} PROVE FALSE
    OBVIOUS
  <2>1. PICK n \in Bad : \A m \in Bad : n <= m
    BY LeastNatural
  <2>2. n # 0
    BY <1>3, <2>1
  <2>3. n - 1 \in Nat /\ n - 1 \notin Bad
    BY <2>1, <2>2
  <2>4. QED
    BY <1>4, <2>3
<1>6. D(Cardinality(S)) = SUBSET S
  BY <1>1, FS_Subset, FS_CardinalityType
<1>7. Good(Cardinality(S))
  BY <1>1, <1>5
<1>8. QED
  <2> HIDE DEF D
  <2>1. QED
    BY <1>6, <1>7 DEF Recursion

SumsUpTo(P, r) ==
  /\ P \in [0..Len(r.lines) -> Nat] /\ P[0] = 0 /\ P[Len(r.lines)] = Total(r)
  /\ \A n \in 1..Len(r.lines) : P[n] = P[n - 1] + r.lines[n].amt

(* The total of a request is the last of the sums of its first lines.      *)
LEMMA PrefixSums ==
  ASSUME NEW r \in Requests
  PROVE  \E P : SumsUpTo(P, r)
<1> DEFINE D == DOMAIN r.lines
           Rec(g) == g = [s \in SUBSET D |->
                            IF s = {} THEN 0 ELSE g[s \ {Max(s)}] + r.lines[Max(s)].amt]
           G == CHOOSE g : Rec(g)
           v == [i \in D |-> r.lines[i].amt]
           c == [s \in SUBSET D |-> Max(s)]
           n == Len(r.lines)
<1>0. r.lines \in Seq(Lines)
  BY LedgerAssumption
<1>1. D = 1..n /\ IsFiniteSet(D) /\ n \in Nat
  BY <1>0, LenProperties, FS_Interval
<1>2. v \in [D -> Nat] /\ \A i \in 1..n : r.lines[i].amt \in Nat
  <2>1. \A i \in 1..n : r.lines[i] \in Lines
    BY <1>0, ElementOfSeq
  <2>2. \A i \in 1..n : r.lines[i].amt \in Nat
    BY <2>1 DEF Lines
  <2>3. QED
    BY <1>1, <2>2
<1>3. \A s \in SUBSET D : s # {} => Max(s) \in s
  BY <1>1, MaxIn
<1>4. Picks(c, D)
  BY <1>3 DEF Picks
<1>5. PICK g \in [SUBSET D -> Nat] : Recursion(g, v, c, D)
  <2> HIDE DEF v, c, D, Rec, n
  <2>1. QED
    BY <1>1, <1>2, <1>4, FoldExists
<1>6. \A s \in SUBSET D : g[s] = IF s = {} THEN 0 ELSE g[s \ {Max(s)}] + r.lines[Max(s)].amt
  <2> TAKE s \in SUBSET D
  <2>1. CASE s = {}
    BY <1>5, <2>1 DEF Recursion
  <2>2. CASE s # {}
    <3>1. c[s] = Max(s) /\ Max(s) \in D /\ s \ {Max(s)} \in SUBSET D
      BY <1>3, <2>2
    <3>2. g[s \ {Max(s)}] \in Nat /\ v[Max(s)] \in Nat /\ v[Max(s)] = r.lines[Max(s)].amt
      BY <1>2, <1>5, <3>1
    <3>3. g[s] = v[Max(s)] + g[s \ {Max(s)}]
      BY <1>5, <2>2, <3>1 DEF Recursion
    <3>4. QED
      BY <2>2, <3>2, <3>3
  <2>3. QED
    BY <2>1, <2>2
<1>7. Rec(g)
  <2>1. g = [s \in SUBSET D |-> g[s]]
    BY <1>5
  <2>2. QED
    BY <1>6, <2>1
<1>8. Total(r) = G[D]
  BY DEF Total, FoldLeft, MapThenFoldSet
<1>9. Rec(G)
  <2> HIDE DEF Rec
  <2>1. QED
    BY <1>7
<1>10. \A s \in SUBSET D : s # {} => G[s] = G[s \ {Max(s)}] + r.lines[Max(s)].amt
  BY <1>9
<1>11. G[{}] = 0
  BY <1>9
<1>12. \A k \in 1..n : Max(1..k) = k /\ (1..k) \ {k} = 1..(k - 1) /\ 1..k # {} /\ 1..k \in SUBSET D
  <2> TAKE k \in 1..n
  <2>0. k \in Nat /\ 1..k \in SUBSET (1..k) /\ k \in 1..k /\ 1..k # {}
    BY <1>1
  <2>1. Max(1..k) \in 1..k /\ k \in 1..k
    BY <2>0, MaxIn
  <2>2. Max(1..k) = k
    <3>1. \E m \in 1..k : \A j \in 1..k : m >= j
      BY <1>1
    <3>2. \A j \in 1..k : Max(1..k) >= j
      BY <3>1, Zenon DEF Max
    <3>3. QED
      BY <2>1, <3>2
  <2>3. QED
    BY <1>1, <2>2
<1>13. \A k \in 1..n : G[1..k] = G[1..(k - 1)] + r.lines[k].amt
  BY <1>10, <1>12
<1> HIDE DEF G
<1>14. \A k \in 0..n : G[1..k] \in Nat
  <2> DEFINE Bad == {k \in 0..n : G[1..k] \notin Nat}
  <2> SUFFICES ASSUME Bad # {} PROVE FALSE
    OBVIOUS
  <2>1. PICK k \in Bad : \A m \in Bad : k <= m
    <3>1. Bad \in SUBSET Nat
      BY <1>1
    <3> HIDE DEF Bad
    <3>2. QED
      BY <3>1, LeastNatural
  <2>2. k # 0
    <3>1. 1..0 = {}
      OBVIOUS
    <3>2. QED
      BY <1>11, <2>1, <3>1
  <2>3. k \in 1..n /\ k - 1 \in 0..n /\ k - 1 \notin Bad
    BY <1>1, <2>1, <2>2
  <2>4. G[1..(k - 1)] \in Nat /\ r.lines[k].amt \in Nat
    BY <1>2, <2>3
  <2>5. QED
    BY <1>13, <2>1, <2>3, <2>4
<1>15. QED
  <2> DEFINE P == [k \in 0..n |-> G[1..k]]
  <2>1. P \in [0..n -> Nat] /\ P[0] = 0 /\ P[n] = Total(r)
    <3>1. 1..0 = {} /\ 1..n = D
      BY <1>1
    <3>2. 0 \in 0..n /\ n \in 0..n
      BY <1>1
    <3>3. QED
      BY <1>8, <1>11, <1>14, <3>1, <3>2
  <2>2. \A k \in 1..n : P[k] = P[k - 1] + r.lines[k].amt
    BY <1>1, <1>13
  <2>3. QED
    BY <2>1, <2>2 DEF SumsUpTo
-----------------------------------------------------------------------------
(***************************************************************************)
(* Requests one at a time: nothing is allocated beyond the payment, and    *)
(* beyond the invoice by manual requests only, which never check it.       *)
(***************************************************************************)
\* The statements at which a transaction may hold rows it has inserted.
Holding == {"pLine", "pInsert", "cRead", "cWrite", "commit"}

\* What a transaction that has inserted d sees of payment p.
SeenPayIn(s, d, p) == SumOver([i \in Invoices |-> s[p][i] + d[i]], Invoices)

LEMMA SeenIn == \A a : SeenPay(a) = SeenPayIn(share, pend[a], req[a].pay)
  BY DEF SeenPay, SeenPayIn

LEMMA SeenType ==
  ASSUME NEW s \in Shares, NEW d \in [Invoices -> Nat], NEW p \in Payments
  PROVE  SeenPayIn(s, d, p) \in Nat
<1> DEFINE f == [i \in Invoices |-> s[p][i] + d[i]]
<1>1. IsFiniteSet(Invoices) /\ \A i \in Invoices : f[i] \in Nat
  BY LedgerAssumption DEF Shares
<1> HIDE DEF f
<1>2. SumOver(f, Invoices) \in Nat
  BY <1>1, SumType
<1>3. QED
  BY <1>2 DEF f, SeenPayIn

LEMMA SeenNothing ==
  ASSUME NEW s \in Shares, NEW p \in Payments
  PROVE  SeenPayIn(s, Nothing, p) = PayIn(s, p)
<1>1. [i \in Invoices |-> s[p][i] + Nothing[i]] = s[p]
  BY DEF Shares, Nothing
<1>2. QED
  BY <1>1 DEF SeenPayIn, PayIn

LEMMA SeenGrows ==
  ASSUME NEW s \in Shares, NEW d \in [Invoices -> Nat], NEW e \in [Invoices -> Nat], NEW p \in Payments,
         NEW i \in Invoices, NEW n \in Nat,
         \A j \in Invoices : e[j] = IF j = i THEN d[j] + n ELSE d[j]
  PROVE  SeenPayIn(s, e, p) = SeenPayIn(s, d, p) + n
<1> DEFINE f == [j \in Invoices |-> s[p][j] + d[j]]
           h == [j \in Invoices |-> s[p][j] + e[j]]
<1>0. IsFiniteSet(Invoices)
  BY LedgerAssumption
<1>1. \A j \in Invoices : f[j] \in Nat /\ h[j] = IF j = i THEN f[j] + n ELSE f[j]
  BY DEF Shares
<1> HIDE DEF f, h
<1>2. SumOver(h, Invoices) = SumOver(f, Invoices) + n
  BY <1>0, <1>1, SumGrows
<1>3. QED
  BY <1>2 DEF f, h, SeenPayIn

LEMMA PayGrows ==
  ASSUME NEW s \in Shares, NEW t \in Shares, NEW q \in Payments, NEW i \in Invoices, NEW m \in Nat,
         \A j \in Invoices : t[q][j] = IF j = i THEN s[q][j] + m ELSE s[q][j]
  PROVE  PayIn(t, q) = PayIn(s, q) + m
<1> DEFINE f == s[q]
           h == t[q]
<1>1. IsFiniteSet(Invoices)
  BY LedgerAssumption
<1>2. \A j \in Invoices : f[j] \in Nat /\ h[j] = IF j = i THEN f[j] + m ELSE f[j]
  BY DEF Shares
<1> HIDE DEF f, h
<1>3. SumOver(h, Invoices) = SumOver(f, Invoices) + m
  BY <1>1, <1>2, SumGrows
<1>4. QED
  BY <1>3 DEF f, h, PayIn

(* A ledger that has lost rows has smaller sums.                           *)
LEMMA SumsShrink ==
  ASSUME NEW s \in Shares, NEW t \in Shares,
         \A p \in Payments, i \in Invoices : t[p][i] <= s[p][i]
  PROVE  /\ \A p \in Payments : PayIn(t, p) <= PayIn(s, p)
         /\ \A i \in Invoices : InvIn(t, i) <= InvIn(s, i)
         /\ \A p \in Payments, d \in [Invoices -> Nat] : SeenPayIn(t, d, p) <= SeenPayIn(s, d, p)
<1>0. IsFiniteSet(Payments) /\ IsFiniteSet(Invoices)
  BY LedgerAssumption
<1>1. ASSUME NEW p \in Payments PROVE PayIn(t, p) <= PayIn(s, p)
  <2>1. \A i \in Invoices : s[p][i] \in Nat /\ t[p][i] \in Nat /\ t[p][i] <= s[p][i]
    BY DEF Shares
  <2>2. QED
    BY <1>0, <2>1, SumSmaller DEF PayIn
<1>2. ASSUME NEW i \in Invoices PROVE InvIn(t, i) <= InvIn(s, i)
  <2> DEFINE f == [p \in Payments |-> s[p][i]]
             h == [p \in Payments |-> t[p][i]]
  <2>1. \A p \in Payments : f[p] \in Nat /\ h[p] \in Nat /\ h[p] <= f[p]
    BY DEF Shares
  <2> HIDE DEF f, h
  <2>2. SumOver(h, Payments) <= SumOver(f, Payments)
    BY <1>0, <2>1, SumSmaller
  <2>3. QED
    BY <2>2 DEF f, h, InvIn
<1>3. ASSUME NEW p \in Payments, NEW d \in [Invoices -> Nat] PROVE SeenPayIn(t, d, p) <= SeenPayIn(s, d, p)
  <2> DEFINE f == [i \in Invoices |-> s[p][i] + d[i]]
             h == [i \in Invoices |-> t[p][i] + d[i]]
  <2>1. \A i \in Invoices : f[i] \in Nat /\ h[i] \in Nat /\ h[i] <= f[i]
    BY DEF Shares
  <2> HIDE DEF f, h
  <2>2. SumOver(h, Invoices) <= SumOver(f, Invoices)
    BY <1>0, <2>1, SumSmaller
  <2>3. QED
    BY <2>2 DEF f, h, SeenPayIn
<1>4. QED
  BY <1>1, <1>2, <1>3

LEMMA DeletionShrinks ==
  ASSUME TypeOK, Deletion
  PROVE  /\ share \in Shares /\ share' \in Shares
         /\ \A p \in Payments, i \in Invoices : share'[p][i] <= share[p][i]
         /\ UNCHANGED <<pc, req, line, pend>>
<1>1. share \in Shares
  BY DEF TypeOK, LedgerTypeOK, Shares
<1>2. ASSUME NEW p \in Payments, DeletePayment(p)
      PROVE  /\ share' \in Shares /\ UNCHANGED <<pc, req, line, pend>>
             /\ \A q \in Payments, i \in Invoices : share'[q][i] <= share[q][i]
  <2>1. share' = [share EXCEPT ![p] = Nothing]
    BY <1>2 DEF DeletePayment
  <2>2. QED
    BY <1>1, <1>2, <2>1, DeletePaymentShares DEF Shares, Nothing, DeletePayment, deleteFrame, txVars
<1>3. ASSUME NEW i \in Invoices, DeleteInvoice(i)
      PROVE  /\ share' \in Shares /\ UNCHANGED <<pc, req, line, pend>>
             /\ \A q \in Payments, j \in Invoices : share'[q][j] <= share[q][j]
  <2>1. share' = [p \in Payments |-> [share[p] EXCEPT ![i] = 0]]
    BY <1>3 DEF DeleteInvoice
  <2>2. QED
    BY <1>1, <1>3, <2>1, DeleteInvoiceShares DEF Shares, DeleteInvoice, deleteFrame, txVars
<1>4. QED
  BY <1>1, <1>2, <1>3 DEF Deletion

Serial == \A a, b \in Actors : pc[a] # "idle" /\ pc[b] # "idle" => a = b

Clean == \A a \in Actors : pc[a] \notin Holding => pend[a] = Nothing

\* The lines from line[a] on still fit in what the payment has left.
RestFits(a) ==
  \E P : /\ SumsUpTo(P, req[a])
         /\ SeenPayIn(share, pend[a], req[a].pay) + P[Len(req[a].lines)] - P[line[a] - 1]
              <= PayAmount[req[a].pay]

(* What the checks of a request on its payment still tell at the           *)
(* statement that relies on them.                                          *)
PayGuard(a) ==
  /\ pc[a] \in {"mInv", "mInsert"} => PayIn(share, req[a].pay) + Line(a).amt <= PayAmount[req[a].pay]
  /\ pc[a] \in {"fUpdate", "fInsert"} => PayIn(share, req[a].pay) = 0
  /\ pc[a] = "pSnap" => line[a] = 1
  /\ pc[a] \in {"pLine", "pInsert"} => RestFits(a)
  /\ pc[a] \in Holding => SeenPayIn(share, pend[a], req[a].pay) <= PayAmount[req[a].pay]

PaysFit == \A p \in Payments : PayIn(share, p) <= PayAmount[p]

SerialInv == Serial /\ Clean
PayInv == (\A a \in Actors : PayGuard(a)) /\ PaysFit

(* A step leaves the other actors' transactions alone. *)
LEMMA OthersKept ==
  ASSUME TypeOK, NEW a \in Actors, Step(a), NEW b \in Actors, b # a
  PROVE  pc'[b] = pc[b] /\ pend'[b] = pend[b]
<1> USE DEF GoTo
<1>t. /\ pc \in [Actors -> PCs] /\ pend \in [Actors -> [Invoices -> Nat]]
      /\ Line(a).inv \in Invoices /\ Line(a).amt \in Nat /\ req[a].pay \in Payments
  BY LineType DEF TypeOK, ControlTypeOK, TxTypeOK
<1>1. pc'[b] = pc[b]
  BY <1>t DEF Step, Arrive, ManualCheckPayment, ManualCheckInvoice, ManualInsert, ManualFlag,
    ManualFinish, ManualFault, ManualFail, PartialSnapshot, PartialCheck, PartialSkip, PartialReject,
    Rollback, PartialInsert, PartialInsertFails, FullRead, FullUpdate,
    FullInsert, CacheRead, CacheWrite, Commit, NextLine, Reset
<1>2. pend'[b] = pend[b]
  BY <1>t, Effects DEF Keeps, Allocates, Inserts, Drops, Commits
<1>3. QED
  BY <1>1, <1>2

(* An actor that takes a step is the only one at work. *)
LEMMA OthersIdle ==
  ASSUME TypeOK, Serial, Overlapping = {}, NEW a \in Actors, Step(a), NEW b \in Actors, b # a
  PROVE  pc[b] = "idle" /\ pc'[b] = "idle"
<1>1. CASE pc[a] # "idle"
  BY <1>1, OthersKept DEF Serial
<1>2. CASE pc[a] = "idle"
  <2>1. PICK r \in Requests : Arrive(a, r)
    BY <1>2 DEF Step, ManualCheckPayment, ManualCheckInvoice, ManualInsert, ManualFlag, ManualFinish,
      ManualFault, ManualFail, PartialSnapshot, PartialCheck, PartialSkip, PartialReject, PartialInsert,
      PartialInsertFails, FullRead, FullUpdate, FullInsert, CacheRead, CacheWrite, Commit
  <2>2. pc[b] = "idle"
    BY <2>1 DEF Arrive
  <2>3. QED
    BY <2>2, OthersKept
<1>3. QED
  BY <1>1, <1>2

LEMMA SerialNext ==
  ASSUME TypeOK, SerialInv, Overlapping = {}, NEW a \in Actors, Step(a)
  PROVE  SerialInv'
<1> USE DEF GoTo, txVars, manualFrame, partialFrame, cacheFrame, Holding
<1>t. /\ pc \in [Actors -> PCs] /\ pend \in [Actors -> [Invoices -> Nat]]
  BY DEF TypeOK, ControlTypeOK, TxTypeOK
<1>1. \A b \in Actors : b # a => pc[b] = "idle" /\ pc'[b] = "idle"
  BY OthersIdle DEF SerialInv
<1>2. Serial'
  BY <1>1 DEF Serial
<1>3. ASSUME NEW b \in Actors, b # a PROVE pend'[b] = Nothing
  BY <1>1, <1>3, OthersKept DEF SerialInv, Clean
<1>4. ASSUME pc'[a] \notin Holding PROVE pend'[a] = Nothing
  <2>1. CASE Reset(a)
    BY <1>t, <2>1 DEF Reset
  <2>2. CASE pend' = pend /\ pc[a] \notin Holding
    BY <2>2 DEF SerialInv, Clean
  <2>3. QED
    BY <1>t, <1>4, <2>1, <2>2 DEF Step, Arrive, ManualCheckPayment, ManualCheckInvoice, ManualInsert,
      ManualFlag, ManualFinish, ManualFault, ManualFail, PartialSnapshot, PartialCheck, PartialSkip,
      PartialReject, Rollback, PartialInsert, PartialInsertFails, FullRead, FullUpdate,
      FullInsert, CacheRead, CacheWrite, Commit, NextLine
<1>5. Clean'
  BY <1>3, <1>4 DEF Clean
<1>6. QED
  BY <1>2, <1>5 DEF SerialInv

(* Neither a deletion nor a restart puts a second request to work.         *)
LEMMA SerialAll == ASSUME TypeOK, SerialInv, Overlapping = {}, [Next]_vars PROVE SerialInv'
<1>1. CASE UNCHANGED vars
  BY <1>1 DEF vars, txVars, SerialInv, Serial, Clean
<1>2. CASE Deletion
  BY <1>2, DeletionShrinks DEF SerialInv, Serial, Clean
<1>3. CASE Restart
  BY <1>3 DEF Restart, SerialInv, Serial, Clean
<1>4. QED
  BY <1>1, <1>2, <1>3, SerialNext DEF Next

\* The lengths and the amounts of a request's lines.
LEMMA RequestLines ==
  ASSUME NEW r \in Requests
  PROVE  /\ Len(r.lines) \in Nat \ {0} /\ r.pay \in Payments
         /\ \A n \in 1..Len(r.lines) : r.lines[n] \in Lines /\ r.lines[n].amt \in Nat
<1>1. r.lines \in Seq(Lines) /\ Len(r.lines) > 0 /\ r.pay \in Payments
  BY LedgerAssumption
<1>2. \A n \in 1..Len(r.lines) : r.lines[n] \in Lines
  BY <1>1, ElementOfSeq
<1>3. Len(r.lines) \in Nat
  BY <1>1, LenProperties
<1>4. QED
  BY <1>1, <1>2, <1>3 DEF Lines

(* The sums of the first lines never fall. *)
LEMMA PrefixRises ==
  ASSUME NEW r \in Requests, NEW P, SumsUpTo(P, r), NEW k \in 0..Len(r.lines)
  PROVE  P[k] <= P[Len(r.lines)]
<1> DEFINE n == Len(r.lines)
           Bad == {m \in 0..n : ~(P[n - m] <= P[n])}
<1>1. n \in Nat /\ \A m \in 1..n : r.lines[m].amt \in Nat
  BY RequestLines
<1>2. \A m \in 0..n : P[m] \in Nat
  BY DEF SumsUpTo
<1>3. \A m \in 1..n : P[m - 1] <= P[m]
  <2> TAKE m \in 1..n
  <2>1. P[m] = P[m - 1] + r.lines[m].amt
    BY DEF SumsUpTo
  <2>2. P[m - 1] \in Nat /\ P[m] \in Nat
    BY <1>1, <1>2
  <2>3. QED
    BY <1>1, <2>1, <2>2
<1>4. ASSUME NEW m \in Bad PROVE m # 0 /\ m - 1 \in Bad
  <2>1. m # 0
    BY <1>1, <1>2
  <2>2. n - m \in 0..n /\ n - (m - 1) \in 1..n /\ (n - (m - 1)) - 1 = n - m
    BY <1>1, <2>1
  <2>3. P[n - m] <= P[n - (m - 1)]
    BY <1>3, <2>2
  <2>4. P[n - m] \in Nat /\ P[n - (m - 1)] \in Nat /\ P[n] \in Nat
    BY <1>1, <1>2, <2>2
  <2>5. QED
    BY <1>1, <2>1, <2>3, <2>4
<1>5. Bad = {}
  <2>1. Bad \in SUBSET Nat
    BY <1>1
  <2> HIDE DEF Bad
  <2> SUFFICES ASSUME Bad # {} PROVE FALSE
    OBVIOUS
  <2>2. PICK m \in Bad : \A j \in Bad : m <= j
    BY <2>1, LeastNatural
  <2>3. QED
    BY <1>4, <2>1, <2>2
<1>6. n - k \in 0..n /\ n - (n - k) = k
  BY <1>1
<1>7. QED
  BY <1>5, <1>6

(* What RestFits says is enough for the line at hand and for the next. *)
LEMMA LineFits ==
  ASSUME TypeOK, NEW a \in Actors, RestFits(a), NEW seenNow,
         seenNow = SeenPayIn(share, pend[a], req[a].pay)
  PROVE  /\ seenNow \in Nat /\ seenNow + Line(a).amt <= PayAmount[req[a].pay]
         /\ \E P : /\ SumsUpTo(P, req[a])
                   /\ seenNow + Line(a).amt + P[Len(req[a].lines)] - P[line[a]]
                        <= PayAmount[req[a].pay]
                   /\ P[Len(req[a].lines)] \in Nat /\ P[line[a]] \in Nat
<1> DEFINE r == req[a]
           n == Len(r.lines)
<1>t. /\ Line(a).amt \in Nat /\ r.pay \in Payments /\ pend[a] \in [Invoices -> Nat]
      /\ share \in Shares /\ PayAmount[r.pay] \in Nat
  BY LineType, LedgerAssumption DEF TypeOK, LedgerTypeOK, TxTypeOK, Shares
<1>r. r \in Requests /\ line[a] \in 1..n
  BY DEF TypeOK, ControlTypeOK
<1>n. n \in Nat /\ line[a] \in 0..n /\ line[a] - 1 \in 0..n
  BY <1>r, RequestLines
<1>1. PICK P : /\ SumsUpTo(P, r)
               /\ seenNow + P[n] - P[line[a] - 1] <= PayAmount[r.pay]
  BY DEF RestFits
<1>2. P[line[a]] = P[line[a] - 1] + Line(a).amt
  BY <1>1, <1>r DEF SumsUpTo, Line
<1>3. P[n] \in Nat /\ P[line[a]] \in Nat /\ P[line[a] - 1] \in Nat
  <2>1. P \in [0..n -> Nat] /\ n \in 0..n
    BY <1>1, <1>n DEF SumsUpTo
  <2>2. QED
    BY <1>n, <2>1
<1>4. P[line[a]] <= P[n]
  BY <1>1, <1>n, <1>r, PrefixRises
<1>5. seenNow \in Nat
  BY <1>t, SeenType
<1> HIDE DEF r, n
<1>6. /\ seenNow + Line(a).amt <= PayAmount[r.pay]
      /\ seenNow + Line(a).amt + P[n] - P[line[a]] <= PayAmount[r.pay]
  BY <1>1, <1>2, <1>3, <1>4, <1>5, <1>t
<1>7. QED
  BY <1>1, <1>3, <1>5, <1>6 DEF r, n

(* Each check on the payment still holds where it is relied on. *)
LEMMA PayNext ==
  ASSUME Overlapping = {}, Guards = "enforce", TypeOK, TypeOK', SerialInv, PayInv,
         NEW a \in Actors, Step(a)
  PROVE  PayInv'
<1> USE DEF GoTo, ledgerVars, txVars, manualFrame, partialFrame, cacheFrame
<1>t. /\ pc \in [Actors -> PCs] /\ req \in [Actors -> Requests] /\ line \in [Actors -> Nat \ {0}]
      /\ pend \in [Actors -> [Invoices -> Nat]] /\ pend' \in [Actors -> [Invoices -> Nat]]
      /\ share \in Shares /\ share' \in Shares /\ PayAmount \in [Payments -> Nat]
  BY LedgerAssumption DEF TypeOK, LedgerTypeOK, ControlTypeOK, TxTypeOK, Shares
<1>l. req[a].pay \in Payments /\ Line(a).amt \in Nat /\ Line(a).inv \in Invoices
  BY LineType
<1>s. /\ SeenPay(a) = SeenPayIn(share, pend[a], req[a].pay)
      /\ SeenPayIn(share, pend[a], req[a].pay) \in Nat
      /\ SeenPayIn(share, Nothing, req[a].pay) = PayIn(share, req[a].pay)
      /\ PayIn(share, req[a].pay) \in Nat /\ PayAmount[req[a].pay] \in Nat
  <2>1. pend[a] \in [Invoices -> Nat]
    BY <1>t
  <2>2. QED
    BY <1>t, <1>l, <2>1, SeenIn, SeenType, SeenNothing, PayType
<1>i. \A n \in Nat, d, e \in [Invoices -> Nat] :
        (\A j \in Invoices : e[j] = IF j = Line(a).inv THEN d[j] + n ELSE d[j]) =>
          SeenPayIn(share, e, req[a].pay) = SeenPayIn(share, d, req[a].pay) + n
  <2> DEFINE p == req[a].pay
             i == Line(a).inv
  <2>1. share \in Shares /\ p \in Payments /\ i \in Invoices
    BY <1>t, <1>l
  <2> HIDE DEF p, i
  <2>2. ASSUME NEW n \in Nat, NEW d \in [Invoices -> Nat], NEW e \in [Invoices -> Nat],
               \A j \in Invoices : e[j] = IF j = i THEN d[j] + n ELSE d[j]
        PROVE  SeenPayIn(share, e, p) = SeenPayIn(share, d, p) + n
    BY <2>1, <2>2, SeenGrows
  <2>3. QED
    BY <2>2 DEF p, i
<1>g. PayGuard(a)
  BY DEF PayInv
<1>c. pc[a] \notin Holding => pend[a] = Nothing
  BY DEF SerialInv, Clean
<1>1. ASSUME NEW b \in Actors, b # a PROVE PayGuard(b)'
  <2>1. pc'[b] = "idle"
    BY <1>1, OthersIdle DEF SerialInv
  <2>2. QED
    BY <2>1 DEF PayGuard, Holding
<1>2. SUFFICES PayGuard(a)' /\ PaysFit'
  BY <1>1 DEF PayInv
<1>3. ASSUME share' = share PROVE PaysFit'
  BY <1>3 DEF PayInv, PaysFit
<1>4. ASSUME pc'[a] = "idle" PROVE PayGuard(a)'
  BY <1>4 DEF PayGuard, Holding
<1>5. ASSUME NEW r \in Requests, Arrive(a, r) PROVE PayGuard(a)' /\ PaysFit'
  BY <1>3, <1>5, <1>t DEF Arrive, PayGuard, Holding
<1>6. CASE ManualCheckPayment(a)
  <2>1. /\ pc'[a] \in {"mFail", "idle", "mInv"} /\ UNCHANGED <<share, req, line>>
        /\ pc'[a] = "mInv" => ~(Line(a).amt > PayAmount[req[a].pay] - PaySum(req[a].pay))
    BY <1>6, <1>t DEF ManualCheckPayment
  <2>2. pc'[a] = "mInv" => PayIn(share, req[a].pay) + Line(a).amt <= PayAmount[req[a].pay]
    BY <1>l, <1>s, <2>1, SumsIn
  <2>3. QED
    BY <1>3, <2>1, <2>2 DEF PayGuard, Holding, Line
<1>7. CASE ManualCheckInvoice(a)
  <2>1. pc[a] = "mInv" /\ pc'[a] = "mInsert" /\ UNCHANGED <<share, req, line>>
    BY <1>7, <1>t DEF ManualCheckInvoice
  <2>2. QED
    BY <1>3, <1>g, <2>1 DEF PayGuard, Holding, Line
<1>8. CASE ManualInsert(a)
  <2>1. PayGuard(a)'
    BY <1>8, <1>t DEF ManualInsert, PayGuard, Holding
  <2>2. PayIn(share, req[a].pay) + Line(a).amt <= PayAmount[req[a].pay]
    BY <1>8, <1>g DEF ManualInsert, PayGuard
  <2>3. share' = [share EXCEPT ![req[a].pay][Line(a).inv] = @ + Line(a).amt]
    BY <1>8 DEF ManualInsert
  <2>4. \A q \in Payments : PayIn(share', q) = PayIn(share, q) + (IF q = req[a].pay THEN Line(a).amt ELSE 0)
    <3> SUFFICES ASSUME NEW q \in Payments
                 PROVE  PayIn(share', q) = PayIn(share, q) + (IF q = req[a].pay THEN Line(a).amt ELSE 0)
      OBVIOUS
    <3> DEFINE m == IF q = req[a].pay THEN Line(a).amt ELSE 0
               i == Line(a).inv
    <3>1. share \in Shares /\ share' \in Shares /\ i \in Invoices /\ m \in Nat
      BY <1>t, <1>l
    <3>2. \A j \in Invoices : share'[q][j] = IF j = i THEN share[q][j] + m ELSE share[q][j]
      BY <1>t, <1>l, <2>3 DEF Shares
    <3> HIDE DEF m, i
    <3>3. PayIn(share', q) = PayIn(share, q) + m
      BY <3>1, <3>2, PayGrows
    <3>4. QED
      BY <3>3 DEF m
  <2>5. \A q \in Payments : PayIn(share, q) \in Nat /\ PayIn(share, q) <= PayAmount[q]
    BY <1>t, PayType DEF PayInv, PaysFit
  <2>6. PaysFit'
    BY <2>2, <2>4, <2>5 DEF PaysFit
  <2>7. QED
    BY <2>1, <2>6
<1>9. CASE ManualFlag(a) \/ ManualFinish(a) \/ ManualFault(a) \/ ManualFail(a)
  <2>1. pc'[a] \in {"mLog", "idle", "mFail", "mPay"} /\ share' = share
    BY <1>9, <1>t DEF ManualFlag, ManualFinish, ManualFault, ManualFail
  <2>2. QED
    BY <1>3, <2>1 DEF PayGuard, Holding
<1>10. CASE PartialSnapshot(a)
  <2>1. CASE pc'[a] = "idle"
    BY <1>3, <1>4, <1>10, <2>1 DEF PartialSnapshot
  <2>2. CASE pc'[a] # "idle"
    <3>1. /\ pc[a] = "pSnap" /\ pc'[a] = "pLine" /\ Valid(a)
          /\ UNCHANGED <<share, pend, req, line>>
      BY <1>10, <1>t, <2>2 DEF PartialSnapshot
    <3>2. line[a] = 1
      BY <1>g, <3>1 DEF PayGuard
    <3>3. PICK P : SumsUpTo(P, req[a])
      BY <1>t, PrefixSums
    <3>4. P[0] = 0 /\ P[Len(req[a].lines)] = Total(req[a]) /\ P[Len(req[a].lines)] \in Nat
      <4>1. req[a] \in Requests /\ Len(req[a].lines) \in Nat
        BY <1>t, RequestLines
      <4>2. /\ P \in [0..Len(req[a].lines) -> Nat] /\ P[0] = 0
            /\ P[Len(req[a].lines)] = Total(req[a])
        BY <3>3 DEF SumsUpTo
      <4>3. Len(req[a].lines) \in 0..Len(req[a].lines)
        BY <4>1
      <4>4. QED
        BY <4>2, <4>3
    <3>d. PICK sn : sn = SeenPayIn(share, pend[a], req[a].pay)
      OBVIOUS
    <3>5. sn \in Nat /\ sn + Total(req[a]) <= PayAmount[req[a].pay] /\ sn <= PayAmount[req[a].pay]
      <4>1. Total(req[a]) <= PayAmount[req[a].pay] - sn /\ sn \in Nat /\ Total(req[a]) \in Nat
        BY <1>s, <3>1, <3>4, <3>d DEF Valid
      <4>2. QED
        BY <1>s, <4>1
    <3>6. sn + P[Len(req[a].lines)] - P[line[a] - 1] <= PayAmount[req[a].pay]
      <4>1. line[a] - 1 = 0
        BY <3>2
      <4>2. QED
        BY <3>4, <3>5, <4>1
    <3>7. RestFits(a)'
      BY <3>1, <3>3, <3>6, <3>d DEF RestFits
    <3>8. SeenPayIn(share', pend'[a], req'[a].pay) <= PayAmount[req'[a].pay]
      BY <3>1, <3>5, <3>d
    <3>9. QED
      BY <1>3, <3>1, <3>7, <3>8 DEF PayGuard, Holding
  <2>3. QED
    BY <2>1, <2>2
<1>11. ASSUME NEW toSync \in SUBSET Invoices, NextLine(a, toSync), pc[a] \in {"pLine", "pInsert"},
              NEW amt \in {0, Line(a).amt}, UNCHANGED <<share, req>>,
              SeenPayIn(share', pend'[a], req'[a].pay) = SeenPayIn(share, pend[a], req[a].pay) + amt
       PROVE  PayGuard(a)' /\ PaysFit'
  <2>1. RestFits(a)
    BY <1>11, <1>g DEF PayGuard
  <2>d. PICK sn : sn = SeenPayIn(share, pend[a], req[a].pay)
    OBVIOUS
  <2>2. SeenPayIn(share', pend'[a], req'[a].pay) = sn + amt /\ amt \in Nat /\ amt <= Line(a).amt /\ sn \in Nat
    BY <1>11, <1>s, <1>l, <2>d
  <2>3. sn + Line(a).amt <= PayAmount[req[a].pay]
    BY <2>1, <2>d, LineFits
  <2>4. sn + amt <= PayAmount[req[a].pay]
    BY <1>l, <1>s, <2>2, <2>3
  <2>h. SeenPayIn(share', pend'[a], req'[a].pay) <= PayAmount[req'[a].pay]
    BY <1>11, <2>2, <2>4
  <2>5. CASE pc'[a] = "pLine"
    <3>1. line'[a] = line[a] + 1 /\ line[a] \in Nat
      BY <1>11, <1>t, <2>5 DEF NextLine
    <3>2. PICK P : /\ SumsUpTo(P, req[a])
                   /\ sn + Line(a).amt + P[Len(req[a].lines)] - P[line[a]]
                        <= PayAmount[req[a].pay]
                   /\ P[Len(req[a].lines)] \in Nat /\ P[line[a]] \in Nat
      BY <2>1, <2>d, LineFits
    <3>3. sn + amt + P[Len(req[a].lines)] - P[line'[a] - 1] <= PayAmount[req[a].pay]
      <4>1. line'[a] - 1 = line[a]
        BY <3>1
      <4>2. \A x, y, z, u, v, w \in Nat :
              u <= v /\ x + v + y - z <= w => x + u + y - z <= w
        OBVIOUS
      <4>3. sn + amt + P[Len(req[a].lines)] - P[line[a]] <= PayAmount[req[a].pay]
        BY <1>l, <1>s, <2>2, <3>2, <4>2
      <4>4. QED
        BY <4>1, <4>3
    <3>4. SeenPayIn(share', pend'[a], req'[a].pay) + P[Len(req'[a].lines)] - P[line'[a] - 1]
            <= PayAmount[req'[a].pay]
      BY <1>11, <2>2, <3>3
    <3>5. RestFits(a)'
      BY <1>11, <3>2, <3>4 DEF RestFits
    <3>6. QED
      BY <1>3, <1>11, <2>5, <2>h, <3>5 DEF PayGuard
  <2>6. CASE pc'[a] # "pLine"
    <3>1. pc'[a] \in {"commit", "cRead"}
      BY <1>11, <1>t, <2>6 DEF NextLine
    <3>2. QED
      BY <1>3, <1>11, <2>h, <3>1 DEF PayGuard
  <2>7. QED
    BY <2>5, <2>6
<1>12. CASE PartialSkip(a) \/ PartialInsertFails(a)
  <2>1. /\ NextLine(a, todo[a]) /\ pc[a] \in {"pLine", "pInsert"} /\ UNCHANGED <<share, req, pend>>
    BY <1>12 DEF PartialSkip, PartialInsertFails
  <2>2. todo[a] \in SUBSET Invoices
    BY DEF TypeOK, SyncTypeOK
  <2>3. SeenPayIn(share', pend'[a], req'[a].pay) = SeenPayIn(share, pend[a], req[a].pay) + 0
    BY <1>s, <2>1
  <2>4. QED
    BY <1>11, <2>1, <2>2, <2>3
<1>21. CASE PartialCheck(a)
  <2>1. pc[a] = "pLine" /\ pc'[a] = "pInsert" /\ UNCHANGED <<share, pend, req, line>>
    BY <1>21, <1>t DEF PartialCheck
  <2>2. RestFits(a) /\ SeenPayIn(share, pend[a], req[a].pay) <= PayAmount[req[a].pay]
    BY <1>g, <2>1 DEF PayGuard, Holding
  <2>3. RestFits(a)' /\ SeenPayIn(share', pend'[a], req'[a].pay) <= PayAmount[req'[a].pay]
    BY <2>1, <2>2 DEF RestFits
  <2>4. QED
    BY <1>3, <2>1, <2>3 DEF PayGuard, Holding
<1>13. CASE PartialReject(a)
  BY <1>3, <1>4, <1>13, <1>t DEF PartialReject, Rollback, Reset
<1>14. CASE PartialInsert(a)
  <2>1. todo[a] \cup {Line(a).inv} \in SUBSET Invoices
    BY <1>l DEF TypeOK, SyncTypeOK
  <2>2. /\ pend' = [pend EXCEPT ![a][Line(a).inv] = @ + Line(a).amt] /\ UNCHANGED <<share, req>>
        /\ pc[a] = "pInsert" /\ NextLine(a, todo[a] \cup {Line(a).inv})
    BY <1>14 DEF PartialInsert, InsertPending
  <2>3. /\ pend[a] \in [Invoices -> Nat] /\ pend'[a] \in [Invoices -> Nat]
        /\ \A j \in Invoices : pend'[a][j] = IF j = Line(a).inv THEN pend[a][j] + Line(a).amt ELSE pend[a][j]
    BY <1>t, <2>2
  <2>4. SeenPayIn(share, pend'[a], req[a].pay) = SeenPayIn(share, pend[a], req[a].pay) + Line(a).amt
    BY <1>l, <2>3, <1>i
  <2>5. SeenPayIn(share', pend'[a], req'[a].pay) = SeenPayIn(share, pend[a], req[a].pay) + Line(a).amt
    BY <2>2, <2>4
  <2>6. QED
    BY <1>11, <2>1, <2>2, <2>5
<1>15. CASE FullRead(a)
  <2>1. pc[a] = "fRead" /\ UNCHANGED <<share, req, pend>>
    BY <1>15 DEF FullRead
  <2>2. pc'[a] = "idle" \/ (pc'[a] = "fUpdate" /\ FullGuard(a))
    BY <1>15, <1>t DEF FullRead
  <2>3. FullGuard(a) => PayIn(share, req[a].pay) = 0
    BY <1>c, <1>s, <2>1 DEF FullGuard, Holding
  <2>4. QED
    BY <1>3, <2>1, <2>2, <2>3 DEF PayGuard, Holding
<1>16. CASE FullUpdate(a)
  <2>1. /\ pc[a] = "fUpdate" /\ pc'[a] \in {"commit", "fInsert"} /\ UNCHANGED <<share, req, pend>>
    BY <1>16, <1>t DEF FullUpdate
  <2>2. PayIn(share, req[a].pay) = 0 /\ pend[a] = Nothing
    BY <1>g, <1>c, <2>1 DEF PayGuard, Holding
  <2>3. SeenPayIn(share', pend'[a], req'[a].pay) <= PayAmount[req'[a].pay]
    BY <1>s, <2>1, <2>2
  <2>4. QED
    BY <1>3, <2>1, <2>2, <2>3 DEF PayGuard
<1>17. CASE FullInsert(a)
  <2>1. pc[a] = "fInsert" /\ UNCHANGED <<share, req>> /\ pc'[a] \in {"commit", "cRead"}
    BY <1>17, <1>t DEF FullInsert
  <2>2. PayIn(share, req[a].pay) = 0 /\ pend[a] = Nothing
    BY <1>g, <1>c, <2>1 DEF PayGuard, Holding
  <2>3. CASE pend' = pend
    <3>1. SeenPayIn(share', pend'[a], req'[a].pay) <= PayAmount[req'[a].pay]
      BY <1>s, <2>1, <2>2, <2>3
    <3>2. QED
      BY <1>3, <2>1, <3>1 DEF PayGuard
  <2>4. CASE pend' = [pend EXCEPT ![a][Line(a).inv] = @ + PayAmount[req[a].pay]]
    <3>1. /\ pend[a] \in [Invoices -> Nat] /\ pend'[a] \in [Invoices -> Nat]
          /\ \A j \in Invoices : pend'[a][j] = IF j = Line(a).inv THEN pend[a][j] + PayAmount[req[a].pay] ELSE pend[a][j]
      BY <1>t, <2>4
    <3>2. SeenPayIn(share, pend'[a], req[a].pay) = SeenPayIn(share, pend[a], req[a].pay) + PayAmount[req[a].pay]
      BY <1>s, <3>1, <1>i
    <3>3. SeenPayIn(share', pend'[a], req'[a].pay) <= PayAmount[req'[a].pay]
      BY <1>s, <2>1, <2>2, <3>2
    <3>4. QED
      BY <1>3, <2>1, <3>3 DEF PayGuard
  <2>5. QED
    BY <1>17, <2>3, <2>4 DEF FullInsert, InsertPending
<1>18. CASE CacheRead(a) \/ CacheWrite(a)
  <2>1. /\ pc[a] \in Holding /\ pc'[a] \in {"cRead", "cWrite", "commit"}
        /\ UNCHANGED <<share, req, pend>>
    BY <1>18, <1>t DEF CacheRead, CacheWrite, Holding
  <2>2. SeenPayIn(share, pend[a], req[a].pay) <= PayAmount[req[a].pay]
    BY <1>g, <2>1 DEF PayGuard
  <2>3. SeenPayIn(share', pend'[a], req'[a].pay) <= PayAmount[req'[a].pay]
    BY <2>1, <2>2
  <2>4. QED
    BY <1>3, <2>1, <2>3 DEF PayGuard
<1>19. CASE Commit(a)
  <2>1. PayGuard(a)'
    BY <1>4, <1>19, <1>t DEF Commit, Reset
  <2>2. SeenPayIn(share, pend[a], req[a].pay) <= PayAmount[req[a].pay]
    BY <1>19, <1>g DEF Commit, PayGuard, Holding
  <2>3. CASE aborted[a]
    BY <1>3, <1>19, <2>1, <2>3 DEF Commit
  <2>4. CASE ~aborted[a]
    <3>1. share' = [share EXCEPT ![req[a].pay] = [i \in Invoices |-> share[req[a].pay][i] + pend[a][i]]]
      BY <1>19, <2>4 DEF Commit
    <3>2. /\ share'[req[a].pay] = [i \in Invoices |-> share[req[a].pay][i] + pend[a][i]]
          /\ \A q \in Payments : q # req[a].pay => share'[q] = share[q]
      BY <1>t, <1>l, <3>1 DEF Shares
    <3>3. PayIn(share', req[a].pay) = SeenPayIn(share, pend[a], req[a].pay)
      BY <3>2 DEF PayIn, SeenPayIn
    <3>4. \A q \in Payments : q # req[a].pay => PayIn(share', q) = PayIn(share, q)
      BY <3>2 DEF PayIn
    <3>5. PaysFit'
      BY <2>2, <3>3, <3>4 DEF PayInv, PaysFit
    <3>6. QED
      BY <2>1, <3>5
  <2>5. QED
    BY <2>3, <2>4
<1>20. QED
  BY <1>5, <1>6, <1>7, <1>8, <1>9, <1>10, <1>12, <1>13, <1>14, <1>15, <1>16, <1>17, <1>18, <1>19,
     <1>21 DEF Step

(* A check that has been passed still holds when rows have gone.           *)
LEMMA PayDeletion == ASSUME TypeOK, PayInv, Deletion PROVE PayInv'
<1>1. /\ share \in Shares /\ share' \in Shares /\ UNCHANGED <<pc, req, line, pend>>
      /\ \A p \in Payments, i \in Invoices : share'[p][i] <= share[p][i]
  BY DeletionShrinks
<1>2. /\ \A p \in Payments : PayIn(share', p) <= PayIn(share, p)
      /\ \A p \in Payments, d \in [Invoices -> Nat] : SeenPayIn(share', d, p) <= SeenPayIn(share, d, p)
  BY <1>1, SumsShrink
<1>3. \A p \in Payments : /\ PayAmount[p] \in Nat /\ PayIn(share', p) \in Nat /\ PayIn(share, p) \in Nat
                          /\ PayIn(share, p) <= PayAmount[p]
  BY <1>1, PayType, LedgerAssumption DEF PayInv, PaysFit
<1>4. PaysFit'
  BY <1>2, <1>3 DEF PaysFit
<1>5. ASSUME NEW a \in Actors PROVE PayGuard(a)'
  <2>1. /\ req[a].pay \in Payments /\ Line(a).amt \in Nat /\ pend[a] \in [Invoices -> Nat]
        /\ req[a] \in Requests /\ line[a] \in 1..Len(req[a].lines) /\ PayGuard(a)
    BY LineType DEF TypeOK, ControlTypeOK, TxTypeOK, PayInv
  <2>2. Line(a)' = Line(a)
    BY <1>1 DEF Line
  <2>d. PICK sn, sn2 : sn = SeenPayIn(share, pend[a], req[a].pay) /\ sn2 = SeenPayIn(share', pend[a], req[a].pay)
    OBVIOUS
  <2>3. sn \in Nat /\ sn2 \in Nat /\ sn2 <= sn
    BY <1>1, <1>2, <2>1, <2>d, SeenType
  <2>4. ASSUME RestFits(a) PROVE RestFits(a)'
    <3>1. PICK P : /\ SumsUpTo(P, req[a])
                   /\ sn + P[Len(req[a].lines)] - P[line[a] - 1] <= PayAmount[req[a].pay]
      BY <2>4, <2>d DEF RestFits
    <3>2. P[Len(req[a].lines)] \in Nat /\ P[line[a] - 1] \in Nat
      <4>1. Len(req[a].lines) \in Nat
        BY <2>1, RequestLines
      <4>2. Len(req[a].lines) \in 0..Len(req[a].lines) /\ line[a] - 1 \in 0..Len(req[a].lines)
        BY <2>1, <4>1
      <4>3. QED
        BY <3>1, <4>2 DEF SumsUpTo
    <3>3. sn2 + P[Len(req[a].lines)] - P[line[a] - 1] <= PayAmount[req[a].pay]
      <4>1. \A u, v, x, y, z \in Nat : u <= v /\ v + x - y <= z => u + x - y <= z
        OBVIOUS
      <4>2. PayAmount[req[a].pay] \in Nat
        BY <1>3, <2>1
      <4>3. QED
        BY <2>3, <3>1, <3>2, <4>1, <4>2
    <3>4. QED
      BY <1>1, <2>d, <3>1, <3>3 DEF RestFits
  <2>5. SeenPayIn(share, pend[a], req[a].pay) <= PayAmount[req[a].pay] =>
          SeenPayIn(share', pend'[a], req'[a].pay) <= PayAmount[req'[a].pay]
    BY <1>1, <1>3, <2>1, <2>3, <2>d
  <2>6. /\ PayIn(share, req[a].pay) + Line(a).amt <= PayAmount[req[a].pay] =>
             PayIn(share', req[a].pay) + Line(a).amt <= PayAmount[req[a].pay]
        /\ PayIn(share, req[a].pay) = 0 => PayIn(share', req[a].pay) = 0
    BY <1>2, <1>3, <2>1
  <2>7. QED
    BY <1>1, <2>1, <2>2, <2>4, <2>5, <2>6 DEF PayGuard
<1>6. QED
  BY <1>4, <1>5 DEF PayInv

(* When the guards are enforced and requests come one at a time, the       *)
(* allocations of a payment never add up to more than the payment, for     *)
(* every mix of manual, partial and full requests, rows left out, rolled   *)
(* back and repeated after faults, payments and invoices deleted and the   *)
(* process ended at any await.                                             *)
THEOREM PaymentSafety ==
  ASSUME Overlapping = {}, Guards = "enforce"
  PROVE  Spec => []PaymentNotOverAllocated
<1>1. Spec => []TypeOK
  BY CacheSafety, PTL
<1>2. Init => SerialInv /\ PayInv
  <2>1. ASSUME Init PROVE SerialInv /\ PayInv
    <3>1. SerialInv
      BY <2>1 DEF Init, SerialInv, Serial, Clean
    <3>2. \A a \in Actors : PayGuard(a)
      BY <2>1 DEF Init, PayGuard, Holding
    <3>3. ASSUME NEW p \in Payments PROVE PayIn(share, p) <= PayAmount[p]
      <4> DEFINE f == share[p]
      <4>1. IsFiniteSet(Invoices) /\ \A i \in Invoices : f[i] = 0
        BY <2>1, LedgerAssumption DEF Init, Nothing
      <4> HIDE DEF f
      <4>2. SumOver(f, Invoices) = 0
        BY <4>1, SumZero
      <4>3. PayIn(share, p) = 0
        BY <4>2 DEF f, PayIn
      <4>4. QED
        BY <4>3, LedgerAssumption
    <3>4. QED
      BY <3>1, <3>2, <3>3 DEF PayInv, PaysFit
  <2>2. QED
    BY <2>1
<1>3. TypeOK /\ TypeOK' /\ SerialInv /\ PayInv /\ [Next]_vars => SerialInv' /\ PayInv'
  <2> SUFFICES ASSUME TypeOK, TypeOK', SerialInv, PayInv, [Next]_vars
               PROVE  PayInv'
    BY SerialAll
  <2>1. CASE UNCHANGED vars
    BY <2>1 DEF vars, ledgerVars, txVars, PayInv, PayGuard, RestFits, PaysFit, Line
  <2>2. CASE Restart
    BY <2>2 DEF Restart, ledgerVars, PayInv, PayGuard, PaysFit, Holding
  <2>3. QED
    BY <2>1, <2>2, PayNext, PayDeletion DEF Next
<1>4. PayInv => PaymentNotOverAllocated
  BY SumsIn DEF PayInv, PaysFit, PaymentNotOverAllocated
<1>5. QED
  BY <1>1, <1>2, <1>3, <1>4, PTL DEF Spec

(* What the checks of a request on its invoices still tell; a manual one   *)
(* makes none.                                                             *)
InvoiceGuard(a) ==
  /\ pc[a] \in {"fUpdate", "fInsert"} =>
       InvIn(share, Line(a).inv) + PayAmount[req[a].pay] <= InvAmount[Line(a).inv]
  /\ pc[a] = "pInsert" =>
       InvIn(share, Line(a).inv) + pend[a][Line(a).inv] + Line(a).amt <= InvAmount[Line(a).inv]
  /\ \A i \in Invoices : pend[a][i] # 0 => InvIn(share, i) + pend[a][i] <= InvAmount[i]

InvoiceInv == \A a \in Actors : InvoiceGuard(a)

(* Each check on an invoice still holds where it is relied on. *)
LEMMA InvoiceNext ==
  ASSUME Overlapping = {}, Guards = "enforce", TypeOK, TypeOK', SerialInv, SerialInv',
         InvoiceInv, NEW a \in Actors, Step(a)
  PROVE  InvoiceInv'
<1> USE DEF GoTo, ledgerVars, txVars, manualFrame, partialFrame, cacheFrame
<1>t. /\ pc \in [Actors -> PCs] /\ req \in [Actors -> Requests] /\ line \in [Actors -> Nat \ {0}]
      /\ pend \in [Actors -> [Invoices -> Nat]] /\ pend' \in [Actors -> [Invoices -> Nat]]
      /\ share \in Shares /\ share' \in Shares
      /\ PayAmount \in [Payments -> Nat] /\ InvAmount \in [Invoices -> Nat]
  BY LedgerAssumption DEF TypeOK, LedgerTypeOK, ControlTypeOK, TxTypeOK, Shares
<1>l. req[a].pay \in Payments /\ Line(a).amt \in Nat /\ Line(a).inv \in Invoices
  BY LineType
<1>s. \A i \in Invoices : InvIn(share, i) \in Nat /\ pend[a][i] \in Nat /\ SeenInv(a, i) = InvIn(share, i) + pend[a][i]
  BY <1>t, InvType, SumsIn DEF SeenInv
<1>g. InvoiceGuard(a)
  BY DEF InvoiceInv
<1>c. pc[a] \notin Holding => pend[a] = Nothing
  BY DEF SerialInv, Clean
<1>e. ASSUME NEW b \in Actors, pend'[b] = Nothing, pc'[b] \notin {"fUpdate", "fInsert", "pInsert"}
      PROVE  InvoiceGuard(b)'
  BY <1>e DEF InvoiceGuard, Nothing
<1>1. ASSUME NEW b \in Actors, b # a PROVE InvoiceGuard(b)'
  <2>1. pc'[b] = "idle"
    BY <1>1, OthersIdle DEF SerialInv
  <2>2. QED
    BY <1>e, <2>1 DEF SerialInv, Clean, Holding
<1>2. SUFFICES InvoiceGuard(a)'
  BY <1>1 DEF InvoiceInv
<1>3. ASSUME share' = share, pend'[a] = pend[a], pc'[a] \notin {"fUpdate", "fInsert", "pInsert"}
      PROVE  InvoiceGuard(a)'
  BY <1>3, <1>g DEF InvoiceGuard
<1>4. ASSUME NEW r \in Requests, Arrive(a, r) PROVE InvoiceGuard(a)'
  <2>1. UNCHANGED <<share, pend>> /\ pc'[a] \in {"mPay", "pSnap", "fRead"}
    BY <1>4, <1>t DEF Arrive
  <2>2. QED
    BY <1>3, <2>1
<1>5. CASE \/ ManualCheckPayment(a) \/ ManualCheckInvoice(a) \/ ManualInsert(a) \/ ManualFlag(a)
           \/ ManualFinish(a) \/ ManualFault(a) \/ ManualFail(a)
  <2>1. /\ pc[a] \in {"mPay", "mInv", "mInsert", "mFlag", "mLog", "mFail"} /\ pend' = pend
        /\ pc'[a] \in {"idle", "mPay", "mInv", "mInsert", "mFlag", "mLog", "mFail"}
    BY <1>5, <1>t DEF ManualCheckPayment, ManualCheckInvoice, ManualInsert, ManualFlag, ManualFinish,
       ManualFault, ManualFail
  <2>2. QED
    BY <1>c, <1>e, <2>1 DEF Holding
<1>6. CASE PartialSnapshot(a) \/ PartialSkip(a) \/ PartialInsertFails(a) \/ CacheRead(a) \/ CacheWrite(a)
  <2>1. UNCHANGED <<share, pend>> /\ pc'[a] \in {"idle", "pLine", "cRead", "cWrite", "commit"}
    BY <1>6, <1>t DEF PartialSnapshot, PartialSkip, PartialInsertFails, NextLine, CacheRead, CacheWrite
  <2>2. QED
    BY <1>3, <2>1
<1>7. CASE PartialReject(a) \/ Commit(a)
  <2>1. pc'[a] = "idle" /\ pend'[a] = Nothing
    BY <1>7, <1>t DEF PartialReject, Rollback, Commit, Reset
  <2>2. QED
    BY <1>e, <2>1
<1>8. CASE PartialCheck(a)
  <2>1. UNCHANGED <<share, pend, req, line>> /\ pc'[a] = "pInsert" /\ ~OverRemaining(a)
    BY <1>8, <1>t DEF PartialCheck
  <2>2. InvIn(share, Line(a).inv) + pend[a][Line(a).inv] + Line(a).amt <= InvAmount[Line(a).inv]
    <3>1. InvAmount[Line(a).inv] \in Nat
      BY <1>t, <1>l
    <3>2. QED
      BY <1>l, <1>s, <2>1, <3>1 DEF OverRemaining
  <2>3. QED
    BY <1>g, <2>1, <2>2 DEF InvoiceGuard, Line
<1>9. ASSUME NEW amt \in Nat, InsertPending(a, amt), share' = share,
             InvIn(share, Line(a).inv) + pend[a][Line(a).inv] + amt <= InvAmount[Line(a).inv],
             pc'[a] \notin {"fUpdate", "fInsert", "pInsert"}
      PROVE  InvoiceGuard(a)'
  <2>1. pend' = [pend EXCEPT ![a][Line(a).inv] = @ + amt]
    BY <1>9 DEF InsertPending
  <2>2. ASSUME NEW i \in Invoices, pend'[a][i] # 0 PROVE InvIn(share', i) + pend'[a][i] <= InvAmount[i]
    <3>1. CASE i = Line(a).inv
      <4>1. pend'[a][i] = pend[a][i] + amt
        BY <1>t, <1>l, <2>1, <3>1
      <4>2. QED
        BY <1>9, <1>s, <3>1, <4>1
    <3>2. CASE i # Line(a).inv
      <4>1. pend'[a][i] = pend[a][i]
        BY <1>t, <1>l, <2>1, <3>2
      <4>2. QED
        BY <1>9, <1>g, <2>2, <4>1 DEF InvoiceGuard
    <3>3. QED
      BY <3>1, <3>2
  <2>3. QED
    BY <1>9, <2>2 DEF InvoiceGuard
<1>10. CASE PartialInsert(a)
  <2>1. /\ InsertPending(a, Line(a).amt) /\ share' = share /\ pc[a] = "pInsert"
        /\ pc'[a] \in {"pLine", "cRead", "commit"}
    BY <1>10, <1>t DEF PartialInsert, NextLine
  <2>2. QED
    BY <1>9, <1>l, <1>g, <2>1 DEF InvoiceGuard
<1>11. CASE FullRead(a)
  <2>1. UNCHANGED <<share, pend, req, line>> /\ pc[a] = "fRead"
    BY <1>11 DEF FullRead
  <2>2. pc'[a] = "idle" \/ (pc'[a] = "fUpdate" /\ FullGuard(a))
    BY <1>11, <1>t DEF FullRead
  <2>3. FullGuard(a) => InvIn(share, Line(a).inv) + PayAmount[req[a].pay] <= InvAmount[Line(a).inv]
    <3>1. pend[a][Line(a).inv] = 0
      BY <1>c, <1>l, <2>1 DEF Holding, Nothing
    <3>2. QED
      BY <1>l, <1>s, <3>1 DEF FullGuard
  <2>4. QED
    BY <1>3, <1>g, <2>1, <2>2, <2>3 DEF InvoiceGuard, Line
<1>12. CASE FullUpdate(a)
  <2>1. /\ pc[a] = "fUpdate" /\ pc'[a] \in {"commit", "fInsert"}
        /\ UNCHANGED <<share, pend, req, line>>
    BY <1>12, <1>t DEF FullUpdate
  <2>2. QED
    BY <1>g, <2>1 DEF InvoiceGuard, Line
<1>13. CASE FullInsert(a)
  <2>1. pc[a] = "fInsert" /\ share' = share /\ pc'[a] \in {"commit", "cRead"}
    BY <1>13, <1>t DEF FullInsert
  <2>2. CASE pend' = pend
    BY <1>3, <2>1, <2>2
  <2>3. CASE InsertPending(a, PayAmount[req[a].pay])
    <3>1. pend[a][Line(a).inv] = 0
      BY <1>c, <1>l, <2>1 DEF Holding, Nothing
    <3>2. InvIn(share, Line(a).inv) + PayAmount[req[a].pay] <= InvAmount[Line(a).inv]
      BY <1>g, <2>1 DEF InvoiceGuard
    <3>3. PayAmount[req[a].pay] \in Nat
      BY <1>l, <1>t
    <3>4. InvIn(share, Line(a).inv) + pend[a][Line(a).inv] + PayAmount[req[a].pay] <= InvAmount[Line(a).inv]
      BY <1>l, <1>s, <3>1, <3>2, <3>3
    <3>5. QED
      BY <1>9, <2>1, <2>3, <3>3, <3>4
  <2>4. QED
    BY <1>13, <2>2, <2>3 DEF FullInsert
<1>14. QED
  BY <1>4, <1>5, <1>6, <1>7, <1>8, <1>10, <1>11, <1>12, <1>13 DEF Step

LEMMA InvoiceDeletion == ASSUME TypeOK, InvoiceInv, Deletion PROVE InvoiceInv'
<1>1. /\ share \in Shares /\ share' \in Shares /\ UNCHANGED <<pc, req, line, pend>>
      /\ \A p \in Payments, i \in Invoices : share'[p][i] <= share[p][i]
  BY DeletionShrinks
<1>2. \A i \in Invoices : InvIn(share', i) <= InvIn(share, i)
  BY <1>1, SumsShrink
<1>3. \A i \in Invoices : InvIn(share, i) \in Nat /\ InvIn(share', i) \in Nat /\ InvAmount[i] \in Nat
  BY <1>1, InvType, LedgerAssumption
<1>4. ASSUME NEW a \in Actors PROVE InvoiceGuard(a)'
  <2>1. /\ req[a].pay \in Payments /\ Line(a).amt \in Nat /\ Line(a).inv \in Invoices
        /\ \A i \in Invoices : pend[a][i] \in Nat
    BY LineType DEF TypeOK, TxTypeOK
  <2>2. PayAmount[req[a].pay] \in Nat /\ Line(a)' = Line(a)
    BY <1>1, <2>1, LedgerAssumption DEF Line
  <2>3. InvoiceGuard(a)
    BY DEF InvoiceInv
  <2>4. ASSUME NEW i \in Invoices, pend[a][i] # 0 PROVE InvIn(share', i) + pend[a][i] <= InvAmount[i]
    BY <1>2, <1>3, <2>1, <2>3, <2>4 DEF InvoiceGuard
  <2>5. pc[a] \in {"fUpdate", "fInsert"} =>
          InvIn(share', Line(a).inv) + PayAmount[req[a].pay] <= InvAmount[Line(a).inv]
    BY <1>2, <1>3, <2>1, <2>2, <2>3 DEF InvoiceGuard
  <2>6. pc[a] = "pInsert" =>
          InvIn(share', Line(a).inv) + pend[a][Line(a).inv] + Line(a).amt <= InvAmount[Line(a).inv]
    BY <1>2, <1>3, <2>1, <2>3 DEF InvoiceGuard
  <2>7. QED
    BY <1>1, <2>2, <2>4, <2>5, <2>6 DEF InvoiceGuard
<1>5. QED
  BY <1>4 DEF InvoiceInv

(* When the guards are enforced and requests come one at a time, nothing   *)
(* but the insert of a manual allocation brings an invoice above its       *)
(* amount, though allocatePartial never compares the sum of its lines with *)
(* the invoice, and whatever manual allocations, which may exceed it, come *)
(* before and after.                                                       *)
THEOREM InvoiceSafety ==
  ASSUME Overlapping = {}, Guards = "enforce"
  PROVE  Spec => OnlyManualExceeds
<1> DEFINE Exceeds == \A i \in Invoices :
             InvSum(i)' > InvSum(i) /\ InvSum(i)' > InvAmount[i] =>
               \E a \in Actors : pc[a] = "mInsert" /\ Line(a).inv = i
<1>1. Spec => []TypeOK
  BY CacheSafety, PTL
<1>2. Init => SerialInv /\ InvoiceInv
  BY DEF Init, SerialInv, Serial, Clean, InvoiceInv, InvoiceGuard, Nothing
<1>3. TypeOK /\ TypeOK' /\ SerialInv /\ InvoiceInv /\ [Next]_vars => SerialInv' /\ InvoiceInv'
  <2> SUFFICES ASSUME TypeOK, TypeOK', SerialInv, SerialInv', InvoiceInv, [Next]_vars
               PROVE  InvoiceInv'
    BY SerialAll
  <2>1. CASE UNCHANGED vars
    BY <2>1 DEF vars, ledgerVars, txVars, InvoiceInv, InvoiceGuard, Line
  <2>2. CASE Restart
    BY <2>2 DEF Restart, InvoiceInv, InvoiceGuard, Nothing
  <2>3. QED
    BY <2>1, <2>2, InvoiceNext, InvoiceDeletion DEF Next
<1>4. TypeOK /\ TypeOK' /\ InvoiceInv /\ [Next]_vars => [Exceeds]_vars
  <2> SUFFICES ASSUME TypeOK, TypeOK', InvoiceInv, Next, NEW i \in Invoices,
                      InvIn(share', i) > InvIn(share, i), InvIn(share', i) > InvAmount[i]
               PROVE  \E a \in Actors : pc[a] = "mInsert" /\ Line(a).inv = i
    BY SumsIn
  <2>0. share \in Shares /\ share' \in Shares
    BY DEF TypeOK, LedgerTypeOK, Shares
  <2>t. InvIn(share, i) \in Nat /\ InvIn(share', i) \in Nat /\ InvAmount[i] \in Nat
    BY <2>0, InvType, LedgerAssumption
  <2>1. ASSUME Deletion PROVE FALSE
    <3>1. InvIn(share', i) <= InvIn(share, i)
      BY <2>0, <2>1, DeletionShrinks, SumsShrink
    <3>2. QED
      BY <2>t, <3>1
  <2>2. ASSUME Restart PROVE FALSE
    BY <2>2, <2>t DEF Restart, ledgerVars
  <2>3. PICK a \in Actors : Step(a)
    BY <2>1, <2>2 DEF Next
  <2>4. share' = share \/ Allocates(a) \/ Commits(a)
    BY <2>3, Effects DEF Keeps, Drops, Inserts
  <2>5. CASE Allocates(a)
    <3>1. Line(a).inv = i
      BY <2>5, <2>t, InvSteps
    <3>2. QED
      BY <2>5, <3>1 DEF Allocates
  <2>6. CASE ~Allocates(a)
    <3>1. InvIn(share', i) = InvIn(share, i) + pend[a][i]
      BY <2>4, <2>6, <2>t, InvSteps
    <3>2. pend[a][i] \in Nat
      BY DEF TypeOK, TxTypeOK
    <3>3. pend[a][i] # 0 /\ InvIn(share, i) + pend[a][i] > InvAmount[i]
      BY <2>t, <3>1, <3>2
    <3>4. QED
      BY <3>2, <3>3, <2>t DEF InvoiceInv, InvoiceGuard
  <2>7. QED
    BY <2>5, <2>6
<1> HIDE DEF Exceeds
<1>5. Spec => [][Exceeds]_vars
  BY <1>1, <1>2, <1>3, <1>4, PTL DEF Spec
<1>6. QED
  BY <1>5 DEF OnlyManualExceeds, Exceeds
=============================================================================
