---------------------------- MODULE CacheProofs ----------------------------
(***************************************************************************)
(* FinancialCache for any processes, lifetimes and bounds: old results are *)
(* not served for ever, and the stored totals are current unless the last  *)
(* update was overtaken or given up.                                       *)
(* AgeInv is the inductive strengthening of StalenessBounded.  An old      *)
(* entry is one that misses a change which was followed by an invalidation *)
(* at d.  It was read before d, so the calculation that stored it began by *)
(* d and ended by d + FillTime; a listing stamps it again only until       *)
(* d + SoftTTL, since a stamp after d makes it valid or too old to be      *)
(* served; and a refresh does so at a timeout that some invalidation has   *)
(* set before the entry was stored, that is by d + FillTime + RefreshDelay.*)
(***************************************************************************)
EXTENDS FinancialCache, TLAPS

PCs == {"idle", "changed", "sales", "paid", "store", "write", "written"}
Running(c) == pc[c] \in {"sales", "paid", "store"}

\* What the proof needs of the types.
Shape ==
  /\ version \in 0..MaxChanges /\ clock \in Nat \ {0} /\ lastInval \in Nat
  /\ cache \in [sales : Nat, stamp : Nat] /\ timers \subseteq Nat
  /\ pc \in [Calcs -> PCs] /\ begun \in [Calcs -> Nat]
  /\ got \in [Calcs -> [sales : Nat, paid : Nat]]
  /\ doneAt \in [1..MaxChanges -> Nat]

\* Timeouts are at most RefreshDelay away and none is overdue; calculations are in time.
InTime ==
  /\ lastInval <= clock
  /\ \A t \in timers : clock <= t /\ t <= clock + RefreshDelay
  /\ \A c \in Calcs : Running(c) => begun[c] <= clock /\ clock <= begun[c] + FillTime
  /\ \A v \in 1..MaxChanges : doneAt[v] # 0 => doneAt[v] <= clock /\ v <= version

\* A calculation that has read data without v began before the invalidation that followed v.
OldReads ==
  \A c \in Calcs, v \in 1..MaxChanges :
    pc[c] \in {"paid", "store"} /\ doneAt[v] # 0 /\ got[c].sales < v => begun[c] <= doneAt[v]

\* An entry without v: when it was stamped, and which refreshes may still stamp it.
OldEntry ==
  \A v \in 1..MaxChanges :
    cache.stamp # 0 /\ doneAt[v] # 0 /\ cache.sales < v =>
      /\ cache.stamp <= doneAt[v] + SoftTTL
      /\ cache.stamp <= doneAt[v] \/ lastInval <= cache.stamp
      /\ \A t \in timers : t <= doneAt[v] + FillTime + RefreshDelay

AgeInv == Shape /\ InTime /\ OldReads /\ OldEntry

LEMMA AgeInit ==
  ASSUME Init PROVE AgeInv
  BY CacheAssumption DEF Init, NoEntry, PCs, Running, AgeInv, Shape, InTime, OldReads, OldEntry

(* An invalidation leaves no old entry, and its timeout is in time.        *)
LEMMA InvalidateKeeps ==
  ASSUME AgeInv, Invalidate, clock' = clock
  PROVE  /\ cache'.stamp = 0 /\ cache' \in [sales : Nat, stamp : Nat] /\ lastInval' = clock
         /\ timers' \subseteq Nat
         /\ \A t \in timers' : clock <= t /\ t <= clock + RefreshDelay
  BY CacheAssumption DEF AgeInv, Shape, InTime, Invalidate, NoEntry

(* A calculation that ends without a result.                               *)
LEMMA RestKeeps ==
  ASSUME AgeInv, NEW c \in Calcs, Rest(c),
         UNCHANGED <<version, cache, lastInval, timers, clock, doneAt>>
  PROVE  AgeInv'
<1>1. /\ begun' = [begun EXCEPT ![c] = 0] /\ pc' = [pc EXCEPT ![c] = "idle"]
      /\ got' = [got EXCEPT ![c] = [sales |-> 0, paid |-> 0]]
  BY DEF Rest, GoTo
<1> QED
  BY <1>1 DEF AgeInv, Shape, InTime, OldReads, OldEntry, PCs, Running

(* Steps of a request.                                                     *)
LEMMA SyncKeeps ==
  ASSUME AgeInv, NEW c \in Calcs, SyncStep(c) PROVE AgeInv'
<1> USE CacheAssumption DEF AgeInv
<1>1. CASE Change(c)
  BY <1>1 DEF Change, GoTo, Shape, InTime, OldReads, OldEntry, PCs, Running
<1>2. CASE SyncStart(c)
  <2>1. /\ cache'.stamp = 0 /\ cache' \in [sales : Nat, stamp : Nat] /\ lastInval' = clock
        /\ timers' \subseteq Nat
        /\ \A t \in timers' : clock <= t /\ t <= clock + RefreshDelay
    BY <1>2, InvalidateKeeps DEF SyncStart
  <2>2. /\ UNCHANGED <<version, clock, got>> /\ begun' = [begun EXCEPT ![c] = clock]
        /\ pc' = [pc EXCEPT ![c] = "sales"]
        /\ doneAt' = [v \in 1..MaxChanges |->
                        IF v <= version /\ doneAt[v] = 0 THEN clock ELSE doneAt[v]]
    BY <1>2 DEF SyncStart, Begin, GoTo
  <2>3. Shape'
    BY <2>1, <2>2 DEF Shape, PCs
  <2>4. InTime'
    BY <2>1, <2>2 DEF Shape, InTime, Running
  <2>5. OldReads'
    BY <2>2 DEF Shape, InTime, OldReads, Running
  <2>6. OldEntry'
    BY <2>1 DEF OldEntry
  <2> QED
    BY <2>3, <2>4, <2>5, <2>6
<1>3. CASE SyncWrite(c)
  BY <1>3 DEF SyncWrite, GoTo, Shape, InTime, OldReads, OldEntry, PCs, Running
<1>4. CASE SyncEnd(c)
  <2>1. /\ cache'.stamp = 0 /\ cache' \in [sales : Nat, stamp : Nat] /\ lastInval' = clock
        /\ timers' \subseteq Nat
        /\ \A t \in timers' : clock <= t /\ t <= clock + RefreshDelay
    BY <1>4, InvalidateKeeps DEF SyncEnd
  <2>2. /\ UNCHANGED <<version, clock, doneAt>> /\ pc' = [pc EXCEPT ![c] = "idle"]
        /\ begun' = [begun EXCEPT ![c] = 0]
        /\ got' = [got EXCEPT ![c] = [sales |-> 0, paid |-> 0]]
    BY <1>4 DEF SyncEnd, Rest, GoTo
  <2> QED
    BY <2>1, <2>2 DEF Shape, InTime, OldReads, OldEntry, PCs, Running
<1>5. CASE SyncRetry(c)
  BY <1>5 DEF SyncRetry, GoTo, Shape, InTime, OldReads, OldEntry, PCs, Running
<1>6. CASE SyncGiveUp(c)
  BY <1>6, RestKeeps DEF SyncGiveUp
<1> QED
  BY <1>1, <1>2, <1>3, <1>4, <1>5, <1>6 DEF SyncStep

(* Steps of a calculation, whoever asked for it.                           *)
LEMMA CalcKeeps ==
  ASSUME AgeInv, NEW c \in Calcs, CalcStep(c) PROVE AgeInv'
<1> USE CacheAssumption DEF AgeInv
<1>1. CASE ReadSales(c)
  <2>1. /\ UNCHANGED <<version, cache, lastInval, timers, clock, begun, doneAt>>
        /\ got' = [got EXCEPT ![c].sales = version] /\ pc' = [pc EXCEPT ![c] = "paid"]
        /\ Running(c)
    BY <1>1 DEF ReadSales, GoTo, Running
  <2>a. version \in 0..MaxChanges /\ version \in Nat
    BY DEF Shape
  <2>b. /\ got' \in [Calcs -> [sales : Nat, paid : Nat]]
        /\ \A d \in Calcs : got'[d].sales = IF d = c THEN version ELSE got[d].sales
    BY <2>1, <2>a DEF Shape
  <2>2. Shape'
    BY <2>1, <2>b DEF Shape, PCs
  <2>3. InTime'
    BY <2>1 DEF Shape, InTime, Running
  <2>4. ASSUME NEW d \in Calcs, NEW v \in 1..MaxChanges, pc'[d] \in {"paid", "store"},
               doneAt[v] # 0, got'[d].sales < v
        PROVE  begun[d] <= doneAt[v]
    <3>1. v <= version
      BY <2>4 DEF InTime
    <3>2. d # c
      BY <2>a, <2>b, <2>4, <3>1
    <3> QED
      BY <2>1, <2>b, <2>4, <3>2 DEF Shape, OldReads
  <2>5. OldReads'
    BY <2>1, <2>4 DEF OldReads
  <2>6. OldEntry'
    BY <2>1 DEF OldEntry
  <2> QED
    BY <2>2, <2>3, <2>5, <2>6
<1>2. CASE ReadPaid(c)
  <2>1. /\ UNCHANGED <<version, cache, lastInval, timers, clock, begun, doneAt>>
        /\ got' = [got EXCEPT ![c].paid = version] /\ pc' = [pc EXCEPT ![c] = "store"]
        /\ Running(c) /\ pc[c] = "paid"
    BY <1>2 DEF ReadPaid, GoTo, Running
  <2>a. version \in 0..MaxChanges /\ version \in Nat
    BY DEF Shape
  <2>b. got' \in [Calcs -> [sales : Nat, paid : Nat]]
    BY <2>1, <2>a DEF Shape
  <2>2. Shape'
    BY <2>1, <2>b DEF Shape, PCs
  <2>3. InTime'
    BY <2>1 DEF Shape, InTime, Running
  <2>4. \A d \in Calcs : got'[d].sales = got[d].sales
    BY <2>1 DEF Shape
  <2>5. OldReads'
    BY <2>1, <2>4 DEF Shape, OldReads
  <2>6. OldEntry'
    BY <2>1 DEF OldEntry
  <2> QED
    BY <2>2, <2>3, <2>5, <2>6
<1>3. CASE Store(c)
  <2>1. /\ UNCHANGED <<version, lastInval, timers, clock, doneAt>>
        /\ pc[c] = "store" /\ Running(c)
        /\ cache'.sales = got[c].sales
        /\ cache'.stamp = clock \/ cache'.stamp = begun[c]
        /\ cache' \in [sales : Nat, stamp : Nat]
    BY <1>3 DEF Store, Running, Shape
  <2>2. \/ /\ begun' = begun /\ got' = got /\ pc' = [pc EXCEPT ![c] = "write"]
        \/ /\ begun' = [begun EXCEPT ![c] = 0] /\ pc' = [pc EXCEPT ![c] = "idle"]
           /\ got' = [got EXCEPT ![c] = [sales |-> 0, paid |-> 0]]
    BY <1>3 DEF Store, Rest, GoTo
  <2>3. Shape'
    <3>1. /\ pc' \in [Calcs -> PCs] /\ begun' \in [Calcs -> Nat]
          /\ got' \in [Calcs -> [sales : Nat, paid : Nat]]
      <4>1. CASE got' = got /\ begun' = begun /\ pc' = [pc EXCEPT ![c] = "write"]
        BY <4>1 DEF Shape, PCs
      <4>2. CASE /\ begun' = [begun EXCEPT ![c] = 0] /\ pc' = [pc EXCEPT ![c] = "idle"]
                 /\ got' = [got EXCEPT ![c] = [sales |-> 0, paid |-> 0]]
        BY <4>2 DEF Shape, PCs
      <4> QED
        BY <2>2, <4>1, <4>2
    <3> QED
      BY <2>1, <3>1 DEF Shape
  <2>4. InTime'
    BY <2>1, <2>2 DEF Shape, InTime, Running
  <2>5. OldReads'
    <3>1. CASE got' = got /\ begun' = begun /\ pc' = [pc EXCEPT ![c] = "write"]
      BY <2>1, <3>1 DEF Shape, OldReads
    <3>2. CASE /\ begun' = [begun EXCEPT ![c] = 0] /\ pc' = [pc EXCEPT ![c] = "idle"]
               /\ got' = [got EXCEPT ![c] = [sales |-> 0, paid |-> 0]]
      BY <2>1, <3>2 DEF Shape, OldReads
    <3> QED
      BY <2>2, <3>1, <3>2
  <2>6. ASSUME NEW v \in 1..MaxChanges, doneAt[v] # 0, cache'.sales < v
        PROVE  /\ cache'.stamp <= doneAt[v] + SoftTTL
               /\ cache'.stamp <= doneAt[v] \/ lastInval <= cache'.stamp
               /\ \A t \in timers : t <= doneAt[v] + FillTime + RefreshDelay
    <3>1. begun[c] <= doneAt[v] /\ clock <= begun[c] + FillTime /\ lastInval <= clock
      BY <2>1, <2>6 DEF OldReads, InTime
    <3>2. /\ clock \in Nat /\ lastInval \in Nat /\ begun[c] \in Nat /\ doneAt[v] \in Nat
          /\ timers \subseteq Nat /\ cache'.stamp \in Nat
      BY <2>1 DEF Shape
    <3>3. clock <= doneAt[v] + FillTime
      BY <3>1, <3>2
    <3>4. \A t \in timers : t <= clock + RefreshDelay
      BY DEF InTime
    <3>5. \A t \in timers : t <= doneAt[v] + FillTime + RefreshDelay
      BY <3>2, <3>3, <3>4
    <3>6. CASE cache'.stamp = clock
      BY <3>1, <3>2, <3>3, <3>5, <3>6
    <3>7. CASE cache'.stamp = begun[c]
      BY <3>1, <3>2, <3>5, <3>7
    <3> QED
      BY <2>1, <3>6, <3>7
  <2>7. OldEntry'
    BY <2>1, <2>6 DEF OldEntry
  <2> QED
    BY <2>3, <2>4, <2>5, <2>7
<1> QED
  BY <1>1, <1>2, <1>3 DEF CalcStep

(* A new time stamp for an entry that is served: from a listing, when the  *)
(* entry is not valid, or from a refresh at its timeout.                   *)
LEMMA StampKeeps ==
  ASSUME AgeInv, cache' = [cache EXCEPT !.stamp = clock],
         UNCHANGED <<version, lastInval, clock, calcVars, doneAt>>, timers' \subseteq timers,
         Served(cache), ~Valid(cache) \/ \E t \in timers : t <= clock
  PROVE  AgeInv'
<1> USE CacheAssumption DEF AgeInv
<1>1. Shape'
  BY DEF Shape, calcVars
<1>2. InTime'
  BY DEF Shape, InTime, Running, calcVars
<1>3. OldReads'
  BY DEF OldReads, calcVars
<1>4. ASSUME NEW v \in 1..MaxChanges, doneAt[v] # 0, cache.sales < v
      PROVE  clock <= doneAt[v] + SoftTTL
  <2>1. /\ cache.stamp # 0
        /\ cache.stamp <= doneAt[v] \/ lastInval <= cache.stamp
        /\ \A t \in timers : t <= doneAt[v] + FillTime + RefreshDelay
    BY <1>4 DEF Served, Valid, OldEntry
  <2>2. clock \in Nat /\ lastInval \in Nat /\ cache.stamp \in Nat /\ doneAt[v] \in Nat
        /\ timers \subseteq Nat
    BY DEF Shape
  <2>3. CASE ~Valid(cache)
    <3>1. clock - cache.stamp < SoftTTL
      BY <2>3 DEF Served
    <3>2. ~(lastInval <= cache.stamp)
      BY <2>1, <2>2, <2>3, <3>1 DEF Valid
    <3> QED
      BY <2>1, <2>2, <3>1, <3>2
  <2>4. CASE \E t \in timers : t <= clock
    BY <2>1, <2>2, <2>4 DEF InTime
  <2> QED
    BY <2>3, <2>4
<1>5. OldEntry'
  <2>1. cache'.sales = cache.sales /\ cache'.stamp = clock /\ cache.stamp # 0
    BY DEF Shape, Served, Valid
  <2>2. lastInval <= clock
    BY DEF InTime
  <2> QED
    BY <1>4, <2>1, <2>2 DEF OldEntry
<1> QED
  BY <1>1, <1>2, <1>3, <1>5

(* The beginning of a calculation that nobody has an entry for.            *)
LEMMA BeginKeeps ==
  ASSUME AgeInv, NEW c \in Calcs, Begin(c), timers' \subseteq timers,
         UNCHANGED <<version, cache, lastInval, clock, got, doneAt>>
  PROVE  AgeInv'
<1> USE CacheAssumption DEF AgeInv
<1>1. begun' = [begun EXCEPT ![c] = clock] /\ pc' = [pc EXCEPT ![c] = "sales"]
  BY DEF Begin, GoTo
<1>2. Shape'
  BY <1>1 DEF Shape, PCs
<1>3. InTime'
  BY <1>1 DEF Shape, InTime, Running
<1>4. OldReads'
  BY <1>1 DEF Shape, OldReads
<1>5. OldEntry'
  BY DEF OldEntry
<1> QED
  BY <1>2, <1>3, <1>4, <1>5

LEMMA AgeNext ==
  ASSUME AgeInv, [Next]_vars PROVE AgeInv'
<1> USE CacheAssumption
<1>1. CASE \E c \in Syncs : SyncStep(c)
  BY <1>1, SyncKeeps DEF Calcs
<1>2. CASE \E c \in Calcs : CalcStep(c)
  BY <1>2, CalcKeeps
<1>3. CASE \E c \in Views \cup Listings : View(c)
  BY <1>3, BeginKeeps DEF View, Calcs
<1>4. CASE \E c \in Listings : ListingSoftHit(c)
  BY <1>4, StampKeeps DEF ListingSoftHit
<1>5. CASE \E c \in Refreshers : \E t \in timers : RefreshHit(c, t)
  BY <1>5, StampKeeps DEF RefreshHit
<1>6. CASE \E c \in Refreshers : \E t \in timers : RefreshMiss(c, t)
  BY <1>6, BeginKeeps DEF RefreshMiss, Calcs
<1>7. CASE \E c \in Calcs \ Syncs : CalcFail(c)
  BY <1>7, RestKeeps DEF CalcFail
<1>8. CASE InvalidateGlobal
  <2>1. /\ UNCHANGED <<version, timers, clock, pc, begun, got, doneAt>>
        /\ cache' = [sales |-> 0, stamp |-> 0] /\ lastInval' = 0
    BY <1>8 DEF InvalidateGlobal, NoEntry, calcVars
  <2>2. Shape' /\ OldEntry'
    BY <2>1 DEF AgeInv, Shape, OldEntry
  <2>3. InTime' /\ OldReads'
    BY <2>1 DEF AgeInv, Shape, InTime, OldReads, Running
  <2> QED
    BY <2>2, <2>3 DEF AgeInv
<1>9. CASE Restart
  <2>1. /\ UNCHANGED <<version, clock, doneAt>> /\ timers' = {}
        /\ cache' = [sales |-> 0, stamp |-> 0] /\ lastInval' = 0
        /\ pc' = [c \in Calcs |-> "idle"] /\ begun' = [c \in Calcs |-> 0]
        /\ got' = [c \in Calcs |-> [sales |-> 0, paid |-> 0]]
    BY <1>9 DEF Restart, NoEntry
  <2>2. Shape'
    BY <2>1 DEF AgeInv, Shape, PCs
  <2>3. InTime' /\ OldReads' /\ OldEntry'
    BY <2>1 DEF AgeInv, Shape, InTime, OldReads, OldEntry, Running
  <2> QED
    BY <2>2, <2>3 DEF AgeInv
<1>10. CASE Tick
  <2>1. /\ UNCHANGED <<version, cache, lastInval, timers, pc, begun, got, doneAt>>
        /\ clock' = clock + 1 /\ \A t \in timers : clock < t
        /\ \A c \in Calcs : Running(c) => clock < begun[c] + FillTime
    BY <1>10 DEF Tick, calcVars, Running
  <2> QED
    BY <2>1 DEF AgeInv, Shape, InTime, OldReads, OldEntry, Running
<1>11. CASE UNCHANGED vars
  BY <1>11 DEF vars, calcVars, AgeInv, Shape, InTime, OldReads, OldEntry, Running
<1> QED
  BY <1>1, <1>2, <1>3, <1>4, <1>5, <1>6, <1>7, <1>8, <1>9, <1>10, <1>11 DEF Next

(* A result that misses a change is not served any more when SOFT_TTL and  *)
(* the query TTL have passed since the change was followed by an           *)
(* invalidation (cachedQuery, calculateRepresentative, the refreshes and   *)
(* the listings of UnifiedFinancialEngine), for any number of requests.    *)
THEOREM AgeSafety == Spec => []StalenessBounded
<1>1. AgeInv => StalenessBounded
  <2>1. SUFFICES ASSUME AgeInv, NEW v \in 1..MaxChanges, doneAt[v] # 0,
                        clock > doneAt[v] + SoftTTL + QueryTTL, Served(cache), cache.sales < v
                 PROVE  FALSE
    BY DEF AgeInv, Shape, StalenessBounded
  <2>2. /\ clock \in Nat /\ cache.stamp \in Nat /\ doneAt[v] \in Nat
        /\ SoftTTL \in Nat /\ QueryTTL \in Nat /\ SoftTTL <= QueryTTL
    BY <2>1, CacheAssumption DEF AgeInv, Shape
  <2>3. cache.stamp # 0 /\ clock - cache.stamp < QueryTTL
    BY <2>1, <2>2 DEF Served, Valid
  <2>4. cache.stamp <= doneAt[v] + SoftTTL
    BY <2>1, <2>3 DEF AgeInv, OldEntry
  <2> QED
    BY <2>1, <2>2, <2>3, <2>4
<1> QED
  BY <1>1, AgeInit, AgeNext, PTL DEF Spec
-----------------------------------------------------------------------------
LEMMA TypeInit ==
  ASSUME Init PROVE TypeOK
<1>1. /\ 0 \in 0..MaxChanges /\ 0 \in 0..MaxClock /\ 1 \in 1..MaxClock
      /\ 0 \in 0..1
  BY CacheAssumption
<1>2. QED
  BY <1>1 DEF Init, NoEntry, TypeOK, Data

(* What an invalidation leaves of the cache is of its type.                *)
LEMMA InvalidateTypes ==
  ASSUME TypeOK, Invalidate, clock' = clock
  PROVE  /\ cache' \in [sales : 0..MaxChanges, stamp : 0..MaxClock] /\ lastInval' \in 0..clock'
         /\ timers' \subseteq 1..(MaxClock + RefreshDelay)
  BY CacheAssumption DEF TypeOK, Invalidate, NoEntry

(* A calculation that starts or ends, and the data it has.                 *)
LEMMA CalcTypes ==
  ASSUME TypeOK, NEW c \in Calcs, UNCHANGED clock,
         pc' \in {[pc EXCEPT ![c] = s] : s \in PCs} \cup {pc},
         begun' \in {begun, [begun EXCEPT ![c] = clock], [begun EXCEPT ![c] = 0]},
         \/ got' = got
         \/ got' = [got EXCEPT ![c] = [sales |-> 0, paid |-> 0]]
         \/ got' = [got EXCEPT ![c].sales = version]
         \/ got' = [got EXCEPT ![c].paid = version]
  PROVE  pc' \in [Calcs -> PCs] /\ begun' \in [Calcs -> 0..MaxClock] /\ got' \in [Calcs -> Data]
<1>1. pc' \in [Calcs -> PCs]
  BY DEF TypeOK, PCs
<1>2. begun' \in [Calcs -> 0..MaxClock]
  <2>1. clock \in 0..MaxClock /\ 0 \in 0..MaxClock /\ begun \in [Calcs -> 0..MaxClock]
    BY CacheAssumption DEF TypeOK
  <2>2. QED
    BY <2>1
<1>3. version \in 0..MaxChanges /\ 0 \in 0..MaxChanges /\ got \in [Calcs -> Data]
  BY CacheAssumption DEF TypeOK
<1>4. CASE got' = got \/ got' = [got EXCEPT ![c] = [sales |-> 0, paid |-> 0]]
  BY <1>1, <1>2, <1>3, <1>4 DEF Data
<1>5. CASE got' = [got EXCEPT ![c].sales = version] \/ got' = [got EXCEPT ![c].paid = version]
  <2>1. /\ [got[c] EXCEPT !.sales = version] \in Data
        /\ [got[c] EXCEPT !.paid = version] \in Data
    BY <1>3 DEF Data
  <2>2. QED
    BY <1>1, <1>2, <1>3, <1>5, <2>1
<1>6. QED
  BY <1>1, <1>2, <1>4, <1>5

LEMMA TypeNext ==
  ASSUME TypeOK, [Next]_vars PROVE TypeOK'
<1> USE CacheAssumption
<1>1. ASSUME NEW c \in Syncs, SyncStep(c) PROVE TypeOK'
  <2>1. c \in Calcs
    BY DEF Calcs
  <2>2. CASE Change(c)
    BY <2>1, <2>2 DEF Change, GoTo, TypeOK
  <2>3. CASE SyncStart(c)
    <3>1. pc' \in [Calcs -> PCs] /\ begun' \in [Calcs -> 0..MaxClock] /\ got' \in [Calcs -> Data]
      BY <2>1, <2>3, CalcTypes DEF SyncStart, Begin, GoTo, PCs
    <3>2. doneAt' \in [1..MaxChanges -> 0..MaxClock]
      BY <2>3 DEF SyncStart, TypeOK
    <3>3. QED
      BY <2>3, <3>1, <3>2, InvalidateTypes DEF SyncStart, TypeOK, PCs
  <2>4. CASE SyncWrite(c)
    BY <2>1, <2>4 DEF SyncWrite, GoTo, TypeOK
  <2>5. CASE SyncEnd(c)
    <3>1. pc' \in [Calcs -> PCs] /\ begun' \in [Calcs -> 0..MaxClock] /\ got' \in [Calcs -> Data]
      BY <2>1, <2>5, CalcTypes DEF SyncEnd, Rest, GoTo, PCs
    <3>2. QED
      BY <2>5, <3>1, InvalidateTypes DEF SyncEnd, Rest, TypeOK, PCs
  <2>6. CASE SyncRetry(c)
    BY <2>1, <2>6 DEF SyncRetry, GoTo, TypeOK
  <2>7. CASE SyncGiveUp(c)
    <3>1. pc' \in [Calcs -> PCs] /\ begun' \in [Calcs -> 0..MaxClock] /\ got' \in [Calcs -> Data]
      BY <2>1, <2>7, CalcTypes DEF SyncGiveUp, Rest, GoTo, PCs
    <3>2. QED
      BY <2>7, <3>1 DEF SyncGiveUp, Rest, TypeOK, PCs
  <2>8. QED
    BY <1>1, <2>2, <2>3, <2>4, <2>5, <2>6, <2>7 DEF SyncStep
<1>2. ASSUME NEW c \in Calcs,
             \/ CalcStep(c) \/ View(c) \/ ListingSoftHit(c) \/ CalcFail(c)
             \/ \E t \in timers : RefreshHit(c, t) \/ RefreshMiss(c, t)
      PROVE  TypeOK'
  <2>1. UNCHANGED <<version, table, lastInval, clock, doneAt>> /\ timers' \subseteq timers
    BY <1>2 DEF CalcStep, ReadSales, ReadPaid, Store, View, ListingSoftHit, CalcFail, RefreshHit,
                RefreshMiss
  <2>2. pc' \in [Calcs -> PCs] /\ begun' \in [Calcs -> 0..MaxClock] /\ got' \in [Calcs -> Data]
    BY <1>2, <2>1, CalcTypes
       DEF CalcStep, ReadSales, ReadPaid, Store, View, ListingSoftHit, CalcFail, RefreshHit,
           RefreshMiss, Begin, Rest, GoTo, calcVars, PCs
  <2>3. cache' \in [sales : 0..MaxChanges, stamp : 0..MaxClock]
    <3>1. CASE Store(c)
      BY <3>1 DEF Store, TypeOK, Data
    <3>2. CASE cache' = cache \/ cache' = [cache EXCEPT !.stamp = clock]
      BY <3>2 DEF TypeOK
    <3>3. QED
      BY <1>2, <3>1, <3>2 DEF CalcStep, ReadSales, ReadPaid, View, ListingSoftHit, CalcFail,
                              RefreshHit, RefreshMiss
  <2>4. overtaken' \subseteq overtaken /\ behind' = behind
    BY <1>2 DEF CalcStep, ReadSales, ReadPaid, Store, View, ListingSoftHit, CalcFail, RefreshHit,
                RefreshMiss, Rest, calcVars
  <2>5. QED
    BY <2>1, <2>2, <2>3, <2>4 DEF TypeOK, PCs
<1>3. CASE InvalidateGlobal
  BY <1>3 DEF InvalidateGlobal, NoEntry, calcVars, TypeOK
<1>4. CASE Tick
  BY <1>4 DEF Tick, calcVars, TypeOK
<1>5. CASE Restart
  BY <1>5 DEF Restart, NoEntry, TypeOK, Data
<1>6. CASE UNCHANGED vars
  BY <1>6 DEF vars, calcVars, TypeOK
<1>7. QED
  BY <1>1, <1>2, <1>3, <1>4, <1>5, <1>6 DEF Next, Calcs

(* The variables keep their types, and no time stamp lies in the future:   *)
(* no mark of an invalidation is later than the clock.                     *)
THEOREM CacheTypes == Spec => []TypeOK
  BY TypeInit, TypeNext, PTL DEF Spec
-----------------------------------------------------------------------------
\* The debt that is right now, and what an update between its statements knows of it.
Current == [sales |-> version, paid |-> version]
Unwritten(c) == pc[c] \in {"changed", "sales", "paid", "store", "write"}

TableInv ==
  /\ Shape
  /\ behind \in BOOLEAN
  /\ \A c \in overtaken : pc[c] \in {"paid", "store", "write", "written"}
  /\ behind \/ table = Current \/ \E c \in Syncs : Unwritten(c) /\ c \notin overtaken
  /\ \A c \in Syncs : c \notin overtaken =>
       /\ pc[c] = "paid" => got[c].sales = version
       /\ pc[c] \in {"store", "write"} => got[c] = Current

LEMMA TableInit ==
  ASSUME Init PROVE TableInv
<1>1. Shape
  BY AgeInit DEF AgeInv
<1>2. \A c \in Syncs : pc[c] = "idle"
  BY DEF Init, Calcs
<1>3. table = Current /\ overtaken = {} /\ behind = FALSE
  BY DEF Init, Current
<1> QED
  BY <1>1, <1>2, <1>3 DEF TableInv

(* The steps of a request that updates the totals.                         *)
LEMMA TableSync ==
  ASSUME TableInv, Shape', NEW c \in Syncs, SyncStep(c) \/ CalcStep(c)
  PROVE  TableInv'
<1> USE DEF TableInv, Current, Unwritten
<1>0. c \in Calcs /\ pc \in [Calcs -> PCs] /\ got[c] \in [sales : Nat, paid : Nat]
      /\ got \in [Calcs -> [sales : Nat, paid : Nat]] /\ Syncs \subseteq Calcs
  BY DEF Calcs, Shape
<1>1. CASE Change(c)
  <2>1. /\ pc[c] = "idle" /\ pc' = [pc EXCEPT ![c] = "changed"]
        /\ UNCHANGED <<table, got, behind>>
        /\ overtaken' = overtaken \cup {d \in Syncs : pc[d] \in {"paid", "store", "write"}}
    BY <1>1 DEF Change, GoTo
  <2>2. c \notin overtaken' /\ Unwritten(c)'
    BY <1>0, <2>1
  <2>3. \A d \in overtaken' : pc'[d] \in {"paid", "store", "write", "written"}
    BY <1>0, <2>1
  <2>4. \A d \in Syncs : d \notin overtaken' => pc'[d] \notin {"paid", "store", "write"}
    BY <1>0, <2>1
  <2> QED
    BY <2>1, <2>2, <2>3, <2>4
<1>2. CASE SyncStart(c)
  BY <1>0, <1>2 DEF SyncStart, Begin, GoTo
<1>3. CASE SyncWrite(c)
  <2>1. /\ pc[c] = "write" /\ pc' = [pc EXCEPT ![c] = "written"]
        /\ table' = got[c] /\ UNCHANGED <<version, got, overtaken>>
    BY <1>3 DEF SyncWrite, GoTo
  <2>2. behind' \in BOOLEAN /\ (behind' \/ table' = Current')
    <3>1. behind' = (c \in overtaken)
      BY <1>3 DEF SyncWrite
    <3>2. CASE c \in overtaken
      BY <3>1, <3>2
    <3>3. CASE c \notin overtaken
      BY <2>1, <3>1, <3>3
    <3> QED
      BY <3>2, <3>3
  <2>3. \A d \in overtaken' : pc'[d] \in {"paid", "store", "write", "written"}
    BY <1>0, <2>1
  <2>4. \A d \in Syncs : d \notin overtaken' =>
          /\ pc'[d] = "paid" => got'[d].sales = version'
          /\ pc'[d] \in {"store", "write"} => got'[d] = Current'
    BY <1>0, <2>1
  <2> QED
    BY <2>2, <2>3, <2>4
<1>4. CASE SyncEnd(c)
  BY <1>0, <1>4 DEF SyncEnd, Rest, GoTo
<1>5. CASE SyncRetry(c)
  BY <1>0, <1>5 DEF SyncRetry, GoTo
<1>6. CASE SyncGiveUp(c)
  BY <1>0, <1>6 DEF SyncGiveUp, Rest, GoTo
<1>7. CASE ReadSales(c)
  BY <1>0, <1>7 DEF ReadSales, GoTo
<1>8. CASE ReadPaid(c)
  BY <1>0, <1>8 DEF ReadPaid, GoTo
<1>9. CASE Store(c)
  <2>1. /\ pc[c] = "store" /\ pc' = [pc EXCEPT ![c] = "write"]
        /\ UNCHANGED <<version, table, got, overtaken, behind>>
    BY <1>9 DEF Store, GoTo
  <2> QED
    BY <1>0, <2>1
<1> QED
  BY <1>1, <1>2, <1>3, <1>4, <1>5, <1>6, <1>7, <1>8, <1>9 DEF SyncStep, CalcStep

(* Steps of others change neither the table nor what an update has read.   *)
LEMMA TableOthers ==
  ASSUME TableInv, Shape', UNCHANGED <<version, table, overtaken, behind>>, overtaken \subseteq Syncs,
         \A d \in Syncs : pc'[d] = pc[d] /\ got'[d] = got[d]
  PROVE  TableInv'
  BY DEF TableInv, Current, Unwritten

LEMMA TableNext ==
  ASSUME TypeOK, TableInv, Shape', [Next]_vars PROVE TableInv'
<1> USE CacheAssumption
<1>0. /\ pc \in [Calcs -> PCs] /\ got \in [Calcs -> [sales : Nat, paid : Nat]]
      /\ Syncs \subseteq Calcs /\ overtaken \subseteq Syncs
  BY DEF TypeOK, TableInv, Shape, Calcs
<1>1. CASE \E c \in Syncs : SyncStep(c) \/ CalcStep(c)
  BY <1>1, TableSync
<1>2. ASSUME NEW c \in Calcs \ Syncs,
             \/ CalcStep(c) \/ View(c) \/ ListingSoftHit(c) \/ CalcFail(c)
             \/ \E t \in timers : RefreshHit(c, t) \/ RefreshMiss(c, t)
      PROVE  TableInv'
  <2>1. UNCHANGED <<version, table, behind>>
    BY <1>2 DEF CalcStep, ReadSales, ReadPaid, Store, View, ListingSoftHit, CalcFail, RefreshHit,
                RefreshMiss
  <2>2. \A d \in Syncs : pc'[d] = pc[d]
    BY <1>0, <1>2 DEF CalcStep, ReadSales, ReadPaid, Store, View, ListingSoftHit, CalcFail,
                      RefreshHit, RefreshMiss, Begin, Rest, GoTo, calcVars
  <2>3. \A d \in Syncs : got'[d] = got[d]
    BY <1>0, <1>2 DEF CalcStep, ReadSales, ReadPaid, Store, View, ListingSoftHit, CalcFail,
                      RefreshHit, RefreshMiss, Begin, Rest, calcVars
  <2>4. overtaken' = overtaken
    <3>1. overtaken \ {c} = overtaken
      BY <1>0, <1>2
    <3> QED
      BY <1>2, <3>1 DEF CalcStep, ReadSales, ReadPaid, Store, View, ListingSoftHit, CalcFail,
                      RefreshHit, RefreshMiss, Begin, Rest, calcVars
  <2> QED
    BY <1>0, <2>1, <2>2, <2>3, <2>4, TableOthers
<1>3. CASE InvalidateGlobal \/ Tick \/ UNCHANGED vars
  BY <1>0, <1>3, TableOthers DEF InvalidateGlobal, Tick, vars, calcVars
<1>4. CASE Restart
  <2>1. /\ UNCHANGED <<version, table>> /\ overtaken' = {}
        /\ \A d \in Syncs : pc'[d] = "idle"
        /\ behind' = (behind \/ \E d \in Syncs : pc[d] \notin {"idle", "written"})
    BY <1>0, <1>4 DEF Restart
  <2>2. behind' \/ table' = Current'
    BY <2>1 DEF TableInv, Current, Unwritten
  <2> QED
    BY <2>1, <2>2 DEF TableInv, Current
<1>5. (Views \cup Listings \cup Refreshers) \subseteq Calcs \ Syncs
  BY DEF Calcs
<1> QED
  BY <1>1, <1>2, <1>3, <1>4, <1>5 DEF Next

(* For any number of requests: with none in progress, the stored totals    *)
(* include every change, unless the last to write them had read before     *)
(* another request's change, or one gave up or ended with the process      *)
(* since; whatever pages, listings, refreshes and retries do with the      *)
(* cache meanwhile.                                                        *)
THEOREM TableSafety == Spec => []TableCurrent
<1>1. AgeInv => Shape
  BY DEF AgeInv
<1>2. TableInv => TableCurrent
  BY DEF TableInv, TableCurrent, Current, Unwritten
<1>3. TypeOK /\ Shape' /\ TableInv /\ [Next]_vars => TableInv'
  BY TableNext
<1> QED
  BY <1>1, <1>2, <1>3, AgeInit, AgeNext, TableInit, CacheTypes, PTL DEF Spec
=============================================================================
