--------------------------- MODULE FinancialCache ---------------------------
(***************************************************************************)
(* The query cache of UnifiedFinancialEngine for one representative, the   *)
(* totals stored in representatives.total_debt, and the work around them:  *)
(*   Syncs      a request changes the ledger, then syncRepresentativeDebt  *)
(*   Views      calculateRepresentative, called for a page or a report     *)
(*   Listings   getDebtorRepresentatives: it re-stamps what it computed    *)
(*   Refreshers the timeouts of scheduleBackgroundRefresh, which do too    *)
(* Data is the number of ledger changes a query saw.  A calculation sends  *)
(* its queries one after the other: sales is what the invoice query saw,   *)
(* paid what the later allocation query saw.                               *)
(* JavaScript runs a callback to its next await in one go: the check of    *)
(* the cache and the start of a calculation are one step, and so are       *)
(* storing a result and what the caller does with it before it awaits.     *)
(***************************************************************************)
EXTENDS Naturals, FiniteSets

CONSTANTS
  Syncs, Views, Listings, Refreshers,
  QueryTTL, SoftTTL, RefreshDelay, \* 10 s, 5 s and 100 ms, in steps of the clock
  FillTime,                        \* longest time from a calculation's start to its result
  MaxChanges, MaxClock             \* bounds

Calcs == Syncs \cup Views \cup Listings \cup Refreshers
NoEntry == [sales |-> 0, stamp |-> 0]

ASSUME CacheAssumption ==
  /\ Syncs \cap (Views \cup Listings \cup Refreshers) = {}
  /\ QueryTTL \in Nat /\ SoftTTL \in Nat /\ RefreshDelay \in Nat /\ FillTime \in Nat
  /\ FillTime + RefreshDelay <= SoftTTL /\ SoftTTL <= QueryTTL
  /\ MaxChanges \in Nat /\ MaxClock \in Nat \ {0}

VARIABLES
  version,   \* committed changes of invoices and allocations
  table,     \* data behind representatives.total_debt
  cache,     \* queryCache entry, by its invoice query alone; stamp 0: none
  lastInval, \* lastInvalidation, 0: none
  timers,    \* due times of the refresh timeouts
  clock,
  pc, begun, \* per calculation: next step, time of its first step
  got,       \* per calculation: data it has read
  doneAt,    \* history: time at which change v was first followed by an invalidation
  overtaken, \* history: updates whose calculation another request's change overtook
  behind     \* history: the last write of the totals was overtaken, or an update was given up since

calcVars == <<pc, begun, got, overtaken>>
vars == <<version, table, cache, lastInval, timers, clock, calcVars, doneAt, behind>>
Data == [sales : 0..MaxChanges, paid : 0..MaxChanges]

Init ==
  /\ version = 0 /\ table = [sales |-> 0, paid |-> 0]
  /\ cache = NoEntry /\ lastInval = 0 /\ timers = {} /\ clock = 1
  /\ pc = [c \in Calcs |-> "idle"] /\ begun = [c \in Calcs |-> 0]
  /\ got = [c \in Calcs |-> [sales |-> 0, paid |-> 0]]
  /\ doneAt = [v \in 1..MaxChanges |-> 0] /\ overtaken = {} /\ behind = FALSE

GoTo(c, s) == pc' = [pc EXCEPT ![c] = s]

\* isCacheValid: not invalidated after its time stamp, and within the TTL.
Valid(e) == e.stamp # 0 /\ lastInval <= e.stamp /\ clock - e.stamp < QueryTTL

\* What calculateRepresentative answers from: a valid entry, or any younger than SOFT_TTL.
Served(e) == Valid(e) \/ (e.stamp # 0 /\ clock - e.stamp < SoftTTL)

\* Mutant: the invalidation is dated when the refresh will run.
Invalidate_Postdated ==
  /\ cache' = NoEntry /\ lastInval' = clock + RefreshDelay
  /\ timers' = timers \cup {clock + RefreshDelay}

\* forceInvalidateRepresentative; immediate, so a refresh is scheduled.
Invalidate ==
  /\ cache' = NoEntry /\ lastInval' = clock
  /\ timers' = timers \cup {clock + RefreshDelay}

Rest(c) ==
  /\ GoTo(c, "idle")
  /\ begun' = [begun EXCEPT ![c] = 0] /\ got' = [got EXCEPT ![c] = [sales |-> 0, paid |-> 0]]
  /\ overtaken' = overtaken \ {c}

Begin(c) == begun' = [begun EXCEPT ![c] = clock] /\ GoTo(c, "sales")
-----------------------------------------------------------------------------
(* A request commits a change and updates the representative. *)
Change(c) ==
  /\ pc[c] = "idle" /\ version < MaxChanges
  /\ version' = version + 1
  /\ GoTo(c, "changed")
  /\ overtaken' = overtaken \cup {d \in Syncs : pc[d] \in {"paid", "store", "write"}}
  /\ UNCHANGED <<table, cache, lastInval, timers, clock, begun, got, doneAt, behind>>

\* The invalidation removes the entry, so the calculation never finds one.
SyncStart(c) ==
  /\ pc[c] = "changed"
  /\ Invalidate /\ Begin(c)
  /\ doneAt' = [v \in 1..MaxChanges |->
                  IF v <= version /\ doneAt[v] = 0 THEN clock ELSE doneAt[v]]
  /\ UNCHANGED <<version, table, clock, got, overtaken, behind>>

\* Mutant: the totals are not taken from the calculation but from the cache.
SyncWrite_FromCache(c) ==
  /\ pc[c] = "write"
  /\ table' = [sales |-> cache.sales, paid |-> cache.sales]
  /\ GoTo(c, "written")
  /\ behind' = (c \in overtaken)
  /\ UNCHANGED <<version, cache, lastInval, timers, clock, begun, got, overtaken, doneAt>>

SyncWrite(c) ==
  /\ pc[c] = "write"
  /\ table' = got[c]
  /\ GoTo(c, "written")
  /\ behind' = (c \in overtaken)
  /\ UNCHANGED <<version, cache, lastInval, timers, clock, begun, got, overtaken, doneAt>>

\* The second invalidation, and that of updateRepresentativeFinancials after it.
SyncEnd(c) ==
  /\ pc[c] = "written"
  /\ Invalidate
  /\ Rest(c)
  /\ UNCHANGED <<version, table, clock, doneAt, behind>>

\* A query fails: executeWithRetry runs the update again.
SyncRetry(c) ==
  /\ c \in Syncs /\ pc[c] \in {"sales", "paid", "write"}
  /\ GoTo(c, "changed")
  /\ overtaken' = overtaken \ {c}
  /\ UNCHANGED <<version, table, cache, lastInval, timers, clock, begun, got, doneAt, behind>>

\* The last attempt fails (attempts are not counted): the error ends the request.
SyncGiveUp(c) ==
  /\ c \in Syncs /\ pc[c] \in {"sales", "paid", "write"}
  /\ Rest(c)
  /\ behind' = TRUE
  /\ UNCHANGED <<version, table, cache, lastInval, timers, clock, doneAt>>
-----------------------------------------------------------------------------
(* calculateRepresentative without a usable entry. *)
ReadSales(c) ==
  /\ pc[c] = "sales"
  /\ got' = [got EXCEPT ![c].sales = version]
  /\ GoTo(c, "paid")
  /\ UNCHANGED <<version, table, cache, lastInval, timers, clock, begun, overtaken, doneAt, behind>>

ReadPaid(c) ==
  /\ pc[c] = "paid"
  /\ got' = [got EXCEPT ![c].paid = version]
  /\ GoTo(c, "store")
  /\ UNCHANGED <<version, table, cache, lastInval, timers, clock, begun, overtaken, doneAt, behind>>

Restamps == Listings \cup Refreshers

\* The entry carries the start of the calculation, unless its caller stores it again.
Store(c) ==
  /\ pc[c] = "store"
  /\ cache' = [sales |-> got[c].sales, stamp |-> IF c \in Restamps THEN clock ELSE begun[c]]
  /\ IF c \in Syncs THEN GoTo(c, "write") /\ UNCHANGED <<begun, got, overtaken>> ELSE Rest(c)
  /\ UNCHANGED <<version, table, lastInval, timers, clock, doneAt, behind>>

View(c) ==
  /\ pc[c] = "idle" /\ ~Served(cache)
  /\ Begin(c)
  /\ UNCHANGED <<version, table, cache, lastInval, timers, clock, got, overtaken, doneAt, behind>>

\* Mutant: every entry it is answered from gets a new time stamp.
ListingSoftHit_AnyHit(c) ==
  /\ pc[c] = "idle" /\ Served(cache)
  /\ cache' = [cache EXCEPT !.stamp = clock]
  /\ UNCHANGED <<version, table, lastInval, timers, clock, calcVars, doneAt, behind>>

\* An entry that is no longer valid but still served gets a new time stamp.
ListingSoftHit(c) ==
  /\ pc[c] = "idle" /\ ~Valid(cache) /\ Served(cache)
  /\ cache' = [cache EXCEPT !.stamp = clock]
  /\ UNCHANGED <<version, table, lastInval, timers, clock, calcVars, doneAt, behind>>

\* A refresh stores whatever calculateRepresentative returns as new.
RefreshHit(c, t) ==
  /\ pc[c] = "idle" /\ t <= clock /\ Served(cache)
  /\ timers' = timers \ {t}
  /\ cache' = [cache EXCEPT !.stamp = clock]
  /\ UNCHANGED <<version, table, lastInval, clock, calcVars, doneAt, behind>>

RefreshMiss(c, t) ==
  /\ pc[c] = "idle" /\ t <= clock /\ ~Served(cache)
  /\ timers' = timers \ {t}
  /\ Begin(c)
  /\ UNCHANGED <<version, table, cache, lastInval, clock, got, overtaken, doneAt, behind>>

\* A calculation of a view, listing or refresh throws: nothing is stored.
CalcFail(c) ==
  /\ pc[c] \in {"sales", "paid"}
  /\ Rest(c)
  /\ UNCHANGED <<version, table, cache, lastInval, timers, clock, doneAt, behind>>

\* forceInvalidateGlobal: the marks of earlier invalidations go as well.
InvalidateGlobal ==
  /\ cache' = NoEntry /\ lastInval' = 0
  /\ UNCHANGED <<version, table, timers, clock, calcVars, doneAt, behind>>

\* The process exits: requests end where they are, the cache and the timeouts are lost.
Restart ==
  /\ cache' = NoEntry /\ lastInval' = 0 /\ timers' = {}
  /\ pc' = [c \in Calcs |-> "idle"] /\ begun' = [c \in Calcs |-> 0]
  /\ got' = [c \in Calcs |-> [sales |-> 0, paid |-> 0]] /\ overtaken' = {}
  /\ behind' = (behind \/ \E c \in Syncs : pc[c] \notin {"idle", "written"})
  /\ UNCHANGED <<version, table, clock, doneAt>>

\* Calculations take at most FillTime, and timeouts fire on time.
Tick ==
  /\ clock < MaxClock
  /\ \A c \in Calcs : pc[c] \in {"sales", "paid", "store"} => clock < begun[c] + FillTime
  /\ \A t \in timers : clock < t
  /\ clock' = clock + 1
  /\ UNCHANGED <<version, table, cache, lastInval, timers, calcVars, doneAt, behind>>

SyncStep(c) ==
  Change(c) \/ SyncStart(c) \/ SyncWrite(c) \/ SyncEnd(c) \/ SyncRetry(c) \/ SyncGiveUp(c)
CalcStep(c) == ReadSales(c) \/ ReadPaid(c) \/ Store(c)

Next ==
  \/ \E c \in Syncs : SyncStep(c)
  \/ \E c \in Calcs : CalcStep(c)
  \/ \E c \in Views \cup Listings : View(c)
  \/ \E c \in Listings : ListingSoftHit(c)
  \/ \E c \in Refreshers : \E t \in timers : RefreshHit(c, t) \/ RefreshMiss(c, t)
  \/ \E c \in Calcs \ Syncs : CalcFail(c)
  \/ InvalidateGlobal \/ Restart \/ Tick

Spec == Init /\ [][Next]_vars
-----------------------------------------------------------------------------
TypeOK ==
  /\ version \in 0..MaxChanges /\ table \in Data
  /\ cache \in [sales : 0..MaxChanges, stamp : 0..MaxClock]
  /\ lastInval \in 0..clock /\ timers \subseteq 1..(MaxClock + RefreshDelay)
  /\ clock \in 1..MaxClock
  /\ pc \in [Calcs -> {"idle", "changed", "sales", "paid", "store", "write", "written"}]
  /\ begun \in [Calcs -> 0..MaxClock] /\ got \in [Calcs -> Data]
  /\ doneAt \in [1..MaxChanges -> 0..MaxClock] /\ overtaken \subseteq Syncs /\ behind \in BOOLEAN

(* A result in the cache that misses a change is not served any more when  *)
(* SOFT_TTL and the query TTL have passed since the change was followed by *)
(* an invalidation, although calculations in flight store old results and  *)
(* listings and refreshes give old results new time stamps.                *)
StalenessBounded ==
  \A v \in 1..MaxChanges :
    doneAt[v] # 0 /\ clock > doneAt[v] + SoftTTL + QueryTTL /\ Served(cache) => cache.sales >= v

(* "100% accuracy", and what it takes: with no request in progress, the    *)
(* stored totals include every change, unless the request that wrote them  *)
(* last read its data before another request's change, or a request gave   *)
(* up or ended with the process since.  The next update that is not        *)
(* overtaken makes them current again.                                     *)
TableCurrent ==
  (\A c \in Syncs : pc[c] = "idle") => behind \/ table = [sales |-> version, paid |-> version]
=============================================================================
