------------------------------- MODULE Outbox -------------------------------
(***************************************************************************)
(* The Telegram outbox: the table outbox (services/outbox.ts), the worker  *)
(* that drains it (services/outbox-worker.ts), the flag that gates both    *)
(* and the cleanup route.                                                  *)
(*                                                                         *)
(* A tick is one invocation of processMessages by setInterval.  The timer  *)
(* does not await it, and stop()/start() may leave an earlier one running, *)
(* so several ticks may be in flight.  A tick handles the rows of its      *)
(* snapshot concurrently (Promise.allSettled): stage[t][m] is the next     *)
(* await of the handler of row m in tick t.  Every database statement is   *)
(* one step; a fault of it is "refused" (no effect, the promise rejects)   *)
(* or "ackLost" (committed, and yet the promise rejects).                  *)
(*                                                                         *)
(* Rows are numbered in the order of createdAt.  Of a row the model keeps  *)
(* type, status, retryCount and whether nextRetryAt has passed (due).      *)
(* answered and failures are history variables.                            *)
(*                                                                         *)
(* sendMessage is what the worker was constructed with.  The one the       *)
(* server constructs resolves without sending anything (index.ts), so      *)
(* nothing here speaks of a delivery: only of sendMessage having resolved. *)
(***************************************************************************)
EXTENDS Naturals, FiniteSets

CONSTANTS
  MaxMessages,  \* bound: number of rows ever inserted
  Ticks,        \* invocations of processMessages that may overlap
  BatchSize,    \* limit of getReadyMessages (5 in the worker)
  MaxRetry,     \* MAX_RETRY_COUNT (5)
  Types,        \* message types enqueued
  SendOutcomes, \* how telegramAPI.sendMessage may settle
  DbFaults,     \* how a database statement may fail
  MaxCrashes,   \* bound: process exits
  MaxFailures   \* bound: failed attempts recorded per row

ASSUME OutboxAssumption ==
  /\ MaxMessages \in Nat /\ BatchSize \in Nat \ {0} /\ MaxRetry \in Nat
  /\ MaxCrashes \in Nat /\ MaxFailures \in Nat
  /\ Types \subseteq {"TELEGRAM_MESSAGE", "EMAIL", "WEBHOOK"}
  /\ SendOutcomes \subseteq {"resolved", "rejected"}
  /\ DbFaults \subseteq {"refused", "ackLost"}

Msgs == 1..MaxMessages

RowStatuses == {"PENDING", "PROCESSING", "SENT", "FAILED", "CANCELLED"}
Stages == {"idle", "mark", "send", "markSent", "failRead", "failWrite"}

VARIABLES
  status,     \* status of a row; ABSENT before its insert, DELETED after cleanup
  type,       \* its type
  retryCount, \* its retry_count
  due,        \* next_retry_at <= now
  stage,      \* stage[t][m]: where the handler of m in tick t stands
  seen,       \* seen[t][m]: the retryCount markAsFailed read
  flag,       \* multi-stage flag outbox_enabled
  polling,    \* an interval of the worker is armed
  crashes,
  answered,   \* history: sendMessage has resolved for m at least once
  failures    \* history: failed attempts of m that markAsFailed recorded

rowVars == <<status, type, retryCount, due>>
handlerVars == <<stage, seen>>
controlVars == <<flag, polling, crashes>>
vars == <<rowVars, handlerVars, controlVars, answered, failures>>

Init ==
  /\ status = [m \in Msgs |-> "ABSENT"]
  /\ type = [m \in Msgs |-> "TELEGRAM_MESSAGE"]
  /\ retryCount = [m \in Msgs |-> 0]
  /\ due = [m \in Msgs |-> FALSE]
  /\ stage = [t \in Ticks |-> [m \in Msgs |-> "idle"]]
  /\ seen = [t \in Ticks |-> [m \in Msgs |-> 0]]
  /\ flag = "off"
  /\ polling = FALSE
  /\ crashes = 0
  /\ answered = [m \in Msgs |-> FALSE]
  /\ failures = [m \in Msgs |-> 0]
-----------------------------------------------------------------------------
Exists(m) == status[m] \in RowStatuses

\* UPDATE outbox SET status = s WHERE id = m
SetStatus(m, s) == IF Exists(m) THEN [status EXCEPT ![m] = s] ELSE status

DbResults == {"ok"} \cup DbFaults

GoTo(t, m, s) == stage' = [stage EXCEPT ![t][m] = s]

\* Mutant: rows waiting for a retry are never selected again.
Ready_PendingOnly(m) == status[m] = "PENDING" /\ retryCount[m] <= MaxRetry

\* The WHERE clause of getReadyMessages.
Ready(m) ==
  /\ \/ status[m] = "PENDING"
     \/ status[m] = "FAILED" /\ due[m]
  /\ retryCount[m] <= MaxRetry

\* ORDER BY createdAt LIMIT BatchSize
Batch ==
  {m \in Msgs : Ready(m) /\ Cardinality({k \in Msgs : Ready(k) /\ k < m}) < BatchSize}

TickIdle(t) == \A m \in Msgs : stage[t][m] = "idle"
-----------------------------------------------------------------------------
(* POST /enqueue and sendInvoiceToTelegram insert only while the flag is on. *)
Enqueue(m, ty) ==
  /\ flag = "on"
  /\ status[m] = "ABSENT"
  /\ \A k \in Msgs : k < m => status[k] # "ABSENT"
  /\ status' = [status EXCEPT ![m] = "PENDING"]
  /\ type' = [type EXCEPT ![m] = ty]
  /\ UNCHANGED <<retryCount, due, handlerVars, controlVars, answered, failures>>

\* processMessages with the flag on: the snapshot, then every handler starts.
\* (A select that is refused leaves the tick idle.)
Tick(t) ==
  /\ polling /\ flag = "on"
  /\ TickIdle(t)
  /\ Batch # {}
  /\ stage' = [stage EXCEPT ![t] = [m \in Msgs |-> IF m \in Batch THEN "mark" ELSE "idle"]]
  /\ UNCHANGED <<rowVars, seen, controlVars, answered, failures>>

\* processMessages with the flag off stops the worker; stop() clears only
\* the interval it knows of, another one may stay armed.
TickDisabled ==
  /\ polling /\ flag = "off"
  /\ \E t \in Ticks : TickIdle(t)
  /\ polling' \in BOOLEAN
  /\ UNCHANGED <<rowVars, handlerVars, flag, crashes, answered, failures>>

\* Mutant: the message is sent after it has been marked as sent.
MarkProcessing_SentFirst(t, m) ==
  /\ stage[t][m] = "mark"
  /\ status' = SetStatus(m, "SENT")
  /\ GoTo(t, m, "send")
  /\ UNCHANGED <<type, retryCount, due, seen, controlVars, answered, failures>>

\* Mutant: claiming a row counts as a retry of its own.
MarkProcessing_Counts(t, m) ==
  /\ stage[t][m] = "mark"
  /\ status' = SetStatus(m, "PROCESSING")
  /\ retryCount' = [retryCount EXCEPT ![m] = @ + 1]
  /\ GoTo(t, m, "send")
  /\ UNCHANGED <<type, due, seen, controlVars, answered, failures>>

MarkProcessing(t, m) ==
  /\ stage[t][m] = "mark"
  /\ \E r \in DbResults :
       /\ status' = IF r = "refused" THEN status ELSE SetStatus(m, "PROCESSING")
       /\ GoTo(t, m, IF r = "ok" THEN "send" ELSE "failRead")
  /\ UNCHANGED <<type, retryCount, due, seen, controlVars, answered, failures>>

\* Only TELEGRAM_MESSAGE reaches telegramAPI; EMAIL and WEBHOOK throw.
Send(t, m) ==
  /\ stage[t][m] = "send"
  /\ \E o \in SendOutcomes :
       LET o2 == IF type[m] = "TELEGRAM_MESSAGE" THEN o ELSE "rejected" IN
       /\ answered' = [answered EXCEPT ![m] = @ \/ o2 = "resolved"]
       /\ GoTo(t, m, IF o2 = "resolved" THEN "markSent" ELSE "failRead")
  /\ UNCHANGED <<rowVars, seen, controlVars, failures>>

MarkSent(t, m) ==
  /\ stage[t][m] = "markSent"
  /\ \E r \in DbResults :
       /\ status' = IF r = "refused" THEN status ELSE SetStatus(m, "SENT")
       /\ GoTo(t, m, IF r = "ok" THEN "idle" ELSE "failRead")
  /\ UNCHANGED <<type, retryCount, due, seen, controlVars, answered, failures>>

\* markAsFailed reads the row; a missing row or a failing select makes it
\* throw, processMessages' catch logs that and the row is left as it is.
FailRead(t, m) ==
  /\ stage[t][m] = "failRead"
  /\ \/ /\ Exists(m)
        /\ failures[m] < MaxFailures
        /\ seen' = [seen EXCEPT ![t][m] = retryCount[m]]
        /\ failures' = [failures EXCEPT ![m] = @ + 1]
        /\ GoTo(t, m, "failWrite")
     \/ /\ ~Exists(m) \/ DbFaults # {}
        /\ GoTo(t, m, "idle")
        /\ UNCHANGED <<seen, failures>>
  /\ UNCHANGED <<rowVars, controlVars, answered>>

\* Mutant: gives up one attempt too early.
FailWrite_OffByOne(t, m) ==
  /\ stage[t][m] = "failWrite"
  /\ LET n == seen[t][m] + 1 IN
       /\ status' = SetStatus(m, IF n >= MaxRetry THEN "CANCELLED" ELSE "FAILED")
       /\ retryCount' = [retryCount EXCEPT ![m] = n]
       /\ due' = [due EXCEPT ![m] = FALSE]
  /\ GoTo(t, m, "idle")
  /\ seen' = [seen EXCEPT ![t][m] = 0]
  /\ UNCHANGED <<type, controlVars, answered, failures>>

\* Mutant: the retry is scheduled without storing the new count.
FailWrite_CountDropped(t, m) ==
  /\ stage[t][m] = "failWrite"
  /\ status' = SetStatus(m, IF seen[t][m] + 1 > MaxRetry THEN "CANCELLED" ELSE "FAILED")
  /\ due' = [due EXCEPT ![m] = FALSE]
  /\ GoTo(t, m, "idle")
  /\ seen' = [seen EXCEPT ![t][m] = 0]
  /\ UNCHANGED <<type, retryCount, controlVars, answered, failures>>

\* ... then writes the count it computed: one more retry, or CANCELLED.
FailWrite(t, m) ==
  /\ stage[t][m] = "failWrite"
  /\ \E r \in DbResults :
       LET n == seen[t][m] + 1
           writes == r # "refused" /\ Exists(m) IN
       /\ status' = IF writes
                      THEN [status EXCEPT ![m] = IF n > MaxRetry THEN "CANCELLED" ELSE "FAILED"]
                      ELSE status
       /\ retryCount' = IF writes THEN [retryCount EXCEPT ![m] = n] ELSE retryCount
       /\ due' = IF writes /\ n <= MaxRetry THEN [due EXCEPT ![m] = FALSE] ELSE due
  /\ GoTo(t, m, "idle")
  /\ seen' = [seen EXCEPT ![t][m] = 0]
  /\ UNCHANGED <<type, controlVars, answered, failures>>

\* The backoff min(30 s * 2^retryCount, 1 h) of a FAILED row elapses.
RetryDue(m) ==
  /\ status[m] = "FAILED" /\ ~due[m]
  /\ due' = [due EXCEPT ![m] = TRUE]
  /\ UNCHANGED <<status, type, retryCount, handlerVars, controlVars, answered, failures>>

\* Mutant: cleanup by age alone, whatever the status.
Cleanup_AnyStatus(last) ==
  /\ \E m \in 1..last : Exists(m)
  /\ status' = [m \in Msgs |-> IF m <= last /\ Exists(m) THEN "DELETED" ELSE status[m]]
  /\ UNCHANGED <<type, retryCount, due, handlerVars, controlVars, answered, failures>>

\* POST /cleanup: olderThanDays picks a prefix of the rows by createdAt.
Cleanup(last) ==
  /\ \E m \in 1..last : status[m] \in {"SENT", "CANCELLED"}
  /\ status' = [m \in Msgs |->
                  IF m <= last /\ status[m] \in {"SENT", "CANCELLED"}
                    THEN "DELETED" ELSE status[m]]
  /\ UNCHANGED <<type, retryCount, due, handlerVars, controlVars, answered, failures>>

SetFlag(f) ==
  /\ flag # f
  /\ flag' = f
  /\ UNCHANGED <<rowVars, handlerVars, polling, crashes, answered, failures>>

\* start() looks at the flag, waits for a metric to be stored and only then arms the
\* interval, so the flag may be off again (OutboxTimers has the steps).
StartWorker ==
  /\ ~polling
  /\ polling' = TRUE
  /\ UNCHANGED <<rowVars, handlerVars, flag, crashes, answered, failures>>

\* stop() clears the interval; handlers already running go on.
StopWorker ==
  /\ polling
  /\ polling' = FALSE
  /\ UNCHANGED <<rowVars, handlerVars, flag, crashes, answered, failures>>

\* The process exits (SIGTERM, uncaughtException) and is started again: the
\* handlers are gone and the flag has its default, so the worker is not started.
Crash ==
  /\ crashes < MaxCrashes
  /\ crashes' = crashes + 1
  /\ stage' = [t \in Ticks |-> [m \in Msgs |-> "idle"]]
  /\ seen' = [t \in Ticks |-> [m \in Msgs |-> 0]]
  /\ flag' = "off"
  /\ polling' = FALSE
  /\ UNCHANGED <<rowVars, answered, failures>>

Handle(t, m) ==
  \/ MarkProcessing(t, m) \/ Send(t, m) \/ MarkSent(t, m)
  \/ FailRead(t, m) \/ FailWrite(t, m)

Next ==
  \/ \E m \in Msgs : \E ty \in Types : Enqueue(m, ty)
  \/ \E t \in Ticks : Tick(t)
  \/ TickDisabled
  \/ \E t \in Ticks : \E m \in Msgs : Handle(t, m)
  \/ \E m \in Msgs : RetryDue(m)
  \/ \E last \in Msgs : Cleanup(last)
  \/ \E f \in {"on", "off"} : SetFlag(f)
  \/ StartWorker \/ StopWorker \/ Crash

Spec == Init /\ [][Next]_vars

\* Timers fire, statements and sends settle, time passes.
Fairness ==
  /\ \A t \in Ticks : WF_vars(Tick(t))
  /\ \A t \in Ticks : \A m \in Msgs : WF_vars(Handle(t, m))
  /\ \A m \in Msgs : WF_vars(RetryDue(m))

FairSpec == Spec /\ Fairness
-----------------------------------------------------------------------------
TypeOK ==
  /\ status \in [Msgs -> RowStatuses \cup {"ABSENT", "DELETED"}]
  /\ type \in [Msgs -> {"TELEGRAM_MESSAGE", "EMAIL", "WEBHOOK"}]
  /\ retryCount \in [Msgs -> Nat]
  /\ due \in [Msgs -> BOOLEAN]
  /\ stage \in [Ticks -> [Msgs -> Stages]]
  /\ seen \in [Ticks -> [Msgs -> Nat]]
  /\ flag \in {"on", "off"} /\ polling \in BOOLEAN
  /\ crashes \in 0..MaxCrashes
  /\ answered \in [Msgs -> BOOLEAN]
  /\ failures \in [Msgs -> Nat]
(* A row says SENT only when sendMessage has resolved for it: markAsSent   *)
(* runs after it, in whatever order handlers of the same row interleave,   *)
(* statements fail or the process restarts.  No more can be said: with the *)
(* sendMessage of index.ts the message is nowhere then.                    *)
SentOnlyAfterSend == \A m \in Msgs : status[m] = "SENT" => answered[m]

(* A message is given up (CANCELLED), or disappears from the table without *)
(* sendMessage having resolved for it, only after more than MaxRetry       *)
(* recorded failures: neither racing markAsFailed calls nor cleanup drop   *)
(* it earlier.                                                             *)
GivenUpOnlyWhenExhausted ==
  \A m \in Msgs :
    /\ status[m] = "CANCELLED" => failures[m] > MaxRetry
    /\ status[m] = "DELETED" => answered[m] \/ failures[m] > MaxRetry

(* retry_count never exceeds the number of failed attempts, so it cannot   *)
(* use up the retry budget by itself (markAsFailed's read-then-write).     *)
RetryNeverOvercounts == \A m \in Msgs : retryCount[m] <= failures[m]

\* A restart met the row while it was PROCESSING: nobody works on it, and no query selects it.
Stranded(m) == status[m] = "PROCESSING" /\ \A t \in Ticks : stage[t][m] = "idle"

(* Between attempts retry_count is exactly the number of failed attempts,  *)
(* as the comment of the column says, restarts included.                   *)
RetryCountExact ==
  \A m \in Msgs :
    \/ \E t \in Ticks : stage[t][m] \in {"failRead", "failWrite"}
    \/ Stranded(m)
    \/ retryCount[m] = failures[m]

(* With one tick at a time the table implements the abstract delivery:     *)
(* SENT and CANCELLED are final and every failure counts once.             *)
PhaseOf ==
  [ABSENT |-> "none", PENDING |-> "queued", FAILED |-> "queued", PROCESSING |-> "attempting",
   SENT |-> "sent", CANCELLED |-> "cancelled", DELETED |-> "purged"]
Delivery ==
  INSTANCE OutboxDelivery WITH phase <- [m \in Msgs |-> PhaseOf[status[m]]], tries <- retryCount
ImplementsDelivery == Delivery!Spec

(* "Guaranteed delivery with retries" (header of outbox.ts): once the      *)
(* outbox stays switched on and polling, a pending message is eventually   *)
(* settled, whatever the messages before it do.                            *)
EverySettles ==
  <>[](polling /\ flag = "on") =>
    \A m \in Msgs : status[m] = "PENDING" ~> status[m] \in {"SENT", "CANCELLED", "DELETED"}

(* A restart does no other harm than that: messages that it finds waiting, *)
(* for their first attempt or for a retry, are settled all the same.       *)
SettlesUnlessStranded ==
  <>[](polling /\ flag = "on") =>
    \A m \in Msgs : status[m] = "PENDING" ~> \/ status[m] \in {"SENT", "CANCELLED", "DELETED"}
                                             \/ Stranded(m)
=============================================================================
