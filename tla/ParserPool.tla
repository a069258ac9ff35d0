----------------------------- MODULE ParserPool -----------------------------
(***************************************************************************)
(* The service that parses files in web workers (json-parser-service.ts,   *)
(* json-parser.worker.ts).  The page and every worker are threads joined   *)
(* by two channels in order; each handler of a message runs to its end,    *)
(* a parse in a worker is asynchronous and does not stop the worker from   *)
(* receiving.  A worker whose script cannot be loaded receives nothing and *)
(* raises one error event.  Tasks are numbered in the order of parseFile;  *)
(* progress reports are left out.                                          *)
(***************************************************************************)
EXTENDS Integers, Sequences, SequencesExt, FiniteSetsExt

CONSTANTS
  MaxFiles,   \* bound: files ever selected; tasks are among their numbers
  WorkerCount,
  Unreliable, \* workers whose script may fail to load
  MaxCancels  \* bound: tasks that cancelTask is called for, once each

ASSUME PoolAssumption ==
  /\ MaxFiles \in Nat /\ WorkerCount \in Nat \ {0}
  /\ Unreliable \subseteq 0..WorkerCount - 1 /\ MaxCancels \in Nat

Tasks == 1..MaxFiles
Workers == 0..WorkerCount - 1

VARIABLES
  status,     \* activeTasks: "none" before; an ended task may have been forgotten
  taskQueue,
  workerBusy,
  timers,     \* pending setTimeout(processQueue, 0)
  toWorker, fromWorker, \* channels of a worker: <<kind of message, task>>
  known,      \* tasks of a worker that it would cancel
  parsing,    \* ... and those it is parsing
  health,     \* "ok", "unloaded", and "failed" after the error event
  asked       \* tasks that cancelTask was called for

poolVars == <<status, taskQueue, workerBusy, timers, toWorker, fromWorker, known, parsing,
              health, asked>>

PoolInit ==
  /\ status = [t \in Tasks |-> "none"]
  /\ taskQueue = <<>> /\ workerBusy = {} /\ timers = 0
  /\ toWorker = [w \in Workers |-> <<>>] /\ fromWorker = [w \in Workers |-> <<>>]
  /\ known = [w \in Workers |-> {}] /\ parsing = [w \in Workers |-> {}]
  /\ health \in [Workers -> {"ok", "unloaded"}]
  /\ \A w \in Workers \ Unreliable : health[w] = "ok"
  /\ asked = {}

Ended == {"completed", "error", "cancelled"}

\* The table after a verdict.  A task that has ended before may be forgotten by now (5 or 30 s).
Updates(t, verdict) ==
  {[status EXCEPT ![t] = verdict]} \cup (IF status[t] \in Ended THEN {status} ELSE {})

\* processQueue from queue q with the workers of busy, table st and k timers: the first
\* pending task goes to the first free worker, those that are not pending are passed over, and
\* a timer looks for the next.  Without a free worker nothing happens.
ProcessQueue(q, busy, st, k) ==
  LET i == SelectInSeq(q, LAMBDA t : st[t] = "pending")
      w == Min(Workers \ busy)
  IN  IF busy = Workers \/ i = 0
        THEN /\ taskQueue' = IF busy = Workers THEN q ELSE <<>>
             /\ workerBusy' = busy /\ status' = st /\ timers' = k
             /\ UNCHANGED toWorker
        ELSE /\ taskQueue' = SubSeq(q, i + 1, Len(q))
             /\ workerBusy' = busy \cup {w}
             /\ status' = [st EXCEPT ![q[i]] = "processing"]
             /\ timers' = k + 1
             /\ toWorker' = [toWorker EXCEPT ![w] = Append(@, <<"parse", q[i]>>)]
-----------------------------------------------------------------------------
(* The page. *)
ParseFile(t) ==
  /\ status[t] = "none"
  /\ ProcessQueue(Append(taskQueue, t), workerBusy, [status EXCEPT ![t] = "pending"], timers)
  /\ UNCHANGED <<fromWorker, known, parsing, health, asked>>

Timer ==
  /\ timers > 0
  /\ ProcessQueue(taskQueue, workerBusy, status, timers - 1)
  /\ UNCHANGED <<fromWorker, known, parsing, health, asked>>

\* A worker that knows the task or is going to; for the others a cancellation is nothing.
Holds(w, t) == t \in known[w] \/ <<"parse", t>> \in Range(toWorker[w])

\* A pending task is withdrawn at once; for one in progress the workers are told.
CancelTask(t) ==
  /\ Cardinality(asked) < MaxCancels /\ t \notin asked /\ status[t] \in {"pending", "processing"}
  /\ asked' = asked \cup {t}
  /\ IF status[t] = "pending"
       THEN /\ taskQueue' = RemoveFirst(taskQueue, t)
            /\ status' = [status EXCEPT ![t] = "cancelled"]
            /\ UNCHANGED toWorker
       ELSE /\ toWorker' = [w \in Workers |->
                 IF Holds(w, t) THEN Append(toWorker[w], <<"cancel", t>>) ELSE toWorker[w]]
            /\ UNCHANGED <<taskQueue, status>>
  /\ UNCHANGED <<workerBusy, timers, fromWorker, known, parsing, health>>

\* Mutant: the message that a task was cancelled frees the worker and leaves the queue.
WorkerMessage_CancelIdles(w) ==
  /\ fromWorker[w] # <<>>
  /\ LET kind == Head(fromWorker[w])[1]
         t == Head(fromWorker[w])[2]
     IN  IF kind = "cancelled"
           THEN /\ status' \in Updates(t, kind) /\ workerBusy' = workerBusy \ {w}
                /\ UNCHANGED <<taskQueue, timers, toWorker>>
           ELSE \E st \in Updates(t, kind) : ProcessQueue(taskQueue, workerBusy \ {w}, st, timers)
  /\ fromWorker' = [fromWorker EXCEPT ![w] = Tail(@)]
  /\ UNCHANGED <<known, parsing, health, asked>>

\* Every verdict frees the worker it comes from, even if that has another task by now.
WorkerMessage(w) ==
  /\ fromWorker[w] # <<>>
  /\ \E st \in Updates(Head(fromWorker[w])[2], Head(fromWorker[w])[1]) :
       ProcessQueue(taskQueue, workerBusy \ {w}, st, timers)
  /\ fromWorker' = [fromWorker EXCEPT ![w] = Tail(@)]
  /\ UNCHANGED <<known, parsing, health, asked>>

\* handleWorkerError: everything in progress is an error, the queue is not looked at.
WorkerError(w) ==
  /\ health[w] = "unloaded"
  /\ health' = [health EXCEPT ![w] = "failed"]
  /\ workerBusy' = workerBusy \ {w}
  /\ status' = [t \in Tasks |-> IF status[t] = "processing" THEN "error" ELSE status[t]]
  /\ UNCHANGED <<taskQueue, timers, toWorker, fromWorker, known, parsing, asked>>
-----------------------------------------------------------------------------
(* A worker. *)
Post(w, kind, t) == fromWorker' = [fromWorker EXCEPT ![w] = Append(@, <<kind, t>>)]

\* A task is cancelled if it is known and not cancelled yet; its parse goes on.
Receive(w) ==
  /\ health[w] = "ok" /\ toWorker[w] # <<>>
  /\ LET kind == Head(toWorker[w])[1]
         t == Head(toWorker[w])[2]
     IN  IF kind = "parse"
           THEN /\ known' = [known EXCEPT ![w] = @ \cup {t}]
                /\ parsing' = [parsing EXCEPT ![w] = @ \cup {t}]
                /\ UNCHANGED fromWorker
           ELSE /\ known' = [known EXCEPT ![w] = @ \ {t}]
                /\ IF t \in known[w] THEN Post(w, "cancelled", t) ELSE UNCHANGED fromWorker
                /\ UNCHANGED parsing
  /\ toWorker' = [toWorker EXCEPT ![w] = Tail(@)]
  /\ UNCHANGED <<status, taskQueue, workerBusy, timers, health, asked>>

\* Mutant: a task that is done is still known.
Finish_StaysKnown(w) ==
  /\ \E t \in parsing[w], kind \in {"completed", "error"} :
       /\ parsing' = [parsing EXCEPT ![w] = @ \ {t}]
       /\ Post(w, kind, t)
  /\ UNCHANGED <<status, taskQueue, workerBusy, timers, toWorker, known, health, asked>>

Finish(w) ==
  /\ \E t \in parsing[w], kind \in {"completed", "error"} :
       /\ parsing' = [parsing EXCEPT ![w] = @ \ {t}]
       /\ known' = [known EXCEPT ![w] = @ \ {t}]
       /\ Post(w, kind, t)
  /\ UNCHANGED <<status, taskQueue, workerBusy, timers, toWorker, health, asked>>
-----------------------------------------------------------------------------
Page == Timer \/ \E w \in Workers : WorkerMessage(w)
Worker(w) == Receive(w) \/ Finish(w)

PoolStep ==
  \/ Page
  \/ \E t \in Tasks : CancelTask(t)
  \/ \E w \in Workers : Worker(w) \/ WorkerError(w)

\* The event loops run: the page's, and that of each worker, where parses end.
PoolFairness == WF_poolVars(Page) /\ \A w \in Workers : WF_poolVars(Worker(w))
-----------------------------------------------------------------------------
Messages(kinds) == kinds \X Tasks

PoolTypeOK ==
  /\ status \in [Tasks -> Ended \cup {"none", "pending", "processing"}]
  /\ taskQueue \in Seq(Tasks) /\ workerBusy \subseteq Workers /\ timers \in 0..MaxFiles
  /\ toWorker \in [Workers -> Seq(Messages({"parse", "cancel"}))]
  /\ fromWorker \in [Workers -> Seq(Messages(Ended))]
  /\ parsing \in [Workers -> SUBSET Tasks] /\ \A w \in Workers : known[w] \subseteq parsing[w]
  /\ health \in [Workers -> {"ok", "unloaded", "failed"}]
  /\ asked \subseteq Tasks

\* The pool never idles: tasks that wait, in the order of their selection and each once, do
\* so because all workers are busy - whatever is cancelled and however verdicts that
\* come late free workers which have another task - unless a worker could not be loaded.
NoIdleWorker ==
  /\ Range(taskQueue) = {t \in Tasks : status[t] = "pending"}
  /\ \A i, j \in DOMAIN taskQueue : i < j => taskQueue[i] < taskQueue[j]
  /\ taskQueue # <<>> => workerBusy = Workers \/ \E w \in Workers : health[w] = "failed"

\* A result that was delivered is never taken back: a task that is completed stays so, although
\* a cancellation, a late verdict or the error of another worker may be under way.
CompletedIsFinal ==
  [][\A t \in Tasks : status[t] = "completed" => status'[t] = "completed"]_poolVars
=============================================================================
