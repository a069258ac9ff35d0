---------------------------- MODULE OutboxTimers ----------------------------
(***************************************************************************)
(* How the worker of Outbox is started and stopped: isRunning, intervalId  *)
(* and the intervals behind them.  start() sets isRunning, waits for a     *)
(* metric to be stored and only then arms the interval; stop() and further *)
(* calls of start() come in between.  Outbox knows only whether some       *)
(* interval is armed (polling); this module implements it.                 *)
(* Intervals differ only in whether intervalId names them.                 *)
(***************************************************************************)
EXTENDS Outbox

CONSTANT MaxStarts \* bound: calls of start() that get past its guards

ASSUME TimersAssumption == MaxStarts \in Nat

VARIABLES
  running,  \* isRunning
  held,     \* intervalId names an armed interval
  strays,   \* armed intervals it does not name
  starting, \* calls of start() that wait for their metric
  starts,
  raced     \* history: stop() took effect while a start() was waiting

timerVars == <<running, held, strays, starting, starts, raced>>
outboxRest == <<rowVars, handlerVars, flag, crashes, answered, failures>>

TimersInit ==
  /\ Init
  /\ running = FALSE /\ held = FALSE /\ strays = 0 /\ starting = 0
  /\ starts = 0 /\ raced = FALSE
-----------------------------------------------------------------------------
\* start(), from the route or at boot, up to its await.
Begin ==
  /\ ~running /\ flag = "on" /\ starts < MaxStarts
  /\ running' = TRUE /\ starting' = starting + 1 /\ starts' = starts + 1
  /\ UNCHANGED <<vars, held, strays, raced>>

\* The rest of start(): the new interval takes the place of the one intervalId named.
Arm ==
  /\ starting # 0
  /\ starting' = starting - 1
  /\ strays' = IF held THEN strays + 1 ELSE strays
  /\ held' = TRUE /\ polling' = TRUE
  /\ UNCHANGED <<outboxRest, running, starts, raced>>

\* Mutant: stop() leaves the interval armed.
Halt_KeepsInterval ==
  /\ running
  /\ running' = FALSE /\ held' = FALSE /\ strays' = IF held THEN strays + 1 ELSE strays
  /\ raced' = (raced \/ starting # 0)
  /\ UNCHANGED <<vars, starting, starts>>

\* Mutant: stop() drops the handlers that are running.
Halt_DropsHandlers ==
  /\ running
  /\ running' = FALSE /\ held' = FALSE /\ polling' = (strays # 0)
  /\ stage' = [t \in Ticks |-> [m \in Msgs |-> "idle"]]
  /\ raced' = (raced \/ starting # 0)
  /\ UNCHANGED <<rowVars, seen, flag, crashes, answered, failures, strays, starting, starts>>

\* stop(), from the route or when processMessages finds the flag off: the interval that
\* intervalId names is cleared, no other.
Halt ==
  /\ running
  /\ running' = FALSE /\ held' = FALSE /\ polling' = (strays # 0)
  /\ raced' = (raced \/ starting # 0)
  /\ UNCHANGED <<outboxRest, strays, starting, starts>>

Restart ==
  /\ Crash
  /\ running' = FALSE /\ held' = FALSE /\ strays' = 0 /\ starting' = 0
  /\ UNCHANGED <<starts, raced>>

\* The steps of Outbox that leave the timers alone.
Elsewhere ==
  /\ \/ \E m \in Msgs, ty \in Types : Enqueue(m, ty)
     \/ \E t \in Ticks : Tick(t) \/ \E m \in Msgs : Handle(t, m)
     \/ \E m \in Msgs : RetryDue(m) \/ Cleanup(m)
     \/ \E f \in {"on", "off"} : SetFlag(f)
  /\ UNCHANGED timerVars

TimersNext == Begin \/ Arm \/ Halt \/ Restart \/ Elsewhere

TimersSpec == TimersInit /\ [][TimersNext]_<<vars, timerVars>>
-----------------------------------------------------------------------------
(* A worker that is stopped polls no more, and a running one has at most   *)
(* one interval, unless a stop() met a start() that was still waiting:     *)
(* then the interval is armed after the stop, and a further start() leaves *)
(* it armed for good.                                                      *)
StoppedIsQuiet ==
  ~raced => /\ ~running => ~polling
            /\ strays = 0

(* The armed intervals make the worker poll.                               *)
PollsWhenArmed == polling <=> (held \/ strays # 0)

(* Without the race there is one start() at a time, and it runs while no   *)
(* interval is armed.                                                      *)
OneInterval ==
  ~raced => /\ strays = 0 /\ starting \in {0, 1}
            /\ held => running /\ starting = 0
            /\ starting = 1 => running

(* Every step of worker, routes and timers is one of Outbox or changes     *)
(* nothing of it: what is checked and proved of Outbox holds for every way *)
(* the worker can be started and stopped.                                  *)
ImplementsOutbox == Spec
=============================================================================
