----------------------------- MODULE UploadFlow -----------------------------
(***************************************************************************)
(* The upload of a usage file on the dashboard (use-upload-flow.ts,        *)
(* use-json-parser.ts, use-debounce.ts, pages/dashboard/index.tsx) over    *)
(* the pool of parsers: select, parse, validate after a pause, create a    *)
(* job, upload.  The user may start again at any time, which cancels       *)
(* nothing.  The page is not left.  The answers of the server are those    *)
(* the client distinguishes; at this commit it has no route for jobs.      *)
(* A file is the number of its selection, and so is its content.           *)
(***************************************************************************)
EXTENDS ParserPool

CONSTANTS MaybeLarge  \* files that may be above the limit of the pool

ASSUME FlowAssumption == MaybeLarge \subseteq 1..MaxFiles

VARIABLES
  phase, file,  \* state of the reducer; 0 without a file
  jobCode,      \* jobCodeRef.current is set: the page shows the monitor
  selected,     \* selections so far
  subscribed,   \* the task whose updates the hook listens to, or 0
  direct,       \* files too large for the pool, being parsed on the page
  debounced,    \* last argument of the debounced validation, 0 if no timer is pending
  run,          \* by the content that was validated: the file and the step of its upload
  mixed         \* history: a file was selected while the content of another could still arrive

flowVars == <<phase, file, jobCode, selected, subscribed, direct, debounced, run, mixed>>
vars == <<poolVars, flowVars>>

NoRun == [file |-> 0, step |-> "none"]

Init ==
  /\ PoolInit
  /\ phase = "idle" /\ file = 0 /\ jobCode = FALSE /\ selected = 0
  /\ subscribed = 0 /\ direct = {} /\ debounced = 0
  /\ run = [t \in Tasks |-> NoRun] /\ mixed = FALSE

\* Mutant: the listener hears of results only.
Hear_ResultsOnly(p) ==
  LET now == IF subscribed = 0 THEN "none" ELSE status'[subscribed]
      news == now # "none" /\ now # status[subscribed]
  IN  /\ debounced' = IF news /\ now = "completed" THEN subscribed ELSE debounced
      /\ phase' = p

\* The listener of the subscribed task: a result is handed to the validation, an error is shown.
Hear(p) ==
  LET now == IF subscribed = 0 THEN "none" ELSE status'[subscribed]
      news == now # "none" /\ now # status[subscribed]
  IN  /\ debounced' = IF news /\ now = "completed" THEN subscribed ELSE debounced
      /\ phase' = IF news /\ now = "error" THEN "error" ELSE p
-----------------------------------------------------------------------------
\* Mutant: the subscription to the previous task stays the one that is heard.
Select_OldSubscription(large) ==
  /\ phase = "idle" /\ ~jobCode /\ selected < MaxFiles
  /\ large => selected + 1 \in MaybeLarge
  /\ selected' = selected + 1 /\ file' = selected + 1 /\ phase' = "validating"
  /\ IF large
       THEN direct' = direct \cup {selected + 1} /\ UNCHANGED <<poolVars, subscribed>>
       ELSE /\ ParseFile(selected + 1)
            /\ subscribed' = IF subscribed = 0 THEN selected + 1 ELSE subscribed
            /\ UNCHANGED direct
  /\ mixed' = (mixed \/ debounced # 0 \/ direct # {} \/ (large /\ subscribed # 0))
  /\ UNCHANGED <<jobCode, debounced, run>>

\* The zone for files is shown only to begin with.  The subscription replaces the previous one,
\* but for a large file, which is parsed on the page when the pool has refused it.
Select(large) ==
  /\ phase = "idle" /\ ~jobCode /\ selected < MaxFiles
  /\ large => selected + 1 \in MaybeLarge
  /\ selected' = selected + 1 /\ file' = selected + 1 /\ phase' = "validating"
  /\ IF large
       THEN direct' = direct \cup {selected + 1} /\ UNCHANGED <<poolVars, subscribed>>
       ELSE /\ ParseFile(selected + 1)
            /\ subscribed' = selected + 1
            /\ UNCHANGED direct
  /\ mixed' = (mixed \/ debounced # 0 \/ direct # {} \/ (large /\ subscribed # 0))
  /\ UNCHANGED <<jobCode, debounced, run>>

\* A step of the pool is heard by the page.
PoolRuns ==
  /\ PoolStep /\ Hear(phase)
  /\ UNCHANGED <<file, jobCode, selected, subscribed, direct, run, mixed>>

\* A progress report repeats the status of a task that another worker's failure made an error.
RepeatedError ==
  /\ subscribed # 0 /\ status[subscribed] = "error"
  /\ \E w \in Workers : subscribed \in parsing[w] \cup {m[2] : m \in Range(fromWorker[w])}
  /\ phase' = "error"
  /\ UNCHANGED <<poolVars, file, jobCode, selected, subscribed, direct, debounced, run, mixed>>

DirectEnds(t) ==
  /\ t \in direct
  /\ direct' = direct \ {t}
  /\ \/ debounced' = t /\ UNCHANGED phase
     \/ phase' = "error" /\ UNCHANGED debounced
  /\ UNCHANGED <<poolVars, file, jobCode, selected, subscribed, run, mixed>>

\* The timer calls validateAndProcessResult, which knows the file of the last rendering.
Validate ==
  /\ debounced # 0
  /\ debounced' = 0
  /\ \/ file = 0 /\ UNCHANGED <<phase, jobCode, run>>
     \/ file # 0 /\ phase' = "error" /\ UNCHANGED <<jobCode, run>>
     \/ /\ file # 0 /\ jobCode' = TRUE
        /\ run' = [run EXCEPT ![debounced] = [file |-> file, step |-> "job"]]
        /\ UNCHANGED phase
  /\ UNCHANGED <<poolVars, file, selected, subscribed, direct, mixed>>

\* The answers to createImportJob and to the upload.
JobAnswer(t) ==
  /\ run[t].step = "job"
  /\ \/ phase' = "uploading" /\ run' = [run EXCEPT ![t].step = "upload"]
     \/ phase' = "error" /\ run' = [run EXCEPT ![t] = NoRun]
  /\ UNCHANGED <<poolVars, file, jobCode, selected, subscribed, direct, debounced, mixed>>

UploadAnswer(t) ==
  /\ run[t].step = "upload"
  /\ \/ phase' = "processing" /\ run' = [run EXCEPT ![t] = NoRun]
     \/ phase' = "error" /\ run' = [run EXCEPT ![t] = NoRun]
  /\ UNCHANGED <<poolVars, file, jobCode, selected, subscribed, direct, debounced, mixed>>

\* The button is shown with the monitor, the progress, the success and the error.
Reset ==
  /\ jobCode \/ phase # "idle"
  /\ phase' = "idle" /\ file' = 0 /\ jobCode' = FALSE
  /\ UNCHANGED <<poolVars, selected, subscribed, direct, debounced, run, mixed>>
-----------------------------------------------------------------------------
Answers == \E t \in Tasks : DirectEnds(t) \/ JobAnswer(t) \/ UploadAnswer(t)

Next ==
  \/ \E large \in BOOLEAN : Select(large)
  \/ PoolRuns \/ RepeatedError \/ Validate \/ Answers \/ Reset

\* Timers fire, requests are answered; of the user nothing is assumed.
Spec == Init /\ [][Next]_vars
FairSpec == Spec /\ PoolFairness /\ WF_vars(Validate \/ Answers)
-----------------------------------------------------------------------------
TypeOK ==
  /\ PoolTypeOK
  /\ phase \in {"idle", "validating", "uploading", "processing", "error"}
  /\ file \in 0..MaxFiles /\ selected \in 0..MaxFiles /\ subscribed \in 0..MaxFiles
  /\ debounced \in 0..MaxFiles /\ direct \subseteq Tasks
  /\ jobCode \in BOOLEAN /\ mixed \in BOOLEAN
  /\ \A t \in Tasks : run[t].file \in 0..MaxFiles

\* What is uploaded was validated: the content that passed is the content of the file,
\* however often the user started again and whatever late results of earlier files do -
\* as long as no file was selected while a validation was pending, a large file was being parsed,
\* or, for a large file, a task of the pool was still listened to.
UploadsWhatWasValidated == ~mixed => \A t \in Tasks : run[t].file \in {0, t}

\* A selection does not stay in validation for ever, if all workers could be loaded and its
\* task was not cancelled.
ValidationEnds ==
  phase = "validating" ~>
    phase # "validating" \/ subscribed \in asked \/ \E w \in Workers : health[w] # "ok"
=============================================================================
