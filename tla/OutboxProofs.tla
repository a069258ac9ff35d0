---------------------------- MODULE OutboxProofs ----------------------------
(***************************************************************************)
(* Proofs about Outbox and OutboxTimers, for any number of rows, ticks,    *)
(* retries, starts and crashes: the safety of the table, its retry         *)
(* count, the implementation of OutboxDelivery, and that the worker with   *)
(* its timers implements Outbox, so that all of it holds of the worker.    *)
(* IInv adds to the properties what holds while a handler stands           *)
(* between two statements: before markAsSent sendMessage has resolved,     *)
(* and the count markAsFailed has read is below the recorded failures.     *)
(***************************************************************************)
EXTENDS OutboxTimers, TLAPS

HandlerInv ==
  \A t \in Ticks : \A m \in Msgs :
    /\ stage[t][m] = "markSent" => answered[m]
    /\ stage[t][m] = "failWrite" => seen[t][m] < failures[m]

IInv ==
  /\ TypeOK
  /\ HandlerInv
  /\ SentOnlyAfterSend
  /\ GivenUpOnlyWhenExhausted
  /\ RetryNeverOvercounts

(* The initial states satisfy the inductive invariant. *)
LEMMA InitInv == Init => IInv
<1> SUFFICES ASSUME Init PROVE IInv
  OBVIOUS
<1>1. TypeOK
  <2>1. /\ status \in [Msgs -> RowStatuses \cup {"ABSENT", "DELETED"}]
        /\ type \in [Msgs -> {"TELEGRAM_MESSAGE", "EMAIL", "WEBHOOK"}]
        /\ stage \in [Ticks -> [Msgs -> Stages]]
    BY Zenon DEF Init, Stages
  <2>2. /\ retryCount \in [Msgs -> Nat] /\ failures \in [Msgs -> Nat]
        /\ seen \in [Ticks -> [Msgs -> Nat]]
        /\ crashes \in 0..MaxCrashes
    BY OutboxAssumption DEF Init
  <2>3. /\ due \in [Msgs -> BOOLEAN] /\ answered \in [Msgs -> BOOLEAN]
        /\ flag \in {"on", "off"} /\ polling \in BOOLEAN
    BY DEF Init
  <2> QED
    BY <2>1, <2>2, <2>3 DEF TypeOK
<1>2. HandlerInv
  BY DEF Init, HandlerInv
<1>3. SentOnlyAfterSend /\ GivenUpOnlyWhenExhausted /\ RetryNeverOvercounts
  BY DEF Init, SentOnlyAfterSend, GivenUpOnlyWhenExhausted, RetryNeverOvercounts
<1> QED
  BY <1>1, <1>2, <1>3 DEF IInv

(* Every action of every handler keeps it. *)
LEMMA NextInv ==
  ASSUME IInv, [Next]_vars
  PROVE  IInv'
<1> USE OutboxAssumption
    DEF IInv, TypeOK, HandlerInv, SentOnlyAfterSend, GivenUpOnlyWhenExhausted,
        RetryNeverOvercounts, RowStatuses, Stages, controlVars, handlerVars, rowVars
<1>1. ASSUME NEW m \in Msgs, NEW ty \in Types, Enqueue(m, ty) PROVE IInv'
  BY <1>1 DEF Enqueue
<1>2. ASSUME NEW t \in Ticks, Tick(t) PROVE IInv'
  BY <1>2 DEF Tick
<1>3. CASE TickDisabled
  BY <1>3 DEF TickDisabled
<1>4. ASSUME NEW t \in Ticks, NEW m \in Msgs, MarkProcessing(t, m) PROVE IInv'
  BY <1>4 DEF MarkProcessing, GoTo, SetStatus, Exists
<1>5. ASSUME NEW t \in Ticks, NEW m \in Msgs, Send(t, m) PROVE IInv'
  <2>1. PICK o \in SendOutcomes \cup {"rejected"} :
          /\ answered' = [answered EXCEPT ![m] = answered[m] \/ o = "resolved"]
          /\ stage' = [stage EXCEPT ![t][m] =
                         IF o = "resolved" THEN "markSent" ELSE "failRead"]
    BY <1>5 DEF Send, GoTo
  <2>2. /\ answered' \in [Msgs -> BOOLEAN]
        /\ \A k \in Msgs : answered[k] => answered'[k]
        /\ o = "resolved" => answered'[m]
    BY <2>1, Zenon
  <2>3. stage' \in [Ticks -> [Msgs -> Stages]]
    BY <2>1
  <2>4. \A u \in Ticks : \A k \in Msgs :
          stage'[u][k] = "markSent" => stage[u][k] = "markSent" \/ (k = m /\ o = "resolved")
    BY <2>1
  <2>5. \A u \in Ticks : \A k \in Msgs : stage'[u][k] = "failWrite" => stage[u][k] = "failWrite"
    BY <2>1
  <2>6. UNCHANGED <<rowVars, seen, controlVars, failures>>
    BY <1>5 DEF Send
  <2>7. TypeOK'
    BY <2>2, <2>3, <2>6
  <2>8. HandlerInv'
    BY <2>2, <2>4, <2>5, <2>6
  <2> QED
    BY <2>2, <2>6, <2>7, <2>8
<1>6. ASSUME NEW t \in Ticks, NEW m \in Msgs, MarkSent(t, m) PROVE IInv'
  BY <1>6 DEF MarkSent, GoTo, SetStatus, Exists
<1>7. ASSUME NEW t \in Ticks, NEW m \in Msgs, FailRead(t, m) PROVE IInv'
  <2>1. CASE /\ seen' = [seen EXCEPT ![t][m] = retryCount[m]]
             /\ failures' = [failures EXCEPT ![m] = @ + 1]
             /\ stage' = [stage EXCEPT ![t][m] = "failWrite"]
             /\ UNCHANGED <<rowVars, controlVars, answered>>
    <3>1. TypeOK'
      BY <2>1
    <3>2. \A k \in Msgs : failures[k] <= failures'[k]
      BY <2>1
    <3>3. seen'[t][m] < failures'[m]
      BY <2>1
    <3>4. HandlerInv'
      BY <2>1, <3>1, <3>2, <3>3
    <3>5. SentOnlyAfterSend' /\ GivenUpOnlyWhenExhausted' /\ RetryNeverOvercounts'
      BY <2>1, <3>1, <3>2, SMTT(30)
    <3> QED
      BY <3>1, <3>4, <3>5
  <2>2. CASE /\ stage' = [stage EXCEPT ![t][m] = "idle"]
             /\ UNCHANGED <<seen, failures, rowVars, controlVars, answered>>
    BY <2>2
  <2> QED
    BY <1>7, <2>1, <2>2 DEF FailRead, GoTo
<1>8. ASSUME NEW t \in Ticks, NEW m \in Msgs, FailWrite(t, m) PROVE IInv'
  BY <1>8 DEF FailWrite, GoTo, Exists
<1>9. ASSUME NEW m \in Msgs, RetryDue(m) PROVE IInv'
  BY <1>9 DEF RetryDue
<1>10. ASSUME NEW last \in Msgs, Cleanup(last) PROVE IInv'
  BY <1>10 DEF Cleanup
<1>11. ASSUME NEW f \in {"on", "off"}, SetFlag(f) PROVE IInv'
  BY <1>11 DEF SetFlag
<1>12. CASE StartWorker
  BY <1>12 DEF StartWorker
<1>13. CASE StopWorker
  BY <1>13 DEF StopWorker
<1>14. CASE Crash
  <2>1. \A t \in Ticks : \A m \in Msgs : stage'[t][m] = "idle"
    BY <1>14 DEF Crash
  <2>2. /\ stage' \in [Ticks -> [Msgs -> Stages]]
        /\ seen' \in [Ticks -> [Msgs -> Nat]]
    <3>1. \A t \in Ticks : [m \in Msgs |-> "idle"] \in [Msgs -> Stages]
      OBVIOUS
    <3> QED
      BY <1>14, <3>1, Zenon DEF Crash
  <2>3. crashes' \in 0..MaxCrashes
    BY <1>14 DEF Crash
  <2> QED
    BY <1>14, <2>1, <2>2, <2>3 DEF Crash
<1>15. CASE UNCHANGED vars
  BY <1>15 DEF vars
<1> QED
  BY <1>1, <1>2, <1>3, <1>4, <1>5, <1>6, <1>7, <1>8, <1>9, <1>10, <1>11, <1>12, <1>13,
     <1>14, <1>15 DEF Next, Handle

(* Whatever ticks overlap, statements fail or restarts happen, and         *)
(* whatever transport the worker was given: a row says SENT only once      *)
(* sendMessage has resolved for it, a message is given up, or removed      *)
(* without that, only after its retries, and retry_count never overcounts. *)
THEOREM OutboxSafety ==
  Spec => [](TypeOK /\ SentOnlyAfterSend /\ GivenUpOnlyWhenExhausted /\ RetryNeverOvercounts)
<1>1. IInv /\ [Next]_vars => IInv'
  BY NextInv
<1>2. IInv => TypeOK /\ SentOnlyAfterSend /\ GivenUpOnlyWhenExhausted /\ RetryNeverOvercounts
  BY DEF IInv
<1> QED
  BY InitInv, <1>1, <1>2, PTL DEF Spec
-----------------------------------------------------------------------------
(***************************************************************************)
(* The refinement.  With one tick at a time the handler of a row is the    *)
(* only writer of it: until it is done the row is where the handler left   *)
(* it, and the count it read is still the count of the row.                *)
(***************************************************************************)
Owned ==
  \A t \in Ticks : \A m \in Msgs :
    /\ stage[t][m] = "mark" => status[m] \in {"PENDING", "FAILED"}
    /\ stage[t][m] \in {"send", "markSent"} => status[m] = "PROCESSING"
    /\ stage[t][m] \in {"failRead", "failWrite"} => status[m] \in {"PENDING", "FAILED", "PROCESSING"}
    /\ stage[t][m] = "failWrite" => seen[t][m] = retryCount[m]

RInv == TypeOK /\ Owned

SerialTicks == \A t, u \in Ticks : t = u

(* The initial states satisfy the invariant of the refinement. *)
LEMMA InitRInv == Init => RInv
<1>1. Init => Owned
  BY DEF Init, Owned
<1> QED
  BY <1>1, InitInv DEF IInv, RInv

(* With one tick at a time nobody else moves the row of a running handler. *)
LEMMA NextOwned ==
  ASSUME SerialTicks, "ackLost" \notin DbFaults, TypeOK, TypeOK', Owned, [Next]_vars
  PROVE  Owned'
<1> USE OutboxAssumption
    DEF TypeOK, Owned, RowStatuses, Stages, controlVars, handlerVars, rowVars
<1>1. ASSUME NEW m \in Msgs, NEW ty \in Types, Enqueue(m, ty) PROVE Owned'
  BY <1>1 DEF Enqueue
<1>2. ASSUME NEW t \in Ticks, Tick(t) PROVE Owned'
  BY <1>2 DEF Tick, Batch, Ready
<1>3. CASE TickDisabled
  BY <1>3 DEF TickDisabled
<1>4. ASSUME NEW t \in Ticks, NEW m \in Msgs, MarkProcessing(t, m) PROVE Owned'
  BY <1>4 DEF MarkProcessing, GoTo, SetStatus, Exists, SerialTicks, DbResults
<1>5. ASSUME NEW t \in Ticks, NEW m \in Msgs, Send(t, m) PROVE Owned'
  BY <1>5 DEF Send, GoTo, SerialTicks
<1>6. ASSUME NEW t \in Ticks, NEW m \in Msgs, MarkSent(t, m) PROVE Owned'
  BY <1>6 DEF MarkSent, GoTo, SetStatus, Exists, SerialTicks, DbResults
<1>7. ASSUME NEW t \in Ticks, NEW m \in Msgs, FailRead(t, m) PROVE Owned'
  BY <1>7 DEF FailRead, GoTo, SerialTicks, Exists
<1>8. ASSUME NEW t \in Ticks, NEW m \in Msgs, FailWrite(t, m) PROVE Owned'
  BY <1>8 DEF FailWrite, GoTo, SerialTicks, Exists, DbResults
<1>9. ASSUME NEW m \in Msgs, RetryDue(m) PROVE Owned'
  BY <1>9 DEF RetryDue
<1>10. ASSUME NEW last \in Msgs, Cleanup(last) PROVE Owned'
  BY <1>10 DEF Cleanup
<1>11. ASSUME NEW f \in {"on", "off"}, SetFlag(f) PROVE Owned'
  BY <1>11 DEF SetFlag
<1>12. CASE StartWorker
  BY <1>12 DEF StartWorker
<1>13. CASE StopWorker
  BY <1>13 DEF StopWorker
<1>14. CASE Crash
  BY <1>14 DEF Crash
<1>15. CASE UNCHANGED vars
  BY <1>15 DEF vars
<1> QED
  BY <1>1, <1>2, <1>3, <1>4, <1>5, <1>6, <1>7, <1>8, <1>9, <1>10, <1>11, <1>12, <1>13,
     <1>14, <1>15 DEF Next, Handle

(* Every step keeps the type invariant, whatever sendMessage does. *)
LEMMA NextType ==
  ASSUME TypeOK, [Next]_vars
  PROVE  TypeOK'
<1> USE OutboxAssumption
    DEF TypeOK, RowStatuses, Stages, controlVars, handlerVars, rowVars
<1>1. ASSUME NEW m \in Msgs, NEW ty \in Types, Enqueue(m, ty) PROVE TypeOK'
  BY <1>1 DEF Enqueue
<1>2. ASSUME NEW t \in Ticks, Tick(t) PROVE TypeOK'
  BY <1>2 DEF Tick
<1>3. CASE TickDisabled
  BY <1>3 DEF TickDisabled
<1>4. ASSUME NEW t \in Ticks, NEW m \in Msgs, MarkProcessing(t, m) PROVE TypeOK'
  BY <1>4 DEF MarkProcessing, GoTo, SetStatus, Exists
<1>5. ASSUME NEW t \in Ticks, NEW m \in Msgs, Send(t, m) PROVE TypeOK'
  <2>1. answered' \in [Msgs -> BOOLEAN]
    <3>1. PICK b \in BOOLEAN : answered' = [answered EXCEPT ![m] = b]
      BY <1>5, Zenon DEF Send
    <3> QED
      BY <3>1
  <2>2. stage' \in [Ticks -> [Msgs -> Stages]]
    BY <1>5 DEF Send, GoTo
  <2> QED
    BY <1>5, <2>1, <2>2 DEF Send
<1>6. ASSUME NEW t \in Ticks, NEW m \in Msgs, MarkSent(t, m) PROVE TypeOK'
  BY <1>6 DEF MarkSent, GoTo, SetStatus, Exists
<1>7. ASSUME NEW t \in Ticks, NEW m \in Msgs, FailRead(t, m) PROVE TypeOK'
  <2>1. stage' \in [Ticks -> [Msgs -> Stages]]
    <3>1. PICK x \in Stages : stage' = [stage EXCEPT ![t][m] = x]
      BY <1>7 DEF FailRead, GoTo
    <3> QED
      BY <3>1
  <2>2. failures' \in [Msgs -> Nat]
    BY <1>7 DEF FailRead
  <2>3. seen' \in [Ticks -> [Msgs -> Nat]]
    <3>1. PICK n \in Nat : seen' = [seen EXCEPT ![t][m] = n] \/ seen' = seen
      BY <1>7 DEF FailRead
    <3> QED
      BY <3>1
  <2> QED
    BY <1>7, <2>1, <2>2, <2>3 DEF FailRead
<1>8. ASSUME NEW t \in Ticks, NEW m \in Msgs, FailWrite(t, m) PROVE TypeOK'
  BY <1>8 DEF FailWrite, GoTo, Exists
<1>9. ASSUME NEW m \in Msgs, RetryDue(m) PROVE TypeOK'
  BY <1>9 DEF RetryDue
<1>10. ASSUME NEW last \in Msgs, Cleanup(last) PROVE TypeOK'
  BY <1>10 DEF Cleanup
<1>11. ASSUME NEW f \in {"on", "off"}, SetFlag(f) PROVE TypeOK'
  BY <1>11 DEF SetFlag
<1>12. CASE StartWorker
  BY <1>12 DEF StartWorker
<1>13. CASE StopWorker
  BY <1>13 DEF StopWorker
<1>14. CASE Crash
  <2>1. /\ stage' \in [Ticks -> [Msgs -> Stages]]
        /\ seen' \in [Ticks -> [Msgs -> Nat]]
    <3>1. \A t \in Ticks : [m \in Msgs |-> "idle"] \in [Msgs -> Stages]
      OBVIOUS
    <3> QED
      BY <1>14, <3>1, Zenon DEF Crash
  <2>2. crashes' \in 0..MaxCrashes
    BY <1>14 DEF Crash
  <2> QED
    BY <1>14, <2>1, <2>2 DEF Crash
<1>15. CASE UNCHANGED vars
  BY <1>15 DEF vars
<1> QED
  BY <1>1, <1>2, <1>3, <1>4, <1>5, <1>6, <1>7, <1>8, <1>9, <1>10, <1>11, <1>12, <1>13,
     <1>14, <1>15 DEF Next, Handle

(* The initial states of the outbox map to the initial state of the delivery. *)
LEMMA RefineInit == Init => Delivery!Init
  BY DEF Init, Delivery!Init, PhaseOf

(* Changing the status of one row changes its phase and no other. *)
LEMMA PhaseOfOne ==
  ASSUME NEW f, NEW g, NEW V, f \in [Msgs -> V], NEW m \in Msgs, NEW v, g = [f EXCEPT ![m] = v]
  PROVE  [k \in Msgs |-> PhaseOf[g[k]]] = [[k \in Msgs |-> PhaseOf[f[k]]] EXCEPT ![m] = PhaseOf[v]]
<1> QED
  BY Zenon

(* The phase of every status. *)
LEMMA Phases ==
  /\ PhaseOf["ABSENT"] = "none" /\ PhaseOf["PENDING"] = "queued" /\ PhaseOf["FAILED"] = "queued"
  /\ PhaseOf["PROCESSING"] = "attempting" /\ PhaseOf["SENT"] = "sent"
  /\ PhaseOf["CANCELLED"] = "cancelled" /\ PhaseOf["DELETED"] = "purged"
<1> QED
  BY DEF PhaseOf

(* Every step of the outbox is a step of the delivery or changes nothing of it. *)
LEMMA RefineNext ==
  ASSUME SerialTicks, "ackLost" \notin DbFaults, RInv, RInv', [Next]_vars
  PROVE  [Delivery!Next]_(Delivery!vars)
<1> USE OutboxAssumption, Phases DEF RInv, TypeOK, RowStatuses
<1>1. ASSUME NEW m \in Msgs, NEW ty \in Types, Enqueue(m, ty) PROVE Delivery!Submit(m)
  <2>1. /\ status[m] = "ABSENT"
        /\ status' = [status EXCEPT ![m] = "PENDING"]
        /\ retryCount' = retryCount
    BY <1>1 DEF Enqueue
  <2> QED
    BY <2>1, PhaseOfOne DEF Delivery!Submit
<1>3. ASSUME NEW t \in Ticks, NEW m \in Msgs, MarkProcessing(t, m)
      PROVE  Delivery!Attempt(m) \/ (status' = status /\ retryCount' = retryCount)
  <2>1. /\ status[m] \in {"PENDING", "FAILED"}
        /\ retryCount' = retryCount
        /\ status' = status \/ status' = [status EXCEPT ![m] = "PROCESSING"]
    BY <1>3 DEF MarkProcessing, SetStatus, Owned
  <2>2. CASE status' = [status EXCEPT ![m] = "PROCESSING"]
    <3>1. [k \in Msgs |-> PhaseOf[status'[k]]]
            = [[k \in Msgs |-> PhaseOf[status[k]]] EXCEPT ![m] = "attempting"]
      BY <2>2, PhaseOfOne
    <3> QED
      BY <2>1, <3>1 DEF Delivery!Attempt
  <2> QED
    BY <2>1, <2>2
<1>4. ASSUME NEW t \in Ticks, NEW m \in Msgs, MarkSent(t, m)
      PROVE  Delivery!Deliver(m) \/ (status' = status /\ retryCount' = retryCount)
  <2>1. /\ status[m] = "PROCESSING"
        /\ retryCount' = retryCount
        /\ status' = status \/ status' = [status EXCEPT ![m] = "SENT"]
    BY <1>4 DEF MarkSent, SetStatus, Owned
  <2>2. CASE status' = [status EXCEPT ![m] = "SENT"]
    <3>1. [k \in Msgs |-> PhaseOf[status'[k]]]
            = [[k \in Msgs |-> PhaseOf[status[k]]] EXCEPT ![m] = "sent"]
      BY <2>2, PhaseOfOne
    <3> QED
      BY <2>1, <3>1 DEF Delivery!Deliver
  <2> QED
    BY <2>1, <2>2
<1>5. ASSUME NEW t \in Ticks, NEW m \in Msgs, FailWrite(t, m)
      PROVE  Delivery!Fail(m) \/ (status' = status /\ retryCount' = retryCount)
  <2> DEFINE s == IF retryCount[m] + 1 > MaxRetry THEN "CANCELLED" ELSE "FAILED"
  <2>1. /\ status[m] \in {"PENDING", "FAILED", "PROCESSING"}
        /\ seen[t][m] = retryCount[m]
    BY <1>5 DEF FailWrite, Owned
  <2>2. \/ status' = status /\ retryCount' = retryCount
        \/ /\ status' = [status EXCEPT ![m] = s]
           /\ retryCount' = [retryCount EXCEPT ![m] = retryCount[m] + 1]
    BY <1>5, <2>1 DEF FailWrite
  <2>3. CASE /\ status' = [status EXCEPT ![m] = s]
             /\ retryCount' = [retryCount EXCEPT ![m] = retryCount[m] + 1]
    <3>1. [k \in Msgs |-> PhaseOf[status'[k]]]
            = [[k \in Msgs |-> PhaseOf[status[k]]] EXCEPT ![m] = PhaseOf[s]]
      BY <2>3, PhaseOfOne
    <3>2. PhaseOf[s] = IF retryCount'[m] > MaxRetry THEN "cancelled" ELSE "queued"
      BY <2>3
    <3> QED
      BY <2>1, <2>3, <3>1, <3>2 DEF Delivery!Fail
  <2> QED
    BY <2>2, <2>3
<1>6. ASSUME NEW last \in Msgs, Cleanup(last) PROVE \E S \in SUBSET Msgs : Delivery!Purge(S)
  <2> PICK S \in SUBSET Msgs : S = {m \in Msgs : m <= last /\ status[m] \in {"SENT", "CANCELLED"}}
    OBVIOUS
  <2>1. /\ status' = [m \in Msgs |-> IF m \in S THEN "DELETED" ELSE status[m]]
        /\ retryCount' = retryCount
    BY <1>6 DEF Cleanup
  <2>2. \A m \in S : PhaseOf[status[m]] \in {"sent", "cancelled"}
    OBVIOUS
  <2>3. [m \in Msgs |-> PhaseOf[status'[m]]]
          = [m \in Msgs |-> IF m \in S THEN "purged" ELSE PhaseOf[status[m]]]
    BY <2>1
  <2>4. Delivery!Purge(S)
    <3>1. \A m \in S : m \in Msgs
      OBVIOUS
    <3>2. \A m \in S : [k \in Msgs |-> PhaseOf[status[k]]][m] \in {"sent", "cancelled"}
      BY <2>2, <3>1
    <3>3. [m \in Msgs |-> PhaseOf[status'[m]]]
            = [m \in Msgs |-> IF m \in S THEN "purged" ELSE [k \in Msgs |-> PhaseOf[status[k]]][m]]
      BY <2>3
    <3> QED
      BY <2>1, <3>2, <3>3, Zenon DEF Delivery!Purge
  <2> QED
    BY <2>4
<1>7. \/ \E m \in Msgs : \E ty \in Types : Enqueue(m, ty)
      \/ \E t \in Ticks : \E m \in Msgs :
           MarkProcessing(t, m) \/ MarkSent(t, m) \/ FailWrite(t, m)
      \/ \E last \in Msgs : Cleanup(last)
      \/ status' = status /\ retryCount' = retryCount
  BY DEF Next, Handle, vars, rowVars, Tick, TickDisabled, Send, FailRead, RetryDue, SetFlag,
         StartWorker, StopWorker, Crash
<1>8. CASE status' = status /\ retryCount' = retryCount
  BY <1>8 DEF Delivery!vars
<1> QED
  BY <1>1, <1>3, <1>4, <1>5, <1>6, <1>7, <1>8, Zenon DEF Delivery!Next

(* When the ticks of the worker do not overlap and no acknowledgement of a *)
(* statement is lost, the outbox implements the abstract delivery: a       *)
(* verdict is final and every failure counts once, however many rows there *)
(* are, whatever statements are refused and however often the process      *)
(* restarts.                                                               *)
THEOREM OutboxImplementsDelivery ==
  ASSUME SerialTicks, "ackLost" \notin DbFaults
  PROVE  Spec => ImplementsDelivery
<1>1. RInv /\ [Next]_vars => RInv'
  BY NextType, NextOwned DEF RInv
<1>2. RInv /\ RInv' /\ [Next]_vars => [Delivery!Next]_(Delivery!vars)
  BY RefineNext
<1> QED
  BY InitRInv, RefineInit, <1>1, <1>2, PTL DEF Spec, ImplementsDelivery, Delivery!Spec
-----------------------------------------------------------------------------
(* The count that a handler is about to write is covered by the failures.  *)
CountInv ==
  /\ TypeOK
  /\ RetryNeverOvercounts
  /\ \A t \in Ticks : \A m \in Msgs : stage[t][m] = "failWrite" => seen[t][m] < failures[m]

(* Only markAsFailed touches the counts. *)
LEMMA NextCount ==
  ASSUME CountInv, TypeOK', [Next]_vars
  PROVE  CountInv'
<1> USE DEF CountInv, TypeOK, RetryNeverOvercounts, Stages, controlVars, handlerVars, rowVars
<1>1. ASSUME NEW t \in Ticks, NEW m \in Msgs, FailRead(t, m) PROVE CountInv'
  <2>1. CASE /\ seen' = [seen EXCEPT ![t][m] = retryCount[m]]
             /\ failures' = [failures EXCEPT ![m] = @ + 1]
             /\ stage' = [stage EXCEPT ![t][m] = "failWrite"]
             /\ retryCount' = retryCount
    BY <2>1, SMTT(30)
  <2>2. CASE /\ stage' = [stage EXCEPT ![t][m] = "idle"]
             /\ UNCHANGED <<seen, failures, retryCount>>
    BY <2>2
  <2> QED
    BY <1>1, <2>1, <2>2 DEF FailRead, GoTo
<1>2. ASSUME NEW t \in Ticks, NEW m \in Msgs, FailWrite(t, m) PROVE CountInv'
  BY <1>2 DEF FailWrite, GoTo, Exists
<1>3. CASE /\ UNCHANGED <<retryCount, failures>>
           /\ \A t \in Ticks : \A m \in Msgs :
                stage'[t][m] = "failWrite" => stage[t][m] = "failWrite" /\ seen'[t][m] = seen[t][m]
  BY <1>3
<1>4. CASE \E t \in Ticks : \E m \in Msgs : MarkProcessing(t, m) \/ Send(t, m) \/ MarkSent(t, m)
  <2>1. PICK t \in Ticks, m \in Msgs, s \in {"send", "markSent", "failRead", "idle"} :
          stage' = [stage EXCEPT ![t][m] = s] /\ UNCHANGED <<retryCount, failures, seen>>
    BY <1>4 DEF MarkProcessing, Send, MarkSent, GoTo
  <2> QED
    BY <1>3, <2>1
<1>5. ASSUME NEW t \in Ticks, Tick(t) PROVE CountInv'
  BY <1>5 DEF Tick
<1>7. CASE Crash
  BY <1>7 DEF Crash
<1>6. CASE UNCHANGED <<retryCount, failures, handlerVars>>
  BY <1>3, <1>6
<1> QED
  BY <1>1, <1>2, <1>4, <1>5, <1>6, <1>7
     DEF Next, Handle, Enqueue, TickDisabled, RetryDue, Cleanup, SetFlag, StartWorker,
         StopWorker, vars

(* Whatever overlaps, fails or restarts, and whatever sendMessage does:    *)
(* retry_count never exceeds the number of failed attempts.                *)
THEOREM NeverOvercounts == Spec => []RetryNeverOvercounts
<1>1. Init => CountInv
  <2>1. Init => TypeOK
    BY InitInv DEF IInv
  <2> QED
    BY <2>1 DEF Init, CountInv, RetryNeverOvercounts
<1>2. CountInv /\ [Next]_vars => CountInv'
  BY NextType, NextCount DEF CountInv
<1>3. CountInv => RetryNeverOvercounts
  BY DEF CountInv
<1> QED
  BY <1>1, <1>2, <1>3, PTL DEF Spec
-----------------------------------------------------------------------------
(***************************************************************************)
(* The worker with its timers implements Outbox, and only the race of      *)
(* start() and stop() leaves an interval behind.  TInv is inductive:       *)
(* polling follows the intervals (without it a stop could begin the        *)
(* polling of Outbox), and OneInterval relates the waiting start(),        *)
(* isRunning and intervalId (StoppedIsQuiet alone says nothing of the      *)
(* interval that is about to be armed).                                    *)
(***************************************************************************)
Shape ==
  /\ running \in BOOLEAN /\ polling \in BOOLEAN /\ held \in BOOLEAN /\ raced \in BOOLEAN
  /\ strays \in Nat /\ starting \in Nat
TInv == Shape /\ PollsWhenArmed /\ OneInterval

(* Steps of Outbox other than those of the timers leave polling alone.     *)
LEMMA ElsewhereKeeps ==
  ASSUME Elsewhere PROVE UNCHANGED <<polling, timerVars>> /\ Next
<1>1. CASE \E m \in Msgs, ty \in Types : Enqueue(m, ty)
  BY <1>1 DEF Elsewhere, Enqueue, Next, controlVars
<1>2. CASE \E t \in Ticks : Tick(t)
  BY <1>2 DEF Elsewhere, Tick, Next, controlVars
<1>3. CASE \E t \in Ticks : \E m \in Msgs : Handle(t, m)
  BY <1>3 DEF Elsewhere, Handle, MarkProcessing, Send, MarkSent, FailRead, FailWrite, Next,
              controlVars
<1>4. CASE \E m \in Msgs : RetryDue(m)
  BY <1>4 DEF Elsewhere, RetryDue, Next, controlVars
<1>5. CASE \E m \in Msgs : Cleanup(m)
  BY <1>5 DEF Elsewhere, Cleanup, Next, controlVars
<1>6. CASE \E f \in {"on", "off"} : SetFlag(f)
  BY <1>6 DEF Elsewhere, SetFlag, Next
<1> QED
  BY <1>1, <1>2, <1>3, <1>4, <1>5, <1>6 DEF Elsewhere

LEMMA TimersInductive ==
  ASSUME TInv, [TimersNext]_<<vars, timerVars>> PROVE TInv'
<1> USE DEF TInv, Shape, PollsWhenArmed, OneInterval
<1>0. 0 \in Nat /\ 0 # 1
  OBVIOUS
<1>1. CASE Begin
  BY <1>1 DEF Begin, vars, controlVars
<1>2. CASE Arm
  <2>1. strays' \in Nat /\ strays' >= strays /\ starting' \in Nat /\ starting # 0
    BY <1>2 DEF Arm
  <2>2. Shape'
    BY <1>2, <2>1 DEF Arm
  <2>3. PollsWhenArmed'
    BY <1>2 DEF Arm
  <2>4. ASSUME ~raced' PROVE OneInterval'
    <3>1. ~raced /\ starting = 1 /\ running /\ ~held
      BY <1>2, <2>1, <2>4 DEF Arm
    <3> QED
      BY <1>2, <3>1 DEF Arm
  <2> QED
    BY <2>2, <2>3, <2>4
<1>3. CASE Halt
  <2>1. running' = FALSE /\ held' = FALSE /\ strays' = strays /\ starting' = starting
        /\ raced' \in BOOLEAN /\ (starting # 0 => raced') /\ (raced => raced')
    BY <1>3 DEF Halt
  <2>2. polling' \in BOOLEAN /\ (polling' <=> strays # 0)
    BY <1>3 DEF Halt
  <2>3. Shape' /\ PollsWhenArmed'
    BY <2>1, <2>2
  <2>4. OneInterval'
    BY <2>1
  <2> QED
    BY <2>3, <2>4
<1>4. CASE Restart
  <2>1. running' = FALSE /\ held' = FALSE /\ strays' = 0 /\ starting' = 0 /\ raced' = raced
        /\ polling' = FALSE
    BY <1>4 DEF Restart, Crash
  <2>2. Shape' /\ PollsWhenArmed'
    BY <1>0, <2>1
  <2>3. OneInterval'
    BY <1>0, <2>1
  <2> QED
    BY <2>2, <2>3
<1>5. CASE Elsewhere
  BY <1>5, ElsewhereKeeps DEF timerVars
<1>6. CASE UNCHANGED <<vars, timerVars>>
  BY <1>6 DEF vars, controlVars, timerVars
<1> QED
  BY <1>1, <1>2, <1>3, <1>4, <1>5, <1>6 DEF TimersNext

LEMMA TimersStep ==
  ASSUME TInv, [TimersNext]_<<vars, timerVars>> PROVE [Next]_vars
<1>1. CASE Begin
  BY <1>1 DEF Begin
<1>2. CASE Arm
  <2>1. CASE polling
    BY <1>2, <2>1 DEF Arm, outboxRest, vars, controlVars
  <2>2. CASE ~polling
    BY <1>2, <2>2 DEF Arm, outboxRest, StartWorker, Next
  <2> QED
    BY <2>1, <2>2
<1>3. CASE Halt
  <2>1. CASE polling' = polling
    BY <1>3, <2>1 DEF Halt, outboxRest, vars, controlVars
  <2>2. CASE polling' # polling
    <3>1. polling' \in BOOLEAN /\ (polling' <=> strays # 0)
      BY <1>3 DEF Halt
    <3>2. polling /\ polling' = FALSE
      BY <2>2, <3>1 DEF TInv, Shape, PollsWhenArmed
    <3> QED
      BY <1>3, <3>2 DEF Halt, outboxRest, StopWorker, Next
  <2> QED
    BY <2>1, <2>2
<1>4. CASE Restart
  BY <1>4 DEF Restart, Next
<1>5. CASE Elsewhere
  BY <1>5, ElsewhereKeeps
<1>6. CASE UNCHANGED <<vars, timerVars>>
  BY <1>6
<1> QED
  BY <1>1, <1>2, <1>3, <1>4, <1>5, <1>6 DEF TimersNext

LEMMA TimersStart == TimersInit => TInv /\ Init
<1> SUFFICES ASSUME TimersInit PROVE TInv /\ Init
  OBVIOUS
<1>0. 0 \in Nat
  OBVIOUS
<1>1. Init /\ polling = FALSE
  BY DEF TimersInit, Init
<1>2. Shape /\ PollsWhenArmed
  BY <1>0, <1>1 DEF TimersInit, Shape, PollsWhenArmed
<1>3. OneInterval
  BY <1>0 DEF TimersInit, OneInterval
<1> QED
  BY <1>1, <1>2, <1>3 DEF TInv

(* A stopped worker polls no more and a running one has at most one        *)
(* interval, unless a stop() met a waiting start().                        *)
THEOREM TimersQuiet == TimersSpec => []StoppedIsQuiet
<1>1. TimersInit => TInv
  BY TimersStart
<1>2. TInv /\ [TimersNext]_<<vars, timerVars>> => TInv'
  BY TimersInductive
<1>3. TInv => StoppedIsQuiet
  BY DEF TInv, Shape, PollsWhenArmed, OneInterval, StoppedIsQuiet
<1> QED
  BY <1>1, <1>2, <1>3, PTL DEF TimersSpec

(* The worker with its timers implements Outbox.                           *)
THEOREM TimersImplementOutbox == TimersSpec => ImplementsOutbox
<1>1. TimersInit => TInv /\ Init
  BY TimersStart
<1>2. TInv /\ [TimersNext]_<<vars, timerVars>> => TInv' /\ [Next]_vars
  BY TimersInductive, TimersStep
<1> QED
  BY <1>1, <1>2, PTL DEF TimersSpec, ImplementsOutbox, Spec

(* So the table is as safe under the worker with its timers: whatever it   *)
(* is started, stopped and restarted, and whatever its transport does, a   *)
(* message is given up, or removed without sendMessage having resolved,    *)
(* only after more than MaxRetry failures.                                 *)
THEOREM TimersSafety == TimersSpec => [](SentOnlyAfterSend /\ GivenUpOnlyWhenExhausted)
<1>1. Spec => [](TypeOK /\ SentOnlyAfterSend /\ GivenUpOnlyWhenExhausted /\ RetryNeverOvercounts)
  BY OutboxSafety
<1> QED
  BY <1>1, TimersImplementOutbox, PTL DEF ImplementsOutbox

=============================================================================
