---------------------------- MODULE UploadProofs ----------------------------
(***************************************************************************)
(* What holds of the pool of parsers and of the upload for any number of   *)
(* files, workers, cancellations and workers that cannot be loaded.        *)
(***************************************************************************)
EXTENDS UploadFlow, SequenceTheorems, FiniteSetTheorems, NaturalsInduction, WellFoundedInduction, TLAPS

Statuses == Ended \cup {"none", "pending", "processing"}

(* Every non-empty set of naturals has a least element. *)
LEMMA Least ==
  ASSUME NEW T \in SUBSET Nat, T # {}
  PROVE  Min(T) \in T /\ \A m \in T : Min(T) <= m
<1>1. PICK n \in T : \A m \in T : <<m, n>> \notin OpToRel(<, Nat)
  BY NatLessThanWellFounded, WFMin
<1>2. \A m \in T : ~(m < n)
  BY <1>1, Zenon DEF OpToRel
<1>3. \A m \in T : n <= m
  BY <1>2
<1>4. QED
  BY <1>3, Zenon DEF Min

(* Where a task is while a worker has it: the request to parse it, the     *)
(* parse, or a verdict on it that the page has not read.                   *)
AsksFor(to, w, t, i) == i \in DOMAIN to[w] /\ to[w][i] = <<"parse", t>>
TellsOf(from, w, t, i) == i \in DOMAIN from[w] /\ from[w][i][2] = t
At(to, from, pars, w, t) ==
  (\E i \in Nat : AsksFor(to, w, t, i)) \/ t \in pars[w] \/ (\E i \in Nat : TellsOf(from, w, t, i))

MessagesTyped(st, to, from, pars) ==
  /\ st \in [Tasks -> Statuses]
  /\ to \in [Workers -> Seq(Messages({"parse", "cancel"}))]
  /\ from \in [Workers -> Seq(Messages(Ended))]
  /\ pars \in [Workers -> SUBSET Tasks]

(* One worker has a task, and none has a task that waits or is completed;  *)
(* it is asked for it once, before it parses it, and the verdict on the    *)
(* parse is the last that is heard of it.                                  *)
Places(st, to, from, pars) ==
  /\ \A t \in Tasks, v, w \in Workers :
       At(to, from, pars, v, t) /\ At(to, from, pars, w, t) => v = w
  /\ \A t \in Tasks, w \in Workers :
       st[t] \in {"none", "pending", "completed"} => ~At(to, from, pars, w, t)
  /\ \A t \in Tasks, w \in Workers, i \in Nat : AsksFor(to, w, t, i) =>
       /\ \A j \in Nat : AsksFor(to, w, t, j) => j = i
       /\ t \notin pars[w] /\ \A j \in Nat : ~TellsOf(from, w, t, j)
  /\ \A t \in Tasks, w \in Workers, i \in Nat :
       TellsOf(from, w, t, i) /\ from[w][i][1] # "cancelled" =>
         t \notin pars[w] /\ \A j \in Nat : TellsOf(from, w, t, j) => j <= i

(* A pending task is sent to a worker. *)
LEMMA SendKeeps ==
  ASSUME NEW st, NEW to, NEW from, NEW pars, MessagesTyped(st, to, from, pars),
         Places(st, to, from, pars), NEW t \in Tasks, st[t] = "pending", NEW w \in Workers
  PROVE  LET nst == [st EXCEPT ![t] = "processing"]
             nto == [to EXCEPT ![w] = Append(@, <<"parse", t>>)]
         IN  MessagesTyped(nst, nto, from, pars) /\ Places(nst, nto, from, pars)
<1> DEFINE nst == [st EXCEPT ![t] = "processing"]
           nto == [to EXCEPT ![w] = Append(@, <<"parse", t>>)]
<1>1. MessagesTyped(nst, nto, from, pars)
  <2>1. <<"parse", t>> \in Messages({"parse", "cancel"})
    BY DEF Messages
  <2>2. to[w] \in Seq(Messages({"parse", "cancel"}))
    BY DEF MessagesTyped
  <2>3. Append(to[w], <<"parse", t>>) \in Seq(Messages({"parse", "cancel"}))
    BY <2>1, <2>2, AppendProperties
  <2>4. QED
    BY <2>3 DEF MessagesTyped, Statuses
<1>2. ASSUME NEW v \in Workers, NEW u \in Tasks, NEW i \in Nat
      PROVE  AsksFor(nto, v, u, i)
               <=> AsksFor(to, v, u, i) \/ (v = w /\ u = t /\ i = Len(to[w]) + 1)
  <2>1. to \in [Workers -> Seq(Messages({"parse", "cancel"}))]
    BY DEF MessagesTyped
  <2>2. CASE v # w
    BY <2>1, <2>2 DEF AsksFor
  <2>3. CASE v = w
    <3>1. nto[v] = Append(to[w], <<"parse", t>>) /\ to[w] \in Seq(Messages({"parse", "cancel"}))
      BY <2>1, <2>3
    <3>2. Len(to[w]) \in Nat /\ DOMAIN to[w] = 1..Len(to[w]) /\ DOMAIN nto[v] = 1..Len(to[w]) + 1
      BY <3>1
    <3>3. \A j \in 1..Len(to[w]) : nto[v][j] = to[w][j]
      BY <3>1
    <3>4. nto[v][Len(to[w]) + 1] = <<"parse", t>>
      BY <3>1
    <3>5. <<"parse", t>> = <<"parse", u>> <=> u = t
      OBVIOUS
    <3> HIDE DEF nto
    <3>6. CASE i \in 1..Len(to[w])
      BY <2>3, <3>2, <3>3, <3>6 DEF AsksFor
    <3>7. CASE i = Len(to[w]) + 1
      BY <2>3, <3>2, <3>4, <3>5, <3>7 DEF AsksFor
    <3>8. CASE i \notin 1..Len(to[w]) + 1
      BY <2>3, <3>2, <3>8 DEF AsksFor
    <3>9. QED
      BY <3>2, <3>6, <3>7, <3>8
  <2>4. QED
    BY <2>2, <2>3
<1>3. \A v \in Workers : ~At(to, from, pars, v, t)
  BY DEF Places
<1>4. Len(to[w]) + 1 \in Nat
  BY LenProperties DEF MessagesTyped
<1>5. nst[t] = "processing" /\ \A u \in Tasks : u # t => nst[u] = st[u]
  BY DEF MessagesTyped
<1> HIDE DEF nst, nto
<1>6. ASSUME NEW v \in Workers, NEW u \in Tasks
      PROVE  At(nto, from, pars, v, u) <=> At(to, from, pars, v, u) \/ (v = w /\ u = t)
  BY <1>2, <1>4 DEF At
<1>7. \A u \in Tasks, v, x \in Workers : At(nto, from, pars, v, u) /\ At(nto, from, pars, x, u) => v = x
  BY <1>3, <1>6 DEF Places
<1>8. \A u \in Tasks, v \in Workers :
        nst[u] \in {"none", "pending", "completed"} => ~At(nto, from, pars, v, u)
  BY <1>5, <1>6 DEF Places
<1>9. ASSUME NEW u \in Tasks, NEW v \in Workers, NEW i \in Nat, AsksFor(nto, v, u, i)
      PROVE  /\ \A j \in Nat : AsksFor(nto, v, u, j) => j = i
             /\ u \notin pars[v] /\ \A j \in Nat : ~TellsOf(from, v, u, j)
  <2>1. CASE AsksFor(to, v, u, i)
    <3>1. At(to, from, pars, v, u)
      BY <2>1 DEF At
    <3>2. u # t
      BY <1>3, <3>1
    <3>3. QED
      BY <1>2, <2>1, <3>2 DEF Places
  <2>2. CASE v = w /\ u = t /\ i = Len(to[w]) + 1
    <3>1. u \notin pars[v] /\ \A j \in Nat : ~TellsOf(from, v, u, j) /\ ~AsksFor(to, v, u, j)
      BY <1>3, <2>2 DEF At
    <3>2. QED
      BY <1>2, <2>2, <3>1
  <2>3. QED
    BY <1>2, <1>9, <2>1, <2>2
<1>10. \A u \in Tasks, v \in Workers, i \in Nat :
         TellsOf(from, v, u, i) /\ from[v][i][1] # "cancelled" =>
           u \notin pars[v] /\ \A j \in Nat : TellsOf(from, v, u, j) => j <= i
  BY DEF Places
<1>11. Places(nst, nto, from, pars)
  BY <1>7, <1>8, <1>9, <1>10 DEF Places
<1>12. QED
  BY <1>1, <1>11 DEF nst, nto

(* A worker's next request is what it receives: the others move up. *)
LEMMA TailMoves ==
  ASSUME NEW K, NEW from \in [Workers -> Seq(Messages(K))], NEW w \in Workers, from[w] # <<>>
  PROVE  LET nfrom == [from EXCEPT ![w] = Tail(@)]
         IN  /\ nfrom \in [Workers -> Seq(Messages(K))]
             /\ Head(from[w])[1] \in K /\ Head(from[w])[2] \in Tasks
             /\ Head(from[w]) = from[w][1] /\ 1 \in DOMAIN from[w]
             /\ Head(from[w]) = <<Head(from[w])[1], Head(from[w])[2]>>
             /\ \A v \in Workers : v # w => nfrom[v] = from[v]
             /\ \A i \in Nat : i \in DOMAIN nfrom[w] <=> i # 0 /\ i + 1 \in DOMAIN from[w]
             /\ \A i \in DOMAIN nfrom[w] : i \in Nat /\ nfrom[w][i] = from[w][i + 1]
             /\ \A i \in DOMAIN from[w] : i \in Nat \ {0}
<1> DEFINE nfrom == [from EXCEPT ![w] = Tail(@)]
<1>1. from[w] \in Seq(Messages(K)) /\ nfrom[w] = Tail(from[w])
  OBVIOUS
<1>2. /\ Tail(from[w]) \in Seq(Messages(K)) /\ Head(from[w]) \in Messages(K)
      /\ Head(from[w]) = from[w][1] /\ Len(Tail(from[w])) = Len(from[w]) - 1
      /\ Len(from[w]) \in Nat \ {0}
      /\ \A i \in 1..Len(Tail(from[w])) : Tail(from[w])[i] = from[w][i + 1]
  BY <1>1, HeadTailProperties, EmptySeq, LenProperties
<1>3. DOMAIN from[w] = 1..Len(from[w]) /\ DOMAIN nfrom[w] = 1..Len(from[w]) - 1
  BY <1>1, <1>2, LenProperties
<1>4. /\ Head(from[w])[1] \in K /\ Head(from[w])[2] \in Tasks
      /\ Head(from[w]) = <<Head(from[w])[1], Head(from[w])[2]>>
  BY <1>2 DEF Messages
<1>5. nfrom \in [Workers -> Seq(Messages(K))] /\ \A v \in Workers : v # w => nfrom[v] = from[v]
  BY <1>2
<1> HIDE DEF nfrom
<1>6. QED
  BY <1>1, <1>2, <1>3, <1>4, <1>5 DEF nfrom

LEMMA AppendMoves ==
  ASSUME NEW K, NEW from \in [Workers -> Seq(Messages(K))], NEW w \in Workers,
         NEW kind \in K, NEW t \in Tasks
  PROVE  LET nfrom == [from EXCEPT ![w] = Append(@, <<kind, t>>)]
         IN  /\ nfrom \in [Workers -> Seq(Messages(K))]
             /\ \A v \in Workers : v # w => nfrom[v] = from[v]
             /\ \A i \in DOMAIN nfrom[w] : i \in Nat /\ i <= Len(from[w]) + 1
             /\ \A i \in Nat :
                  i \in DOMAIN nfrom[w] <=> i \in DOMAIN from[w] \/ i = Len(from[w]) + 1
             /\ \A i \in DOMAIN from[w] : nfrom[w][i] = from[w][i] /\ i \in Nat /\ i <= Len(from[w])
             /\ nfrom[w][Len(from[w]) + 1] = <<kind, t>> /\ Len(from[w]) \in Nat
<1> DEFINE nfrom == [from EXCEPT ![w] = Append(@, <<kind, t>>)]
<1>1. from[w] \in Seq(Messages(K)) /\ nfrom[w] = Append(from[w], <<kind, t>>)
  OBVIOUS
<1>2. <<kind, t>> \in Messages(K)
  BY DEF Messages
<1>3. /\ Append(from[w], <<kind, t>>) \in Seq(Messages(K))
      /\ Len(Append(from[w], <<kind, t>>)) = Len(from[w]) + 1 /\ Len(from[w]) \in Nat
      /\ \A i \in 1..Len(from[w]) : Append(from[w], <<kind, t>>)[i] = from[w][i]
      /\ Append(from[w], <<kind, t>>)[Len(from[w]) + 1] = <<kind, t>>
  BY <1>1, <1>2, AppendProperties, LenProperties
<1>4. DOMAIN from[w] = 1..Len(from[w]) /\ DOMAIN nfrom[w] = 1..Len(from[w]) + 1
  BY <1>1, <1>3, LenProperties
<1>5. nfrom \in [Workers -> Seq(Messages(K))] /\ \A v \in Workers : v # w => nfrom[v] = from[v]
  BY <1>3
<1> HIDE DEF nfrom
<1>6. QED
  BY <1>1, <1>3, <1>4, <1>5 DEF nfrom

(* The page reads a verdict. *)
LEMMA VerdictKeeps ==
  ASSUME NEW st, NEW to, NEW from, NEW pars, MessagesTyped(st, to, from, pars),
         Places(st, to, from, pars), NEW w \in Workers, from[w] # <<>>,
         NEW nfrom, nfrom = [from EXCEPT ![w] = Tail(@)],
         NEW nst, \/ nst = [st EXCEPT ![Head(from[w])[2]] = Head(from[w])[1]]
                  \/ nst = st /\ st[Head(from[w])[2]] \in Ended
  PROVE  MessagesTyped(nst, to, nfrom, pars) /\ Places(nst, to, nfrom, pars)
<1> DEFINE t == Head(from[w])[2]
           kind == Head(from[w])[1]
<1>1. from \in [Workers -> Seq(Messages(Ended))] /\ st \in [Tasks -> Statuses]
  BY DEF MessagesTyped
<1>2. /\ nfrom \in [Workers -> Seq(Messages(Ended))]
      /\ kind \in Ended /\ t \in Tasks /\ kind = from[w][1][1] /\ t = from[w][1][2]
      /\ 1 \in DOMAIN from[w]
      /\ \A v \in Workers : v # w => nfrom[v] = from[v]
      /\ \A i \in Nat : i \in DOMAIN nfrom[w] <=> i # 0 /\ i + 1 \in DOMAIN from[w]
      /\ \A i \in DOMAIN nfrom[w] : i \in Nat /\ nfrom[w][i] = from[w][i + 1]
      /\ \A i \in DOMAIN from[w] : i \in Nat \ {0}
  BY <1>1, TailMoves
<1> HIDE DEF t, kind
<1>3. ASSUME NEW v \in Workers, NEW u \in Tasks, NEW i \in Nat
      PROVE  /\ v # w => (TellsOf(nfrom, v, u, i) <=> TellsOf(from, v, u, i))
             /\ TellsOf(nfrom, w, u, i) <=> i # 0 /\ TellsOf(from, w, u, i + 1)
  BY <1>2 DEF TellsOf
<1>4. ASSUME NEW v \in Workers, NEW u \in Tasks, At(to, nfrom, pars, v, u)
      PROVE  At(to, from, pars, v, u)
  <2>1. \A i \in Nat : i + 1 \in Nat
    OBVIOUS
  <2>2. QED
    BY <1>3, <1>4, <2>1 DEF At
<1>5. TellsOf(from, w, t, 1) /\ At(to, from, pars, w, t)
  BY <1>2 DEF TellsOf, At
<1>6. MessagesTyped(nst, to, nfrom, pars)
  BY <1>2 DEF MessagesTyped, Statuses, t, kind
<1>7. ASSUME nst[t] = "completed", NEW v \in Workers PROVE ~At(to, nfrom, pars, v, t)
  <2>1. v # w => ~At(to, nfrom, pars, v, t)
    <3>1. \A x, y \in Workers : At(to, from, pars, x, t) /\ At(to, from, pars, y, t) => x = y
      BY <1>2, Zenon DEF Places
    <3>2. t \in Tasks
      BY <1>2
    <3>3. QED
      BY <1>4, <1>5, <3>1, <3>2
  <2>2. st[t] # "completed"
    BY <1>2, <1>5 DEF Places
  <2>3. kind = "completed"
    BY <1>1, <1>2, <1>7, <2>2 DEF t, kind
  <2>4. t \notin pars[w] /\ \A j \in Nat : TellsOf(from, w, t, j) => j <= 1
    BY <1>2, <1>5, <2>3 DEF Places
  <2>5. \A j \in Nat : ~TellsOf(nfrom, w, t, j)
    <3>1. \A j \in Nat : j # 0 => j + 1 \in Nat /\ ~(j + 1 <= 1)
      OBVIOUS
    <3>2. QED
      BY <1>2, <1>3, <2>4, <3>1
  <2>6. \A j \in Nat : ~AsksFor(to, w, t, j)
    BY <1>2, <1>5 DEF Places
  <2>7. ~At(to, nfrom, pars, w, t)
    BY <2>4, <2>5, <2>6 DEF At
  <2>8. QED
    BY <2>1, <2>7
<1>8. ASSUME NEW u \in Tasks, NEW v \in Workers, nst[u] \in {"none", "pending", "completed"}
      PROVE  ~At(to, nfrom, pars, v, u)
  <2>1. CASE u = t
    <3>1. nst[t] \notin {"none", "pending"}
      <4>1. st[t] \notin {"none", "pending"}
        BY <1>2, <1>5 DEF Places
      <4>2. nst = st \/ nst[t] = kind
        BY <1>1, <1>2 DEF t, kind
      <4>3. kind \notin {"none", "pending"}
        BY <1>2 DEF Ended
      <4>4. QED
        BY <4>1, <4>2, <4>3
    <3>2. QED
      BY <1>7, <1>8, <2>1, <3>1
  <2>2. CASE u # t
    <3>1. nst[u] = st[u]
      BY <1>1, <2>2 DEF t
    <3>2. QED
      BY <1>4, <1>8, <3>1 DEF Places
  <2>3. QED
    BY <2>1, <2>2
<1>9. \A u \in Tasks, v, x \in Workers : At(to, nfrom, pars, v, u) /\ At(to, nfrom, pars, x, u) => v = x
  BY <1>4 DEF Places
<1>10. ASSUME NEW u \in Tasks, NEW v \in Workers, NEW i \in Nat, AsksFor(to, v, u, i)
       PROVE  /\ \A j \in Nat : AsksFor(to, v, u, j) => j = i
              /\ u \notin pars[v] /\ \A j \in Nat : ~TellsOf(nfrom, v, u, j)
  <2>1. \A j \in Nat : j + 1 \in Nat
    OBVIOUS
  <2>2. /\ \A j \in Nat : AsksFor(to, v, u, j) => j = i
        /\ u \notin pars[v] /\ \A j \in Nat : ~TellsOf(from, v, u, j)
    BY <1>10, Zenon DEF Places
  <2>3. \A j \in Nat : ~TellsOf(nfrom, v, u, j)
    BY <1>3, <2>1, <2>2, Zenon
  <2>4. QED
    BY <2>2, <2>3
<1>11. ASSUME NEW u \in Tasks, NEW v \in Workers, NEW i \in Nat, TellsOf(nfrom, v, u, i),
              nfrom[v][i][1] # "cancelled"
       PROVE  u \notin pars[v] /\ \A j \in Nat : TellsOf(nfrom, v, u, j) => j <= i
  <2>1. CASE v # w
    BY <1>2, <1>3, <1>11, <2>1 DEF Places
  <2>2. CASE v = w
    <3>1. TellsOf(from, w, u, i + 1) /\ from[w][i + 1][1] # "cancelled" /\ i + 1 \in Nat
      BY <1>2, <1>3, <1>11, <2>2 DEF TellsOf
    <3>2. u \notin pars[w] /\ \A j \in Nat : TellsOf(from, w, u, j) => j <= i + 1
      BY <3>1 DEF Places
    <3>3. \A j \in Nat : j + 1 \in Nat /\ (j + 1 <= i + 1 => j <= i)
      OBVIOUS
    <3>4. QED
      BY <1>3, <2>2, <3>2, <3>3
  <2>3. QED
    BY <2>1, <2>2
<1>12. Places(nst, to, nfrom, pars)
  BY <1>8, <1>9, <1>10, <1>11 DEF Places
<1>13. QED
  BY <1>6, <1>12

(* A worker starts the parse that it is asked for. *)
LEMMA StartKeeps ==
  ASSUME NEW st, NEW to, NEW from, NEW pars, MessagesTyped(st, to, from, pars),
         Places(st, to, from, pars), NEW w \in Workers, to[w] # <<>>, Head(to[w])[1] = "parse"
  PROVE  LET nto == [to EXCEPT ![w] = Tail(@)]
             npars == [pars EXCEPT ![w] = @ \cup {Head(to[w])[2]}]
         IN  MessagesTyped(st, nto, from, npars) /\ Places(st, nto, from, npars)
<1> DEFINE nto == [to EXCEPT ![w] = Tail(@)]
           npars == [pars EXCEPT ![w] = @ \cup {Head(to[w])[2]}]
           t == Head(to[w])[2]
<1>1. to \in [Workers -> Seq(Messages({"parse", "cancel"}))] /\ pars \in [Workers -> SUBSET Tasks]
  BY DEF MessagesTyped
<1>2. /\ nto \in [Workers -> Seq(Messages({"parse", "cancel"}))]
      /\ to[w][1] = <<"parse", t>> /\ t \in Tasks
      /\ 1 \in DOMAIN to[w]
      /\ \A v \in Workers : v # w => nto[v] = to[v]
      /\ \A i \in Nat : i \in DOMAIN nto[w] <=> i # 0 /\ i + 1 \in DOMAIN to[w]
      /\ \A i \in DOMAIN nto[w] : i \in Nat /\ nto[w][i] = to[w][i + 1]
      /\ \A i \in DOMAIN to[w] : i \in Nat \ {0}
  BY <1>1, TailMoves
<1>3. \A v \in Workers, u \in Tasks : u \in npars[v] <=> u \in pars[v] \/ (v = w /\ u = t)
  BY <1>1
<1>4. MessagesTyped(st, nto, from, npars)
  BY <1>1, <1>2 DEF MessagesTyped
<1> HIDE DEF nto, npars, t
<1>5. ASSUME NEW v \in Workers, NEW u \in Tasks, NEW i \in Nat
      PROVE  /\ v # w => (AsksFor(nto, v, u, i) <=> AsksFor(to, v, u, i))
             /\ AsksFor(nto, w, u, i) <=> i # 0 /\ AsksFor(to, w, u, i + 1)
  BY <1>2 DEF AsksFor
<1>6. AsksFor(to, w, t, 1) /\ At(to, from, pars, w, t)
  BY <1>2 DEF AsksFor, At
<1>7. \A i \in Nat : i + 1 \in Nat /\ (i # 0 => i + 1 # 1)
  OBVIOUS
<1>8. ASSUME NEW v \in Workers, NEW u \in Tasks, At(nto, from, npars, v, u)
      PROVE  At(to, from, pars, v, u)
  BY <1>3, <1>5, <1>6, <1>7, <1>8 DEF At
<1>9. \A i \in Nat : ~AsksFor(nto, w, t, i) /\ ~TellsOf(from, w, t, i)
  BY <1>2, <1>5, <1>6, <1>7 DEF Places
<1>10. \A u \in Tasks, v, x \in Workers : At(nto, from, npars, v, u) /\ At(nto, from, npars, x, u) => v = x
  BY <1>8 DEF Places
<1>11. \A u \in Tasks, v \in Workers :
         st[u] \in {"none", "pending", "completed"} => ~At(nto, from, npars, v, u)
  BY <1>8 DEF Places
<1>12. ASSUME NEW u \in Tasks, NEW v \in Workers, NEW i \in Nat, AsksFor(nto, v, u, i)
       PROVE  /\ \A j \in Nat : AsksFor(nto, v, u, j) => j = i
              /\ u \notin npars[v] /\ \A j \in Nat : ~TellsOf(from, v, u, j)
  <2>1. CASE v # w
    BY <1>3, <1>5, <1>12, <2>1 DEF Places
  <2>2. CASE v = w
    <3>1. u # t
      BY <1>9, <1>12, <2>2
    <3>2. AsksFor(to, w, u, i + 1) /\ i + 1 \in Nat
      BY <1>5, <1>7, <1>12, <2>2
    <3>3. /\ \A j \in Nat : AsksFor(to, w, u, j) => j = i + 1
          /\ u \notin pars[w] /\ \A j \in Nat : ~TellsOf(from, w, u, j)
      BY <3>2 DEF Places
    <3>4. \A j \in Nat : j + 1 \in Nat /\ (j + 1 = i + 1 => j = i)
      OBVIOUS
    <3>5. QED
      BY <1>3, <1>5, <2>2, <3>1, <3>3, <3>4
  <2>3. QED
    BY <2>1, <2>2
<1>13. ASSUME NEW u \in Tasks, NEW v \in Workers, NEW i \in Nat, TellsOf(from, v, u, i),
              from[v][i][1] # "cancelled"
       PROVE  u \notin npars[v] /\ \A j \in Nat : TellsOf(from, v, u, j) => j <= i
  BY <1>3, <1>9, <1>13 DEF Places
<1>14. Places(st, nto, from, npars)
  BY <1>10, <1>11, <1>12, <1>13 DEF Places
<1>15. QED
  BY <1>4, <1>14 DEF nto, npars

(* A worker tells of a task it is parsing: that it is cancelled, or, for   *)
(* good, how the parse ended.                                              *)
LEMMA PostKeeps ==
  ASSUME NEW st, NEW to, NEW from, NEW pars, MessagesTyped(st, to, from, pars),
         Places(st, to, from, pars), NEW w \in Workers, NEW t \in pars[w], NEW kind \in Ended,
         NEW npars \in {pars, [pars EXCEPT ![w] = @ \ {t}]},
         kind # "cancelled" => npars # pars
  PROVE  LET nfrom == [from EXCEPT ![w] = Append(@, <<kind, t>>)]
         IN  MessagesTyped(st, to, nfrom, npars) /\ Places(st, to, nfrom, npars)
<1> DEFINE nfrom == [from EXCEPT ![w] = Append(@, <<kind, t>>)]
           last == Len(from[w]) + 1
<1>1. /\ from \in [Workers -> Seq(Messages(Ended))] /\ pars \in [Workers -> SUBSET Tasks]
      /\ t \in Tasks
  BY DEF MessagesTyped
<1>2. /\ nfrom \in [Workers -> Seq(Messages(Ended))]
      /\ \A v \in Workers : v # w => nfrom[v] = from[v]
      /\ \A i \in DOMAIN nfrom[w] : i \in Nat /\ i <= last
      /\ \A i \in Nat : i \in DOMAIN nfrom[w] <=> i \in DOMAIN from[w] \/ i = last
      /\ \A i \in DOMAIN from[w] : nfrom[w][i] = from[w][i] /\ i \in Nat /\ i <= Len(from[w])
      /\ nfrom[w][last] = <<kind, t>> /\ Len(from[w]) \in Nat
  BY <1>1, AppendMoves
<1>3. /\ \A v \in Workers, u \in Tasks : u \in npars[v] => u \in pars[v]
      /\ kind # "cancelled" => t \notin npars[w]
  BY <1>1
<1>4. MessagesTyped(st, to, nfrom, npars)
  BY <1>1, <1>2 DEF MessagesTyped
<1>5. last \in Nat /\ last \notin DOMAIN from[w]
  BY <1>2
<1> HIDE DEF nfrom, last
<1>6. ASSUME NEW v \in Workers, NEW u \in Tasks, NEW i \in Nat
      PROVE  TellsOf(nfrom, v, u, i) <=> TellsOf(from, v, u, i) \/ (v = w /\ u = t /\ i = last)
  BY <1>2, <1>5 DEF TellsOf
<1>7. At(to, from, pars, w, t)
  BY <1>1 DEF At
<1>8. ASSUME NEW v \in Workers, NEW u \in Tasks, At(to, nfrom, npars, v, u)
      PROVE  At(to, from, pars, v, u)
  BY <1>3, <1>6, <1>7, <1>8 DEF At
<1>9. \A i \in Nat : ~AsksFor(to, w, t, i) /\ (TellsOf(from, w, t, i) => from[w][i][1] = "cancelled")
  BY <1>1 DEF Places
<1>10. \A u \in Tasks, v, x \in Workers : At(to, nfrom, npars, v, u) /\ At(to, nfrom, npars, x, u) => v = x
  BY <1>8 DEF Places
<1>11. \A u \in Tasks, v \in Workers :
         st[u] \in {"none", "pending", "completed"} => ~At(to, nfrom, npars, v, u)
  BY <1>8 DEF Places
<1>12. ASSUME NEW u \in Tasks, NEW v \in Workers, NEW i \in Nat, AsksFor(to, v, u, i)
       PROVE  /\ \A j \in Nat : AsksFor(to, v, u, j) => j = i
              /\ u \notin npars[v] /\ \A j \in Nat : ~TellsOf(nfrom, v, u, j)
  BY <1>3, <1>6, <1>9, <1>12 DEF Places
<1>13. ASSUME NEW u \in Tasks, NEW v \in Workers, NEW i \in Nat, TellsOf(nfrom, v, u, i),
              nfrom[v][i][1] # "cancelled"
       PROVE  u \notin npars[v] /\ \A j \in Nat : TellsOf(nfrom, v, u, j) => j <= i
  <2>1. CASE v = w /\ u = t
    <3>1. i = last
      BY <1>2, <1>6, <1>9, <1>13, <2>1 DEF TellsOf
    <3>2. kind # "cancelled"
      BY <1>2, <1>13, <2>1, <3>1
    <3>3. \A j \in Nat : TellsOf(nfrom, w, t, j) => j <= last
      BY <1>2 DEF TellsOf
    <3>4. QED
      BY <1>3, <2>1, <3>1, <3>2, <3>3
  <2>2. CASE ~(v = w /\ u = t)
    <3>1. TellsOf(from, v, u, i) /\ from[v][i][1] # "cancelled"
      BY <1>2, <1>6, <1>13, <2>2 DEF TellsOf
    <3>2. QED
      BY <1>3, <1>6, <2>2, <3>1 DEF Places
  <2>3. QED
    BY <2>1, <2>2
<1>14. Places(st, to, nfrom, npars)
  BY <1>10, <1>11, <1>12, <1>13 DEF Places
<1>15. QED
  BY <1>4, <1>14 DEF nfrom

(* A cancellation: it is not a place of a task. *)
LEMMA CancelKeeps ==
  ASSUME NEW st, NEW to, NEW from, NEW pars, MessagesTyped(st, to, from, pars),
         Places(st, to, from, pars), NEW t \in Tasks,
         NEW nto \in [Workers -> Seq(Messages({"parse", "cancel"}))],
         \A w \in Workers : nto[w] \in {to[w], Append(to[w], <<"cancel", t>>)}
  PROVE  MessagesTyped(st, nto, from, pars) /\ Places(st, nto, from, pars)
<1>1. MessagesTyped(st, nto, from, pars)
  BY DEF MessagesTyped
<1>2. ASSUME NEW v \in Workers, NEW u \in Tasks, NEW i \in Nat
      PROVE  AsksFor(nto, v, u, i) <=> AsksFor(to, v, u, i)
  <2>1. CASE nto[v] = to[v]
    BY <2>1 DEF AsksFor
  <2>2. CASE nto[v] = Append(to[v], <<"cancel", t>>)
    <3>1. to \in [Workers -> Seq(Messages({"parse", "cancel"}))]
      BY DEF MessagesTyped
    <3> DEFINE ato == [to EXCEPT ![v] = Append(@, <<"cancel", t>>)]
    <3>2. /\ \A j \in Nat : j \in DOMAIN ato[v] <=> j \in DOMAIN to[v] \/ j = Len(to[v]) + 1
          /\ \A j \in DOMAIN to[v] : ato[v][j] = to[v][j]
          /\ ato[v][Len(to[v]) + 1] = <<"cancel", t>>
      BY <3>1, AppendMoves
    <3>3. ato[v] = nto[v]
      BY <2>2, <3>1
    <3>4. <<"cancel", t>> # <<"parse", u>>
      OBVIOUS
    <3> HIDE DEF ato
    <3>5. QED
      BY <3>2, <3>3, <3>4 DEF AsksFor
  <2>3. QED
    BY <2>1, <2>2
<1>3. \A v \in Workers, u \in Tasks : At(nto, from, pars, v, u) <=> At(to, from, pars, v, u)
  BY <1>2 DEF At
<1>4. QED
  BY <1>1, <1>2, <1>3 DEF Places

\* The next cancellation is received.
LEMMA DropKeeps ==
  ASSUME NEW st, NEW to, NEW from, NEW pars, MessagesTyped(st, to, from, pars),
         Places(st, to, from, pars), NEW w \in Workers, to[w] # <<>>, Head(to[w])[1] = "cancel"
  PROVE  LET nto == [to EXCEPT ![w] = Tail(@)]
         IN  MessagesTyped(st, nto, from, pars) /\ Places(st, nto, from, pars)
<1> DEFINE nto == [to EXCEPT ![w] = Tail(@)]
<1>1. to \in [Workers -> Seq(Messages({"parse", "cancel"}))]
  BY DEF MessagesTyped
<1>2. /\ nto \in [Workers -> Seq(Messages({"parse", "cancel"}))]
      /\ to[w][1][1] = "cancel" /\ 1 \in DOMAIN to[w]
      /\ \A v \in Workers : v # w => nto[v] = to[v]
      /\ \A i \in Nat : i \in DOMAIN nto[w] <=> i # 0 /\ i + 1 \in DOMAIN to[w]
      /\ \A i \in DOMAIN nto[w] : i \in Nat /\ nto[w][i] = to[w][i + 1]
      /\ \A i \in DOMAIN to[w] : i \in Nat \ {0}
  BY <1>1, TailMoves
<1>3. MessagesTyped(st, nto, from, pars)
  BY <1>2 DEF MessagesTyped
<1> HIDE DEF nto
<1>4. ASSUME NEW v \in Workers, NEW u \in Tasks, NEW i \in Nat
      PROVE  /\ v # w => (AsksFor(nto, v, u, i) <=> AsksFor(to, v, u, i))
             /\ AsksFor(nto, w, u, i) <=> i # 0 /\ AsksFor(to, w, u, i + 1)
  BY <1>2 DEF AsksFor
<1>5. \A i, j \in Nat : i + 1 \in Nat /\ j + 1 \in Nat /\ (i + 1 = j + 1 => i = j)
  OBVIOUS
<1>6. ASSUME NEW v \in Workers, NEW u \in Tasks, At(nto, from, pars, v, u)
      PROVE  At(to, from, pars, v, u)
  BY <1>4, <1>5, <1>6 DEF At
<1>7. \A u \in Tasks, v, x \in Workers : At(nto, from, pars, v, u) /\ At(nto, from, pars, x, u) => v = x
  BY <1>6 DEF Places
<1>8. \A u \in Tasks, v \in Workers :
        st[u] \in {"none", "pending", "completed"} => ~At(nto, from, pars, v, u)
  BY <1>6 DEF Places
<1>9. ASSUME NEW u \in Tasks, NEW v \in Workers, NEW i \in Nat, AsksFor(nto, v, u, i)
      PROVE  /\ \A j \in Nat : AsksFor(nto, v, u, j) => j = i
             /\ u \notin pars[v] /\ \A j \in Nat : ~TellsOf(from, v, u, j)
  <2>1. CASE v # w
    BY <1>4, <1>9, <2>1 DEF Places
  <2>2. CASE v = w
    <3>1. AsksFor(to, w, u, i + 1) /\ i + 1 \in Nat
      BY <1>4, <1>5, <1>9, <2>2
    <3>2. /\ \A j \in Nat : AsksFor(to, w, u, j) => j = i + 1
          /\ u \notin pars[w] /\ \A j \in Nat : ~TellsOf(from, w, u, j)
      BY <3>1 DEF Places
    <3>3. QED
      BY <1>4, <1>5, <2>2, <3>2
  <2>3. QED
    BY <2>1, <2>2
<1>10. \A u \in Tasks, v \in Workers, i \in Nat :
         TellsOf(from, v, u, i) /\ from[v][i][1] # "cancelled" =>
           u \notin pars[v] /\ \A j \in Nat : TellsOf(from, v, u, j) => j <= i
  BY DEF Places
<1>11. Places(st, nto, from, pars)
  BY <1>7, <1>8, <1>9, <1>10 DEF Places
<1>12. QED
  BY <1>3, <1>11 DEF nto
-----------------------------------------------------------------------------
(* The queue holds the tasks that wait, in the order of their numbers. *)
Waiting(q, st) ==
  /\ q \in Seq(Tasks) /\ Range(q) = {t \in Tasks : st[t] = "pending"}
  /\ \A i, j \in DOMAIN q : i < j => q[i] < q[j]

(* What processQueue does: nothing, or the next task is sent to a free     *)
(* worker.                                                                 *)
Dispatch(q, busy, st, k) ==
  \/ /\ busy = Workers \/ q = <<>>
     /\ taskQueue' = q /\ workerBusy' = busy /\ status' = st /\ timers' = k
     /\ toWorker' = toWorker
  \/ \E w \in Workers \ busy :
       /\ q # <<>> /\ Head(q) \in Tasks /\ st[Head(q)] = "pending"
       /\ taskQueue' = Tail(q) /\ workerBusy' = busy \cup {w}
       /\ status' = [st EXCEPT ![Head(q)] = "processing"] /\ timers' = k + 1
       /\ toWorker' = [toWorker EXCEPT ![w] = Append(@, <<"parse", Head(q)>>)]

LEMMA Dispatched ==
  ASSUME NEW q, NEW busy \in SUBSET Workers, NEW st \in [Tasks -> Statuses], NEW k \in Nat,
         Waiting(q, st), ProcessQueue(q, busy, st, k)
  PROVE  Dispatch(q, busy, st, k)
<1> DEFINE Test(t) == st[t] = "pending"
           I == {i \in 1..Len(q) : Test(q[i])}
           i == SelectInSeq(q, Test)
           w == Min(Workers \ busy)
<1>1. q \in Seq(Tasks) /\ DOMAIN q = 1..Len(q) /\ Len(q) \in Nat
  BY LenProperties DEF Waiting
<1>2. \A n \in 1..Len(q) : q[n] \in Tasks /\ st[q[n]] = "pending"
  BY <1>1 DEF Waiting, Range
<1>3. I = 1..Len(q)
  BY <1>2
<1>4. i = IF I # {} THEN Min(I) ELSE 0
  BY DEF SelectInSeq
<1>5. q # <<>> => i = 1
  <2> SUFFICES ASSUME q # <<>> PROVE i = 1
    OBVIOUS
  <2>1. Len(q) \in Nat \ {0}
    BY <1>1, EmptySeq
  <2>2. 1 \in I /\ I \in SUBSET Nat
    BY <1>3, <2>1
  <2> HIDE DEF I
  <2>3. Min(I) \in I /\ Min(I) <= 1
    BY <2>2, Least
  <2>4. QED
    BY <1>3, <1>4, <2>1, <2>2, <2>3
<1>6. q = <<>> => i = 0
  <2>1. q = <<>> => I = {}
    BY <1>3, EmptySeq
  <2>2. QED
    BY <1>4, <2>1
<1>7. busy # Workers => w \in Workers \ busy
  <2>1. Workers \ busy \in SUBSET Nat
    BY PoolAssumption DEF Workers
  <2>2. QED
    BY <2>1, Least
<1>8. \/ /\ busy = Workers \/ i = 0
         /\ taskQueue' = IF busy = Workers THEN q ELSE <<>>
         /\ workerBusy' = busy /\ status' = st /\ timers' = k /\ toWorker' = toWorker
      \/ /\ busy # Workers /\ i # 0
         /\ taskQueue' = SubSeq(q, i + 1, Len(q))
         /\ workerBusy' = busy \cup {w}
         /\ status' = [st EXCEPT ![q[i]] = "processing"] /\ timers' = k + 1
         /\ toWorker' = [toWorker EXCEPT ![w] = Append(@, <<"parse", q[i]>>)]
  BY DEF ProcessQueue
<1> HIDE DEF i, w
<1>9. q # <<>> => /\ Head(q) = q[1] /\ Tail(q) = SubSeq(q, 2, Len(q))
                  /\ Head(q) \in Tasks /\ st[Head(q)] = "pending"
  <2> SUFFICES ASSUME q # <<>>
               PROVE  /\ Head(q) = q[1] /\ Tail(q) = SubSeq(q, 2, Len(q))
                      /\ Head(q) \in Tasks /\ st[Head(q)] = "pending"
    OBVIOUS
  <2>1. Len(q) \in Nat \ {0} /\ 1 \in 1..Len(q)
    BY <1>1, EmptySeq
  <2>2. Head(q) = q[1]
    BY <1>1
  <2>3. Tail(q) = SubSeq(q, 2, Len(q))
    BY <1>1, TailIsSubSeq
  <2>4. QED
    BY <1>2, <2>1, <2>2, <2>3
<1>10. CASE busy = Workers \/ i = 0
  BY <1>5, <1>6, <1>8, <1>10 DEF Dispatch
<1>11. CASE ~(busy = Workers \/ i = 0)
  <2>1. i = 1 /\ q # <<>>
    BY <1>5, <1>6, <1>11
  <2>2. SubSeq(q, i + 1, Len(q)) = Tail(q) /\ q[i] = Head(q)
    BY <1>9, <2>1
  <2>3. QED
    BY <1>7, <1>8, <1>9, <1>11, <2>1, <2>2 DEF Dispatch
<1>12. QED
  BY <1>10, <1>11

\* Being one of the elements of a queue.
LEMMA InRange ==
  ASSUME NEW q \in Seq(Tasks), NEW t
  PROVE  t \in Range(q) <=> \E i \in 1..Len(q) : q[i] = t
BY LenProperties DEF Range

LEMMA WaitingTail ==
  ASSUME NEW q, NEW st \in [Tasks -> Statuses], Waiting(q, st), q # <<>>
  PROVE  Waiting(Tail(q), [st EXCEPT ![Head(q)] = "processing"])
<1> DEFINE n == Len(q)
           nst == [st EXCEPT ![Head(q)] = "processing"]
<1>1. q \in Seq(Tasks) /\ n \in Nat \ {0} /\ DOMAIN q = 1..n
  BY EmptySeq, LenProperties DEF Waiting
<1>2. /\ Tail(q) \in Seq(Tasks) /\ Len(Tail(q)) = n - 1 /\ DOMAIN Tail(q) = 1..(n - 1)
      /\ \A i \in 1..(n - 1) : Tail(q)[i] = q[i + 1]
      /\ Head(q) = q[1] /\ Head(q) \in Tasks
  BY <1>1, HeadTailProperties, LenProperties
<1>3. \A i, j \in 1..n : i < j => q[i] < q[j] /\ q[i] \in Nat /\ q[j] \in Nat
  <2>1. \A i \in 1..n : q[i] \in Tasks
    BY <1>1, ElementOfSeq
  <2>2. \A t \in Tasks : t \in Nat
    BY PoolAssumption DEF Tasks
  <2>3. \A i, j \in 1..n : i < j => q[i] < q[j]
    BY <1>1 DEF Waiting
  <2>4. QED
    BY <2>1, <2>2, <2>3
<1>4. \A t \in Tasks : st[t] = "pending" <=> \E i \in 1..n : q[i] = t
  BY <1>1, InRange DEF Waiting
<1>5. \A t \in Tasks : nst[t] = "pending" <=> st[t] = "pending" /\ t # Head(q)
  OBVIOUS
<1>6. ASSUME NEW t \in Tasks PROVE nst[t] = "pending" <=> \E i \in 1..(n - 1) : Tail(q)[i] = t
  <2>1. ASSUME nst[t] = "pending" PROVE \E i \in 1..(n - 1) : Tail(q)[i] = t
    <3>1. PICK i \in 1..n : q[i] = t /\ i # 1
      BY <1>2, <1>4, <1>5, <2>1
    <3>2. i - 1 \in 1..(n - 1) /\ (i - 1) + 1 = i
      BY <1>1, <3>1
    <3>3. QED
      BY <1>2, <3>1, <3>2
  <2>2. ASSUME NEW i \in 1..(n - 1), Tail(q)[i] = t PROVE nst[t] = "pending"
    <3>1. i + 1 \in 1..n /\ 1 \in 1..n /\ 1 < i + 1
      BY <1>1
    <3>2. q[i + 1] = t /\ q[1] < q[i + 1] /\ q[1] \in Nat
      BY <1>2, <1>3, <2>2, <3>1
    <3>3. st[t] = "pending" /\ t # q[1]
      BY <1>4, <3>1, <3>2
    <3>4. QED
      BY <1>2, <1>5, <3>3
  <2>3. QED
    BY <2>1, <2>2
<1> HIDE DEF nst
<1>7. Range(Tail(q)) = {t \in Tasks : nst[t] = "pending"}
  <2>1. \A t \in Range(Tail(q)) : t \in Tasks
    BY <1>2, RangeOfSeq
  <2>2. \A t \in Tasks : t \in Range(Tail(q)) <=> \E i \in 1..(n - 1) : Tail(q)[i] = t
    <3>1. \A t \in Tasks : t \in Range(Tail(q)) <=> \E i \in 1..Len(Tail(q)) : Tail(q)[i] = t
      BY <1>2, InRange
    <3>2. Len(Tail(q)) = n - 1
      BY <1>2
    <3>3. QED
      BY <3>1, <3>2
  <2>3. QED
    BY <1>6, <2>1, <2>2
<1>8. \A i, j \in 1..(n - 1) : i < j => Tail(q)[i] < Tail(q)[j]
  <2> SUFFICES ASSUME NEW i \in 1..(n - 1), NEW j \in 1..(n - 1), i < j
               PROVE  Tail(q)[i] < Tail(q)[j]
    OBVIOUS
  <2>1. i + 1 \in 1..n /\ j + 1 \in 1..n /\ i + 1 < j + 1
    BY <1>1
  <2>2. QED
    BY <1>2, <1>3, <2>1
<1>9. Waiting(Tail(q), nst)
  BY <1>2, <1>7, <1>8 DEF Waiting
<1>10. QED
  BY <1>9 DEF nst

LEMMA WaitingAppend ==
  ASSUME NEW q, NEW st \in [Tasks -> Statuses], Waiting(q, st), NEW t \in Tasks,
         \A u \in Tasks : st[u] = "pending" => u < t
  PROVE  Waiting(Append(q, t), [st EXCEPT ![t] = "pending"])
<1> DEFINE n == Len(q)
           nst == [st EXCEPT ![t] = "pending"]
           a == Append(q, t)
<1>1. q \in Seq(Tasks) /\ n \in Nat /\ DOMAIN q = 1..n
  BY LenProperties DEF Waiting
<1>2. /\ a \in Seq(Tasks) /\ Len(a) = n + 1 /\ DOMAIN a = 1..(n + 1)
      /\ \A i \in 1..n : a[i] = q[i]
      /\ a[n + 1] = t
  BY <1>1, AppendProperties, LenProperties
<1>3. \A u \in Tasks : st[u] = "pending" <=> \E i \in 1..n : q[i] = u
  BY <1>1, InRange DEF Waiting
<1>4. \A u \in Tasks : nst[u] = "pending" <=> st[u] = "pending" \/ u = t
  OBVIOUS
<1>5. \A i \in 1..n : q[i] \in Tasks /\ q[i] < t
  BY <1>1, <1>3, ElementOfSeq
<1>6. \A i \in 1..(n + 1) : i \in 1..n \/ i = n + 1
  BY <1>1
<1>7. \A i \in 1..n : i \in 1..(n + 1) /\ n + 1 \in 1..(n + 1) /\ ~(n + 1 < i)
  BY <1>1
<1>8. n + 1 \in 1..(n + 1) /\ ~(n + 1 < n + 1)
  BY <1>1
<1> HIDE DEF n, nst, a
<1>9. Range(a) = {u \in Tasks : nst[u] = "pending"}
  <2>1. \A u \in Range(a) : u \in Tasks
    BY <1>2, RangeOfSeq
  <2>2. \A u \in Tasks : u \in Range(a) <=> \E i \in 1..(n + 1) : a[i] = u
    BY <1>2, InRange
  <2>3. \A u \in Tasks : (\E i \in 1..(n + 1) : a[i] = u) <=> (\E i \in 1..n : q[i] = u) \/ u = t
    BY <1>2, <1>6, <1>7, <1>8
  <2>4. QED
    BY <1>3, <1>4, <2>1, <2>2, <2>3
<1>10. \A i, j \in 1..(n + 1) : i < j => a[i] < a[j]
  <2>1. \A i, j \in 1..n : i < j => q[i] < q[j]
    BY <1>1 DEF Waiting
  <2>2. QED
    BY <1>2, <1>5, <1>6, <1>7, <1>8, <2>1
<1>11. Waiting(a, nst)
  BY <1>2, <1>9, <1>10 DEF Waiting
<1>12. QED
  BY <1>11 DEF nst, a

LEMMA WaitingRemove ==
  ASSUME NEW q, NEW st \in [Tasks -> Statuses], Waiting(q, st), NEW t \in Tasks, st[t] = "pending"
  PROVE  Waiting(RemoveFirst(q, t), [st EXCEPT ![t] = "cancelled"])
<1> DEFINE n == Len(q)
           nst == [st EXCEPT ![t] = "cancelled"]
           I == {i \in 1..n : q[i] = t}
           k == Min(I)
           r == SubSeq(q, 1, k - 1) \o SubSeq(q, k + 1, n)
           at(i) == IF i < k THEN i ELSE i + 1
<1>1. q \in Seq(Tasks) /\ n \in Nat /\ DOMAIN q = 1..n
  BY LenProperties DEF Waiting
<1>2. \A u \in Tasks : st[u] = "pending" <=> \E i \in 1..n : q[i] = u
  BY <1>1, InRange DEF Waiting
<1>3. \E i \in 1..Len(q) : q[i] = t
  BY <1>2
<1>4. RemoveFirst(q, t) = RemoveAt(q, SelectInSeq(q, LAMBDA v : v = t))
  BY <1>3 DEF RemoveFirst
<1>5. SelectInSeq(q, LAMBDA v : v = t) = IF I # {} THEN Min(I) ELSE 0
  BY DEF SelectInSeq
<1>6. k \in 1..n /\ q[k] = t /\ I # {}
  <2>1. I # {}
    BY <1>2
  <2>2. I \in SUBSET Nat
    BY <1>1
  <2>3. k \in I
    <3> HIDE DEF I
    <3>1. QED
      BY <2>1, <2>2, Least
  <2>4. QED
    BY <2>1, <2>3
<1>7. RemoveFirst(q, t) = r
  BY <1>4, <1>5, <1>6 DEF RemoveAt
<1>8. \A i \in 1..n : q[i] \in Tasks
  BY <1>1, ElementOfSeq
<1> HIDE DEF k, I, n
<1>9. /\ SubSeq(q, 1, k - 1) \in Seq(Tasks) /\ Len(SubSeq(q, 1, k - 1)) = k - 1
      /\ \A i \in 1..(k - 1) : SubSeq(q, 1, k - 1)[i] = q[i]
  <2>1. 1 \in Int /\ k - 1 \in Int /\ \A i \in 1..(k - 1) : q[i] \in Tasks
    BY <1>1, <1>6, <1>8
  <2>2. /\ SubSeq(q, 1, k - 1) \in Seq(Tasks)
        /\ Len(SubSeq(q, 1, k - 1)) = IF 1 <= k - 1 THEN (k - 1) - 1 + 1 ELSE 0
        /\ \A i \in 1..((k - 1) - 1 + 1) : SubSeq(q, 1, k - 1)[i] = q[1 + i - 1]
    BY <2>1, SubSeqProperties
  <2>3. (k - 1) - 1 + 1 = k - 1 /\ (~(1 <= k - 1) => k - 1 = 0) /\ \A i \in 1..(k - 1) : 1 + i - 1 = i
    BY <1>6
  <2>4. QED
    BY <2>2, <2>3
<1>10. /\ SubSeq(q, k + 1, n) \in Seq(Tasks) /\ Len(SubSeq(q, k + 1, n)) = n - k
       /\ \A i \in 1..(n - k) : SubSeq(q, k + 1, n)[i] = q[k + i]
  <2>1. k + 1 \in Int /\ n \in Int /\ \A i \in (k + 1)..n : q[i] \in Tasks
    BY <1>1, <1>6, <1>8
  <2>2. /\ SubSeq(q, k + 1, n) \in Seq(Tasks)
        /\ Len(SubSeq(q, k + 1, n)) = IF k + 1 <= n THEN n - (k + 1) + 1 ELSE 0
        /\ \A i \in 1..(n - (k + 1) + 1) : SubSeq(q, k + 1, n)[i] = q[(k + 1) + i - 1]
    BY <2>1, SubSeqProperties
  <2>3. /\ n - (k + 1) + 1 = n - k /\ (~(k + 1 <= n) => n - k = 0)
        /\ \A i \in 1..(n - k) : (k + 1) + i - 1 = k + i
    BY <1>1, <1>6
  <2>4. QED
    BY <2>2, <2>3
<1>11. r \in Seq(Tasks) /\ Len(r) = n - 1 /\ DOMAIN r = 1..(n - 1)
  <2>1. r \in Seq(Tasks) /\ Len(r) = (k - 1) + (n - k)
    BY <1>9, <1>10, ConcatProperties
  <2>2. (k - 1) + (n - k) = n - 1
    BY <1>1, <1>6
  <2>3. QED
    BY <2>1, <2>2, LenProperties
<1>12. ASSUME NEW i \in 1..(n - 1) PROVE at(i) \in 1..n /\ r[i] = q[at(i)] /\ at(i) # k
  <2>1. r[i] = IF i <= k - 1 THEN SubSeq(q, 1, k - 1)[i] ELSE SubSeq(q, k + 1, n)[i - (k - 1)]
    <3>1. i \in 1..((k - 1) + (n - k))
      BY <1>1, <1>6
    <3>2. i \in 1..(Len(SubSeq(q, 1, k - 1)) + Len(SubSeq(q, k + 1, n)))
      BY <1>9, <1>10, <3>1
    <3>3. r[i] = IF i <= Len(SubSeq(q, 1, k - 1)) THEN SubSeq(q, 1, k - 1)[i]
                 ELSE SubSeq(q, k + 1, n)[i - Len(SubSeq(q, 1, k - 1))]
      BY <1>9, <1>10, <3>2, ConcatProperties
    <3>4. QED
      BY <1>9, <3>3
  <2>2. CASE i < k
    <3>1. i \in 1..(k - 1) /\ i <= k - 1 /\ at(i) = i /\ i \in 1..n
      BY <1>1, <1>6, <2>2
    <3>2. QED
      BY <1>9, <2>1, <2>2, <3>1
  <2>3. CASE ~(i < k)
    <3>1. i - (k - 1) \in 1..(n - k) /\ ~(i <= k - 1) /\ k + (i - (k - 1)) = i + 1 /\ i + 1 \in 1..n
          /\ i + 1 # k
      BY <1>1, <1>6, <2>3
    <3>2. QED
      BY <1>10, <2>1, <2>3, <3>1
  <2>4. QED
    BY <2>2, <2>3
<1>13. ASSUME NEW j \in 1..n, j # k PROVE \E i \in 1..(n - 1) : at(i) = j
  <2>1. CASE j < k
    <3>1. j \in 1..(n - 1) /\ at(j) = j
      BY <1>1, <1>6, <2>1
    <3>2. QED
      BY <3>1
  <2>2. CASE ~(j < k)
    <3>1. j - 1 \in 1..(n - 1) /\ ~(j - 1 < k) /\ (j - 1) + 1 = j
      BY <1>1, <1>6, <1>13, <2>2
    <3>2. at(j - 1) = j
      BY <3>1
    <3>3. QED
      BY <3>1, <3>2
  <2>3. QED
    BY <2>1, <2>2
<1>14. \A i, j \in 1..(n - 1) : i < j => at(i) < at(j)
  BY <1>1, <1>6
<1>15. \A i, j \in 1..n : i < j => q[i] < q[j]
  BY <1>1 DEF Waiting
<1>16. \A i \in 1..n : q[i] = t => i = k
  <2>1. \A u \in Tasks : u \in Nat
    BY PoolAssumption DEF Tasks
  <2>2. ASSUME NEW i \in 1..n, q[i] = t, i # k PROVE FALSE
    <3>1. i < k \/ k < i
      BY <1>6, <2>2
    <3>2. q[i] < q[k] \/ q[k] < q[i]
      BY <1>6, <1>15, <3>1
    <3>3. QED
      BY <1>6, <2>1, <2>2, <3>2
  <2>3. QED
    BY <2>2
<1>17. \A u \in Tasks : nst[u] = "pending" <=> st[u] = "pending" /\ u # t
  OBVIOUS
<1> HIDE DEF n, nst, r, at
<1>18. Range(r) = {u \in Tasks : nst[u] = "pending"}
  <2>1. \A u \in Range(r) : u \in Tasks
    BY <1>11, RangeOfSeq
  <2>2. \A u \in Tasks : u \in Range(r) <=> \E i \in 1..(n - 1) : r[i] = u
    BY <1>11, InRange
  <2>3. ASSUME NEW u \in Tasks PROVE (\E i \in 1..(n - 1) : r[i] = u) <=> (\E j \in 1..n : q[j] = u /\ j # k)
    BY <1>12, <1>13
  <2>4. \A u \in Tasks : (\E j \in 1..n : q[j] = u /\ j # k) <=> (\E j \in 1..n : q[j] = u) /\ u # t
    BY <1>6, <1>16
  <2>5. QED
    BY <1>2, <1>17, <2>1, <2>2, <2>3, <2>4
<1>19. \A i, j \in 1..(n - 1) : i < j => r[i] < r[j]
  BY <1>12, <1>14, <1>15
<1>20. Waiting(r, nst)
  BY <1>11, <1>18, <1>19 DEF Waiting
<1>21. QED
  BY <1>7, <1>20 DEF nst
-----------------------------------------------------------------------------
(* Every task that has left the queue has set off at most one timer that   *)
(* is pending.                                                             *)
Started(st) == {t \in Tasks : st[t] \notin {"none", "pending"}}

HasFailed == \E w \in Workers : health[w] = "failed"

PoolInv ==
  /\ MessagesTyped(status, toWorker, fromWorker, parsing)
  /\ Places(status, toWorker, fromWorker, parsing)
  /\ Waiting(taskQueue, status)
  /\ taskQueue # <<>> => workerBusy = Workers \/ HasFailed
  /\ workerBusy \in SUBSET Workers /\ asked \in SUBSET Tasks
  /\ timers \in Nat /\ timers <= Cardinality(Started(status))
  /\ \A w \in Workers : known[w] \subseteq parsing[w]
  /\ known \in [Workers -> SUBSET Tasks] /\ health \in [Workers -> {"ok", "unloaded", "failed"}]

LEMMA StartedCount ==
  ASSUME NEW st
  PROVE  /\ IsFiniteSet(Started(st)) /\ Cardinality(Started(st)) \in 0..MaxFiles
         /\ Cardinality(Started(st)) \in Nat
<1>1. IsFiniteSet(Tasks) /\ Cardinality(Tasks) = MaxFiles
  <2>1. 1 \in Int /\ MaxFiles \in Int /\ MaxFiles \in Nat
    BY PoolAssumption
  <2>2. IsFiniteSet(1..MaxFiles) /\ Cardinality(1..MaxFiles) = IF 1 > MaxFiles THEN 0 ELSE MaxFiles - 1 + 1
    BY <2>1, FS_Interval
  <2>3. QED
    BY <2>1, <2>2 DEF Tasks
<1>2. Started(st) \subseteq Tasks
  BY DEF Started
<1>3. IsFiniteSet(Started(st)) /\ Cardinality(Started(st)) <= MaxFiles
  BY <1>1, <1>2, FS_Subset
<1>4. Cardinality(Started(st)) \in Nat
  BY <1>3, FS_CardinalityType
<1>5. QED
  BY <1>3, <1>4, PoolAssumption

(* What the invariant says is what is checked. *)
LEMMA PoolTypes == PoolInv => PoolTypeOK /\ NoIdleWorker
<1> SUFFICES ASSUME PoolInv PROVE PoolTypeOK /\ NoIdleWorker
  OBVIOUS
<1>1. timers \in 0..MaxFiles
  BY StartedCount, PoolAssumption DEF PoolInv
<1>2. PoolTypeOK
  BY <1>1 DEF PoolInv, PoolTypeOK, MessagesTyped, Statuses, Waiting
<1>3. NoIdleWorker
  BY DEF PoolInv, NoIdleWorker, Waiting, HasFailed
<1>4. QED
  BY <1>2, <1>3

(* After a step of the page: the queue is looked at. *)
LEMMA DispatchKeeps ==
  ASSUME NEW q, NEW busy \in SUBSET Workers, NEW st, NEW k \in Nat,
         MessagesTyped(st, toWorker, fromWorker', parsing),
         Places(st, toWorker, fromWorker', parsing), Waiting(q, st),
         k <= Cardinality(Started(st)),
         q # <<>> => \/ Tail(q) = <<>> \/ HasFailed
                     \/ \E w \in Workers : Workers \subseteq busy \cup {w},
         ProcessQueue(q, busy, st, k), UNCHANGED <<known, parsing, health>>,
         known \in [Workers -> SUBSET Tasks], asked' \in SUBSET Tasks,
         \A w \in Workers : known[w] \subseteq parsing[w],
         health \in [Workers -> {"ok", "unloaded", "failed"}]
  PROVE  PoolInv'
<1>1. st \in [Tasks -> Statuses] /\ HasFailed' = HasFailed
  BY DEF MessagesTyped, HasFailed
<1>2. CASE /\ busy = Workers \/ q = <<>>
           /\ taskQueue' = q /\ workerBusy' = busy /\ status' = st /\ timers' = k
           /\ toWorker' = toWorker
  <2>1. /\ MessagesTyped(status', toWorker', fromWorker', parsing')
        /\ Places(status', toWorker', fromWorker', parsing')
        /\ Waiting(taskQueue', status')
    BY <1>2
  <2>2. /\ taskQueue' # <<>> => workerBusy' = Workers \/ HasFailed'
        /\ workerBusy' \in SUBSET Workers /\ asked' \in SUBSET Tasks
        /\ timers' \in Nat /\ timers' <= Cardinality(Started(status'))
    BY <1>2
  <2>3. /\ \A w \in Workers : known'[w] \subseteq parsing'[w]
        /\ known' \in [Workers -> SUBSET Tasks] /\ health' \in [Workers -> {"ok", "unloaded", "failed"}]
    OBVIOUS
  <2>4. QED
    BY <2>1, <2>2, <2>3 DEF PoolInv
<1>3. ASSUME NEW w \in Workers \ busy, q # <<>>, Head(q) \in Tasks, st[Head(q)] = "pending",
             taskQueue' = Tail(q), workerBusy' = busy \cup {w},
             status' = [st EXCEPT ![Head(q)] = "processing"], timers' = k + 1,
             toWorker' = [toWorker EXCEPT ![w] = Append(@, <<"parse", Head(q)>>)]
      PROVE  PoolInv'
  <2>1. /\ MessagesTyped(status', toWorker', fromWorker', parsing)
        /\ Places(status', toWorker', fromWorker', parsing)
    BY <1>3, SendKeeps
  <2>2. Waiting(taskQueue', status')
    BY <1>1, <1>3, WaitingTail
  <2>3. taskQueue' # <<>> => workerBusy' = Workers \/ HasFailed'
    BY <1>1, <1>3
  <2>4. timers' \in Nat /\ timers' <= Cardinality(Started(status'))
    <3>1. Started(status') = Started(st) \cup {Head(q)} /\ Head(q) \notin Started(st)
      BY <1>1, <1>3 DEF Started
    <3>2. Cardinality(Started(status')) = Cardinality(Started(st)) + 1
      BY <3>1, StartedCount, FS_AddElement
    <3>3. QED
      BY <1>3, <3>2, StartedCount
  <2>5. QED
    BY <1>3, <2>1, <2>2, <2>3, <2>4 DEF PoolInv
<1>4. Dispatch(q, busy, st, k)
  BY <1>1, Dispatched
<1>5. QED
  BY <1>2, <1>3, <1>4 DEF Dispatch

\* A change of the table that puts no task on the way back.
LEMMA RestatusKeeps ==
  ASSUME NEW st, NEW to, NEW from, NEW pars, MessagesTyped(st, to, from, pars),
         Places(st, to, from, pars), NEW nst \in [Tasks -> Statuses],
         \A t \in Tasks : nst[t] \in {"none", "pending", "completed"} =>
                            st[t] \in {"none", "pending", "completed"}
  PROVE  MessagesTyped(nst, to, from, pars) /\ Places(nst, to, from, pars)
<1>1. MessagesTyped(nst, to, from, pars)
  BY DEF MessagesTyped
<1>2. Places(nst, to, from, pars)
  BY DEF Places
<1>3. QED
  BY <1>1, <1>2

LEMMA ParseFileKeeps ==
  ASSUME PoolInv, NEW t \in Tasks, \A u \in Tasks : status[u] = "pending" => u < t, ParseFile(t)
  PROVE  PoolInv'
<1> DEFINE st == [status EXCEPT ![t] = "pending"]
<1>t. status \in [Tasks -> Statuses] /\ taskQueue \in Seq(Tasks)
  BY DEF PoolInv, MessagesTyped, Waiting
<1>1. /\ status[t] = "none" /\ UNCHANGED <<fromWorker, known, parsing, health, asked>>
      /\ ProcessQueue(Append(taskQueue, t), workerBusy, st, timers)
  BY DEF ParseFile
<1>2. st \in [Tasks -> Statuses] /\ st[t] = "pending" /\ \A u \in Tasks : u # t => st[u] = status[u]
  BY <1>t DEF Statuses
<1> HIDE DEF st
<1>3. MessagesTyped(st, toWorker, fromWorker', parsing) /\ Places(st, toWorker, fromWorker', parsing)
  <2>1. \A u \in Tasks : st[u] \in {"none", "pending", "completed"} =>
                           status[u] \in {"none", "pending", "completed"}
    BY <1>1, <1>2
  <2>2. MessagesTyped(st, toWorker, fromWorker, parsing) /\ Places(st, toWorker, fromWorker, parsing)
    BY <1>2, <2>1, RestatusKeeps DEF PoolInv
  <2>3. QED
    BY <1>1, <2>2
<1>4. Waiting(Append(taskQueue, t), st)
  BY <1>t, WaitingAppend DEF PoolInv, st
<1>5. timers <= Cardinality(Started(st))
  <2>1. Started(st) = Started(status)
    BY <1>1, <1>2 DEF Started
  <2>2. QED
    BY <2>1 DEF PoolInv
<1>6. \/ Tail(Append(taskQueue, t)) = <<>> \/ HasFailed
      \/ \E w \in Workers : Workers \subseteq workerBusy \cup {w}
  <2>1. 0 \in Workers
    BY PoolAssumption DEF Workers
  <2>2. CASE taskQueue = <<>>
    <3>1. Append(taskQueue, t) = <<t>>
      BY <2>2
    <3>2. QED
      BY <3>1
  <2>3. CASE taskQueue # <<>>
    BY <2>1, <2>3 DEF PoolInv
  <2>4. QED
    BY <2>2, <2>3
<1>7. QED
  BY <1>1, <1>3, <1>4, <1>5, <1>6, DispatchKeeps DEF PoolInv

LEMMA TimerKeeps ==
  ASSUME PoolInv, Timer
  PROVE  PoolInv'
<1>1. /\ timers > 0 /\ UNCHANGED <<fromWorker, known, parsing, health, asked>>
      /\ ProcessQueue(taskQueue, workerBusy, status, timers - 1)
  BY DEF Timer
<1>2. timers - 1 \in Nat /\ timers - 1 <= Cardinality(Started(status))
  BY <1>1, StartedCount DEF PoolInv
<1>3. /\ MessagesTyped(status, toWorker, fromWorker', parsing)
      /\ Places(status, toWorker, fromWorker', parsing)
  BY <1>1 DEF PoolInv
<1>4. taskQueue # <<>> => HasFailed \/ \E w \in Workers : Workers \subseteq workerBusy \cup {w}
  <2>1. 0 \in Workers
    BY PoolAssumption DEF Workers
  <2>2. QED
    BY <2>1 DEF PoolInv
<1>5. QED
  BY <1>1, <1>2, <1>3, <1>4, DispatchKeeps DEF PoolInv

(* What a verdict leaves of the table before the queue is looked at: only  *)
(* the entry of its task changes, which neither waits nor is completed.    *)
LEMMA Heard ==
  ASSUME PoolInv, NEW w \in Workers, WorkerMessage(w)
  PROVE  \E st \in [Tasks -> Statuses], t \in Tasks :
           /\ status[t] \notin {"none", "pending", "completed"} /\ st[t] \notin {"none", "pending"}
           /\ \A u \in Tasks : u # t => st[u] = status[u]
           /\ MessagesTyped(st, toWorker, fromWorker', parsing)
           /\ Places(st, toWorker, fromWorker', parsing)
           /\ Waiting(taskQueue, st) /\ ProcessQueue(taskQueue, workerBusy \ {w}, st, timers)
<1> DEFINE t == Head(fromWorker[w])[2]
           kind == Head(fromWorker[w])[1]
<1>t. status \in [Tasks -> Statuses] /\ fromWorker \in [Workers -> Seq(Messages(Ended))]
  BY DEF PoolInv, MessagesTyped
<1>1. fromWorker[w] # <<>> /\ fromWorker' = [fromWorker EXCEPT ![w] = Tail(@)]
  BY DEF WorkerMessage
<1>2. PICK st \in Updates(t, kind) : ProcessQueue(taskQueue, workerBusy \ {w}, st, timers)
  BY DEF WorkerMessage
<1>3. t \in Tasks /\ kind \in Ended /\ TellsOf(fromWorker, w, t, 1)
  BY <1>t, <1>1, TailMoves DEF TellsOf
<1>4. status[t] \notin {"none", "pending", "completed"}
  BY <1>3 DEF PoolInv, Places, At
<1>5. st = [status EXCEPT ![t] = kind] \/ (st = status /\ status[t] \in Ended)
  BY <1>2 DEF Updates
<1>6. /\ MessagesTyped(st, toWorker, fromWorker', parsing)
      /\ Places(st, toWorker, fromWorker', parsing)
  <2>1. /\ MessagesTyped(status, toWorker, fromWorker, parsing)
        /\ Places(status, toWorker, fromWorker, parsing)
    BY DEF PoolInv
  <2>2. QED
    BY <1>1, <1>5, <2>1, VerdictKeeps
<1>7. st \in [Tasks -> Statuses] /\ st[t] \notin {"none", "pending"}
      /\ \A u \in Tasks : u # t => st[u] = status[u]
  BY <1>t, <1>3, <1>4, <1>5 DEF Ended, Statuses
<1> HIDE DEF t, kind
<1>8. Waiting(taskQueue, st)
  <2>1. {u \in Tasks : st[u] = "pending"} = {u \in Tasks : status[u] = "pending"}
    BY <1>3, <1>4, <1>7
  <2>2. QED
    BY <2>1 DEF PoolInv, Waiting
<1>9. QED
  BY <1>2, <1>3, <1>4, <1>6, <1>7, <1>8

LEMMA MessageKeeps ==
  ASSUME PoolInv, NEW w \in Workers, WorkerMessage(w)
  PROVE  PoolInv'
<1>1. UNCHANGED <<known, parsing, health, asked>>
  BY DEF WorkerMessage
<1>2. PICK st \in [Tasks -> Statuses], t \in Tasks :
        /\ status[t] \notin {"none", "pending", "completed"} /\ st[t] \notin {"none", "pending"}
        /\ \A u \in Tasks : u # t => st[u] = status[u]
        /\ MessagesTyped(st, toWorker, fromWorker', parsing)
        /\ Places(st, toWorker, fromWorker', parsing)
        /\ Waiting(taskQueue, st) /\ ProcessQueue(taskQueue, workerBusy \ {w}, st, timers)
  BY Heard
<1>3. timers <= Cardinality(Started(st))
  <2>1. Started(st) = Started(status)
    BY <1>2 DEF Started
  <2>2. QED
    BY <2>1 DEF PoolInv
<1>4. taskQueue # <<>> => HasFailed \/ \E v \in Workers : Workers \subseteq (workerBusy \ {w}) \cup {v}
  BY DEF PoolInv
<1>5. workerBusy \ {w} \in SUBSET Workers
  BY DEF PoolInv
<1>6. QED
  BY <1>1, <1>2, <1>3, <1>4, <1>5, DispatchKeeps DEF PoolInv

LEMMA CancelTaskKeeps ==
  ASSUME PoolInv, NEW t \in Tasks, CancelTask(t)
  PROVE  PoolInv'
<1>t. /\ status \in [Tasks -> Statuses]
      /\ toWorker \in [Workers -> Seq(Messages({"parse", "cancel"}))]
  BY DEF PoolInv, MessagesTyped
<1>1. /\ status[t] \in {"pending", "processing"} /\ asked' = asked \cup {t}
      /\ UNCHANGED <<workerBusy, timers, fromWorker, known, parsing, health>>
  BY DEF CancelTask
<1>2. /\ workerBusy' \in SUBSET Workers /\ asked' \in SUBSET Tasks /\ timers' \in Nat
      /\ HasFailed' = HasFailed
      /\ \A w \in Workers : known'[w] \subseteq parsing'[w]
      /\ known' \in [Workers -> SUBSET Tasks] /\ health' \in [Workers -> {"ok", "unloaded", "failed"}]
  BY <1>1 DEF PoolInv, HasFailed
<1>3. CASE status[t] = "pending"
  <2>1. /\ taskQueue' = RemoveFirst(taskQueue, t) /\ toWorker' = toWorker
        /\ status' = [status EXCEPT ![t] = "cancelled"]
    BY <1>3 DEF CancelTask
  <2>2. status' \in [Tasks -> Statuses] /\ status'[t] = "cancelled"
        /\ \A u \in Tasks : u # t => status'[u] = status[u]
    BY <1>t, <2>1 DEF Statuses, Ended
  <2>3. /\ MessagesTyped(status', toWorker', fromWorker', parsing')
        /\ Places(status', toWorker', fromWorker', parsing')
    <3>1. \A u \in Tasks : status'[u] \in {"none", "pending", "completed"} =>
                             status[u] \in {"none", "pending", "completed"}
      BY <2>2
    <3>2. /\ MessagesTyped(status', toWorker, fromWorker, parsing)
          /\ Places(status', toWorker, fromWorker, parsing)
      BY <2>2, <3>1, RestatusKeeps DEF PoolInv
    <3>3. QED
      BY <1>1, <2>1, <3>2
  <2>4. Waiting(taskQueue', status')
    BY <1>t, <1>3, <2>1, WaitingRemove DEF PoolInv
  <2>5. taskQueue' # <<>> => workerBusy' = Workers \/ HasFailed'
    <3>1. taskQueue # <<>>
      BY <1>t, <1>3, InRange, EmptySeq DEF PoolInv, Waiting, Range
    <3>2. QED
      BY <1>1, <1>2, <3>1 DEF PoolInv
  <2>6. timers' <= Cardinality(Started(status'))
    <3>1. Started(status') = Started(status) \cup {t} /\ t \notin Started(status)
      BY <1>3, <2>2 DEF Started
    <3>2. Cardinality(Started(status')) = Cardinality(Started(status)) + 1
      BY <3>1, StartedCount, FS_AddElement
    <3>3. QED
      BY <1>1, <3>2, StartedCount DEF PoolInv
  <2>7. QED
    BY <1>2, <2>3, <2>4, <2>5, <2>6 DEF PoolInv
<1>4. CASE status[t] = "processing"
  <2>1. /\ UNCHANGED <<taskQueue, status>>
        /\ toWorker' = [w \in Workers |->
             IF Holds(w, t) THEN Append(toWorker[w], <<"cancel", t>>) ELSE toWorker[w]]
    BY <1>4 DEF CancelTask
  <2>2. toWorker' \in [Workers -> Seq(Messages({"parse", "cancel"}))]
    <3>1. <<"cancel", t>> \in Messages({"parse", "cancel"})
      BY DEF Messages
    <3>2. \A w \in Workers : Append(toWorker[w], <<"cancel", t>>) \in Seq(Messages({"parse", "cancel"}))
      BY <1>t, <3>1, AppendProperties
    <3>3. QED
      BY <1>t, <2>1, <3>2
  <2>3. \A w \in Workers : toWorker'[w] \in {toWorker[w], Append(toWorker[w], <<"cancel", t>>)}
    BY <2>1
  <2>4. /\ MessagesTyped(status, toWorker', fromWorker, parsing)
        /\ Places(status, toWorker', fromWorker, parsing)
    BY <2>2, <2>3, CancelKeeps DEF PoolInv
  <2>5. QED
    BY <1>1, <1>2, <2>1, <2>4 DEF PoolInv
<1>5. QED
  BY <1>1, <1>3, <1>4

LEMMA ErrorKeeps ==
  ASSUME PoolInv, NEW w \in Workers, WorkerError(w)
  PROVE  PoolInv'
<1>t. status \in [Tasks -> Statuses] /\ health \in [Workers -> {"ok", "unloaded", "failed"}]
  BY DEF PoolInv, MessagesTyped
<1>1. /\ health' = [health EXCEPT ![w] = "failed"] /\ workerBusy' = workerBusy \ {w}
      /\ status' = [t \in Tasks |-> IF status[t] = "processing" THEN "error" ELSE status[t]]
      /\ UNCHANGED <<taskQueue, timers, toWorker, fromWorker, known, parsing, asked>>
  BY DEF WorkerError
<1>2. status' \in [Tasks -> Statuses]
  BY <1>t, <1>1 DEF Statuses, Ended
<1>3. \A t \in Tasks : \A s \in {"none", "pending", "completed"} : status'[t] = s <=> status[t] = s
  BY <1>1
<1>4. health' \in [Workers -> {"ok", "unloaded", "failed"}] /\ HasFailed'
  BY <1>t, <1>1 DEF HasFailed
<1>5. /\ MessagesTyped(status', toWorker', fromWorker', parsing')
      /\ Places(status', toWorker', fromWorker', parsing')
  <2>1. /\ MessagesTyped(status', toWorker, fromWorker, parsing)
        /\ Places(status', toWorker, fromWorker, parsing)
    BY <1>2, <1>3, RestatusKeeps DEF PoolInv
  <2>2. QED
    BY <1>1, <2>1
<1>6. Waiting(taskQueue', status')
  <2>1. {t \in Tasks : status'[t] = "pending"} = {t \in Tasks : status[t] = "pending"}
    BY <1>3
  <2>2. QED
    BY <1>1, <2>1 DEF PoolInv, Waiting
<1>7. timers' <= Cardinality(Started(status'))
  <2>1. Started(status') = Started(status)
    BY <1>3 DEF Started
  <2>2. QED
    BY <1>1, <2>1 DEF PoolInv
<1>8. QED
  BY <1>1, <1>4, <1>5, <1>6, <1>7 DEF PoolInv

(* A worker changes what is on its way, nothing that the page knows. *)
LEMMA WorkerKeeps ==
  ASSUME PoolInv, UNCHANGED <<status, taskQueue, workerBusy, timers, health, asked>>,
         MessagesTyped(status, toWorker', fromWorker', parsing'),
         Places(status, toWorker', fromWorker', parsing'),
         known' \in [Workers -> SUBSET Tasks], \A w \in Workers : known'[w] \subseteq parsing'[w]
  PROVE  PoolInv'
<1>1. HasFailed' = HasFailed
  BY DEF HasFailed
<1>2. QED
  BY <1>1 DEF PoolInv

LEMMA ReceiveKeeps ==
  ASSUME PoolInv, NEW w \in Workers, Receive(w)
  PROVE  PoolInv'
<1> DEFINE kind == Head(toWorker[w])[1]
           t == Head(toWorker[w])[2]
<1>t. /\ toWorker \in [Workers -> Seq(Messages({"parse", "cancel"}))]
      /\ parsing \in [Workers -> SUBSET Tasks] /\ known \in [Workers -> SUBSET Tasks]
      /\ \A v \in Workers : known[v] \subseteq parsing[v]
      /\ MessagesTyped(status, toWorker, fromWorker, parsing)
      /\ Places(status, toWorker, fromWorker, parsing)
  BY DEF PoolInv, MessagesTyped
<1>1. /\ toWorker[w] # <<>> /\ toWorker' = [toWorker EXCEPT ![w] = Tail(@)]
      /\ UNCHANGED <<status, taskQueue, workerBusy, timers, health, asked>>
  BY DEF Receive
<1>2. kind \in {"parse", "cancel"} /\ t \in Tasks
  BY <1>t, <1>1, TailMoves
<1>3. CASE kind = "parse"
  <2>1. /\ known' = [known EXCEPT ![w] = @ \cup {t}]
        /\ parsing' = [parsing EXCEPT ![w] = @ \cup {t}] /\ fromWorker' = fromWorker
    BY <1>3 DEF Receive
  <2>2. /\ MessagesTyped(status, toWorker', fromWorker, parsing')
        /\ Places(status, toWorker', fromWorker, parsing')
    BY <1>t, <1>1, <1>3, <2>1, StartKeeps
  <2>3. known' \in [Workers -> SUBSET Tasks] /\ \A v \in Workers : known'[v] \subseteq parsing'[v]
    BY <1>t, <1>2, <2>1
  <2>4. QED
    BY <1>1, <2>1, <2>2, <2>3, WorkerKeeps
<1>4. CASE kind = "cancel"
  <2>1. /\ known' = [known EXCEPT ![w] = @ \ {t}] /\ parsing' = parsing
        /\ \/ t \in known[w] /\ Post(w, "cancelled", t)
           \/ fromWorker' = fromWorker
    BY <1>4 DEF Receive
  <2>2. /\ MessagesTyped(status, toWorker', fromWorker, parsing)
        /\ Places(status, toWorker', fromWorker, parsing)
    BY <1>t, <1>1, <1>4, DropKeeps
  <2>3. /\ MessagesTyped(status, toWorker', fromWorker', parsing')
        /\ Places(status, toWorker', fromWorker', parsing')
    <3>1. CASE t \in known[w] /\ Post(w, "cancelled", t)
      <4>1. t \in parsing[w] /\ fromWorker' = [fromWorker EXCEPT ![w] = Append(@, <<"cancelled", t>>)]
        BY <1>t, <3>1 DEF Post
      <4>2. "cancelled" \in Ended
        BY DEF Ended
      <4>3. /\ MessagesTyped(status, toWorker', fromWorker', parsing)
            /\ Places(status, toWorker', fromWorker', parsing)
        BY <2>2, <4>1, <4>2, PostKeeps
      <4>4. QED
        BY <2>1, <4>3
    <3>2. CASE fromWorker' = fromWorker
      BY <2>1, <2>2, <3>2
    <3>3. QED
      BY <2>1, <3>1, <3>2
  <2>4. known' \in [Workers -> SUBSET Tasks] /\ \A v \in Workers : known'[v] \subseteq parsing'[v]
    BY <1>t, <2>1
  <2>5. QED
    BY <1>1, <2>3, <2>4, WorkerKeeps
<1>5. QED
  BY <1>2, <1>3, <1>4

LEMMA FinishKeeps ==
  ASSUME PoolInv, NEW w \in Workers, Finish(w)
  PROVE  PoolInv'
<1>t. /\ parsing \in [Workers -> SUBSET Tasks] /\ known \in [Workers -> SUBSET Tasks]
      /\ \A v \in Workers : known[v] \subseteq parsing[v]
      /\ MessagesTyped(status, toWorker, fromWorker, parsing)
      /\ Places(status, toWorker, fromWorker, parsing)
  BY DEF PoolInv, MessagesTyped
<1>1. PICK t \in parsing[w], kind \in {"completed", "error"} :
        /\ parsing' = [parsing EXCEPT ![w] = @ \ {t}] /\ known' = [known EXCEPT ![w] = @ \ {t}]
        /\ fromWorker' = [fromWorker EXCEPT ![w] = Append(@, <<kind, t>>)]
  BY DEF Finish, Post
<1>2. UNCHANGED <<status, taskQueue, workerBusy, timers, toWorker, health, asked>>
  BY DEF Finish
<1>3. kind \in Ended /\ kind # "cancelled" /\ parsing' # parsing
  BY <1>t, <1>1 DEF Ended
<1>4. /\ MessagesTyped(status, toWorker, fromWorker', parsing')
      /\ Places(status, toWorker, fromWorker', parsing')
  BY <1>t, <1>1, <1>3, PostKeeps
<1>5. known' \in [Workers -> SUBSET Tasks] /\ \A v \in Workers : known'[v] \subseteq parsing'[v]
  BY <1>t, <1>1
<1>6. QED
  BY <1>2, <1>4, <1>5, WorkerKeeps

LEMMA PoolStart == PoolInit => PoolInv
<1> SUFFICES ASSUME PoolInit PROVE PoolInv
  OBVIOUS
<1>1. MessagesTyped(status, toWorker, fromWorker, parsing)
  BY DEF PoolInit, MessagesTyped, Statuses
<1>2. \A t \in Tasks, w \in Workers : ~At(toWorker, fromWorker, parsing, w, t)
  BY DEF PoolInit, At, AsksFor, TellsOf
<1>3. \A t \in Tasks, w \in Workers, i \in Nat :
        ~AsksFor(toWorker, w, t, i) /\ ~TellsOf(fromWorker, w, t, i)
  BY <1>2 DEF At
<1>4. Places(status, toWorker, fromWorker, parsing)
  BY <1>2, <1>3 DEF Places
<1>5. Waiting(taskQueue, status)
  <2>1. taskQueue = <<>> /\ {t \in Tasks : status[t] = "pending"} = {}
    BY DEF PoolInit
  <2>2. QED
    BY <2>1 DEF Waiting, Range
<1>6. timers \in Nat /\ timers <= Cardinality(Started(status))
  BY StartedCount DEF PoolInit
<1>7. QED
  BY <1>1, <1>4, <1>5, <1>6 DEF PoolInv, PoolInit

LEMMA PoolKeeps ==
  ASSUME PoolInv, PoolStep
  PROVE  PoolInv'
<1>1. CASE Timer
  BY <1>1, TimerKeeps
<1>2. ASSUME NEW w \in Workers, WorkerMessage(w) PROVE PoolInv'
  BY <1>2, MessageKeeps
<1>3. ASSUME NEW t \in Tasks, CancelTask(t) PROVE PoolInv'
  BY <1>3, CancelTaskKeeps
<1>4. ASSUME NEW w \in Workers, WorkerError(w) PROVE PoolInv'
  BY <1>4, ErrorKeeps
<1>5. ASSUME NEW w \in Workers, Receive(w) PROVE PoolInv'
  BY <1>5, ReceiveKeeps
<1>6. ASSUME NEW w \in Workers, Finish(w) PROVE PoolInv'
  BY <1>6, FinishKeeps
<1>7. QED
  BY <1>1, <1>2, <1>3, <1>4, <1>5, <1>6 DEF PoolStep, Page, Worker

(* What the queue is looked at for changes a task that waits. *)
LEMMA DispatchStatus ==
  ASSUME NEW q, NEW busy \in SUBSET Workers, NEW st \in [Tasks -> Statuses], NEW k \in Nat,
         Waiting(q, st), ProcessQueue(q, busy, st, k)
  PROVE  \A t \in Tasks : \/ status'[t] = st[t]
                          \/ st[t] = "pending" /\ status'[t] = "processing"
<1>1. CASE status' = st
  BY <1>1
<1>2. ASSUME Head(q) \in Tasks, st[Head(q)] = "pending",
             status' = [st EXCEPT ![Head(q)] = "processing"]
      PROVE  \A t \in Tasks : \/ status'[t] = st[t]
                              \/ st[t] = "pending" /\ status'[t] = "processing"
  BY <1>2
<1>3. Dispatch(q, busy, st, k)
  BY Dispatched
<1>4. QED
  BY <1>1, <1>2, <1>3, Zenon DEF Dispatch

(* A result stays; no task that was never in the table gets into it but by *)
(* parseFile.                                                              *)
LEMMA PoolStatus ==
  ASSUME PoolInv, PoolStep
  PROVE  \A t \in Tasks : \A s \in {"none", "completed"} : status[t] = s => status'[t] = s
<1>t. status \in [Tasks -> Statuses] /\ Waiting(taskQueue, status) /\ workerBusy \in SUBSET Workers
      /\ timers \in Nat
  BY DEF PoolInv, MessagesTyped
<1>1. CASE Timer
  <2>1. timers - 1 \in Nat /\ ProcessQueue(taskQueue, workerBusy, status, timers - 1)
    BY <1>t, <1>1 DEF Timer
  <2>2. QED
    BY <1>t, <2>1, DispatchStatus
<1>2. ASSUME NEW w \in Workers, WorkerMessage(w)
      PROVE  \A t \in Tasks : \A s \in {"none", "completed"} : status[t] = s => status'[t] = s
  <2>1. PICK st \in [Tasks -> Statuses], t \in Tasks :
          /\ status[t] \notin {"none", "pending", "completed"}
          /\ \A u \in Tasks : u # t => st[u] = status[u]
          /\ Waiting(taskQueue, st) /\ ProcessQueue(taskQueue, workerBusy \ {w}, st, timers)
    BY <1>2, Heard
  <2>2. \A u \in Tasks : \/ status'[u] = st[u]
                         \/ st[u] = "pending" /\ status'[u] = "processing"
    BY <1>t, <2>1, DispatchStatus
  <2>3. QED
    BY <2>1, <2>2
<1>3. ASSUME NEW t \in Tasks, CancelTask(t)
      PROVE  \A u \in Tasks : \A s \in {"none", "completed"} : status[u] = s => status'[u] = s
  BY <1>t, <1>3 DEF CancelTask
<1>4. ASSUME NEW w \in Workers, WorkerError(w)
      PROVE  \A t \in Tasks : \A s \in {"none", "completed"} : status[t] = s => status'[t] = s
  BY <1>4 DEF WorkerError
<1>5. ASSUME NEW w \in Workers, Worker(w) PROVE status' = status
  BY <1>5 DEF Worker, Receive, Finish
<1>6. QED
  BY <1>1, <1>2, <1>3, <1>4, <1>5 DEF PoolStep, Page

LEMMA ParseFileStatus ==
  ASSUME PoolInv, NEW t \in Tasks, \A u \in Tasks : status[u] = "pending" => u < t, ParseFile(t)
  PROVE  \A u \in Tasks : /\ status[u] = "completed" => status'[u] = "completed"
                          /\ status[u] = "none" /\ u # t => status'[u] = "none"
<1> DEFINE st == [status EXCEPT ![t] = "pending"]
<1>1. /\ status \in [Tasks -> Statuses] /\ taskQueue \in Seq(Tasks) /\ workerBusy \in SUBSET Workers
      /\ timers \in Nat /\ Waiting(taskQueue, status)
  BY DEF PoolInv, MessagesTyped, Waiting
<1>2. status[t] = "none" /\ ProcessQueue(Append(taskQueue, t), workerBusy, st, timers)
  BY DEF ParseFile
<1>3. Waiting(Append(taskQueue, t), st)
  BY <1>1, WaitingAppend DEF PoolInv
<1>4. st \in [Tasks -> Statuses] /\ st[t] = "pending" /\ \A u \in Tasks : u # t => st[u] = status[u]
  BY <1>1 DEF Statuses
<1> HIDE DEF st
<1>5. \A u \in Tasks : \/ status'[u] = st[u]
                       \/ st[u] = "pending" /\ status'[u] = "processing"
  BY <1>1, <1>2, <1>3, <1>4, DispatchStatus
<1>6. QED
  BY <1>2, <1>4, <1>5
-----------------------------------------------------------------------------
(* As long as no selection was mixed with an earlier one, all that can     *)
(* still bring a content - the timer, a parse on the page, the task that   *)
(* is heard - brings that of the file.                                     *)
Steps == {"none", "job", "upload"}

FlowInv ==
  /\ PoolInv
  /\ phase \in {"idle", "validating", "uploading", "processing", "error"}
  /\ file \in 0..MaxFiles /\ selected \in 0..MaxFiles /\ subscribed \in 0..MaxFiles
  /\ debounced \in 0..MaxFiles /\ direct \in SUBSET Tasks
  /\ jobCode \in BOOLEAN /\ mixed \in BOOLEAN
  /\ run \in [Tasks -> [file : 0..MaxFiles, step : Steps]]
  /\ \A t \in Tasks : t > selected => status[t] = "none"
  /\ ~mixed /\ file # 0 =>
       debounced \in {0, file} /\ direct \subseteq {file} /\ subscribed \in {0, file}
  /\ UploadsWhatWasValidated

LEMMA NumbersOfTasks == /\ MaxFiles \in Nat /\ Tasks \in SUBSET Nat
                        /\ \A t : t \in Tasks <=> t \in 0..MaxFiles /\ t # 0
BY PoolAssumption DEF Tasks

LEMMA SelectKeeps ==
  ASSUME FlowInv, NEW large \in BOOLEAN, Select(large)
  PROVE  FlowInv' /\ \A t \in Tasks : status[t] = "completed" => status'[t] = "completed"
<1> DEFINE s == selected + 1
<1>1. s \in Tasks /\ selected \in Nat /\ s \in 0..MaxFiles /\ s # 0
  BY NumbersOfTasks DEF FlowInv, Select
<1>2. /\ selected' = s /\ file' = s /\ phase' = "validating"
      /\ UNCHANGED <<jobCode, debounced, run>>
      /\ mixed' = (mixed \/ debounced # 0 \/ direct # {} \/ (large /\ subscribed # 0))
  BY DEF Select
<1>3. /\ large => direct' = direct \cup {s} /\ UNCHANGED <<poolVars, subscribed>>
      /\ ~large => ParseFile(s) /\ subscribed' = s /\ direct' = direct
  BY DEF Select
<1>4. \A u \in Tasks : status[u] = "pending" => u < s
  BY <1>1, NumbersOfTasks DEF FlowInv
<1>5. PoolInv'
  <2>1. CASE large
    BY <1>3, <2>1 DEF FlowInv, poolVars, PoolInv, HasFailed
  <2>2. CASE ~large
    BY <1>1, <1>3, <1>4, <2>2, ParseFileKeeps DEF FlowInv
  <2>3. QED
    BY <2>1, <2>2
<1>6. \A u \in Tasks : /\ status[u] = "completed" => status'[u] = "completed"
                       /\ status[u] = "none" /\ u # s => status'[u] = "none"
  <2>1. CASE large
    BY <1>3, <2>1 DEF poolVars
  <2>2. CASE ~large
    BY <1>1, <1>3, <1>4, <2>2, ParseFileStatus DEF FlowInv
  <2>3. QED
    BY <2>1, <2>2
<1> HIDE DEF s
<1>7. \A t \in Tasks : t > selected' => status'[t] = "none"
  <2>1. \A t \in Tasks : t > s => t > selected /\ t # s
    BY <1>1, NumbersOfTasks DEF s
  <2>2. QED
    BY <1>2, <1>6, <2>1 DEF FlowInv
<1>8. ~mixed' => debounced' = 0 /\ direct' \subseteq {s} /\ subscribed' \in {0, s}
  BY <1>2, <1>3 DEF FlowInv
<1>9. UploadsWhatWasValidated'
  BY <1>2 DEF FlowInv, UploadsWhatWasValidated
<1>10. subscribed' \in 0..MaxFiles /\ direct' \in SUBSET Tasks /\ mixed' \in BOOLEAN
  BY <1>1, <1>2, <1>3 DEF FlowInv
<1>11. QED
  BY <1>1, <1>2, <1>5, <1>6, <1>7, <1>8, <1>9, <1>10 DEF FlowInv

LEMMA PoolRunsKeeps ==
  ASSUME FlowInv, PoolRuns
  PROVE  FlowInv' /\ \A t \in Tasks : status[t] = "completed" => status'[t] = "completed"
<1>1. PoolStep /\ UNCHANGED <<file, jobCode, selected, subscribed, direct, run, mixed>>
  BY DEF PoolRuns
<1>2. /\ debounced' \in {debounced, subscribed} /\ (debounced' # debounced => subscribed # 0)
      /\ phase' \in {phase, "error"}
  BY DEF PoolRuns, Hear
<1>3. PoolInv' /\ \A t \in Tasks : \A s \in {"none", "completed"} : status[t] = s => status'[t] = s
  BY <1>1, PoolKeeps, PoolStatus DEF FlowInv
<1>4. ~mixed' /\ file' # 0 =>
        debounced' \in {0, file'} /\ direct' \subseteq {file'} /\ subscribed' \in {0, file'}
  BY <1>1, <1>2 DEF FlowInv
<1>5. UploadsWhatWasValidated'
  BY <1>1 DEF FlowInv, UploadsWhatWasValidated
<1>6. QED
  BY <1>1, <1>2, <1>3, <1>4, <1>5 DEF FlowInv

(* The steps of the page that the pool has no part in. *)
LEMMA PageKeeps ==
  ASSUME FlowInv, UNCHANGED <<poolVars, selected, subscribed, mixed>>,
         RepeatedError \/ Validate \/ Answers \/ Reset \/ UNCHANGED flowVars
  PROVE  FlowInv' /\ UNCHANGED status
<1>1. PoolInv' /\ UNCHANGED <<status, selected, subscribed, mixed>>
  BY DEF FlowInv, poolVars, PoolInv, HasFailed
<1>2. CASE RepeatedError
  BY <1>1, <1>2 DEF RepeatedError, FlowInv, UploadsWhatWasValidated
<1>3. CASE Validate
  <2>1. debounced # 0 /\ debounced \in Tasks /\ debounced' = 0 /\ UNCHANGED <<file, direct>>
    BY <1>3, NumbersOfTasks DEF Validate, FlowInv
  <2>2. /\ phase' \in {phase, "error"} /\ jobCode' \in {jobCode, TRUE}
        /\ \/ run' = run
           \/ file # 0 /\ run' = [run EXCEPT ![debounced] = [file |-> file, step |-> "job"]]
    BY <1>3 DEF Validate
  <2>3. run' \in [Tasks -> [file : 0..MaxFiles, step : Steps]]
    BY <2>2 DEF FlowInv, Steps
  <2>4. UploadsWhatWasValidated'
    <3>1. CASE run' = run
      BY <1>1, <3>1 DEF FlowInv, UploadsWhatWasValidated
    <3>2. CASE file # 0 /\ run' = [run EXCEPT ![debounced] = [file |-> file, step |-> "job"]]
      <4>1. ~mixed => debounced = file
        BY <2>1, <3>2 DEF FlowInv
      <4>2. run'[debounced].file = file /\ \A t \in Tasks : t # debounced => run'[t] = run[t]
        BY <2>1, <3>2 DEF FlowInv
      <4>3. QED
        BY <1>1, <4>1, <4>2 DEF FlowInv, UploadsWhatWasValidated
    <3>3. QED
      BY <2>2, <3>1, <3>2
  <2>5. /\ phase' \in {"idle", "validating", "uploading", "processing", "error"}
        /\ jobCode' \in BOOLEAN /\ debounced' \in 0..MaxFiles
    <3>1. 0 \in 0..MaxFiles
      BY NumbersOfTasks
    <3>2. QED
      BY <2>1, <2>2, <3>1 DEF FlowInv
  <2>6. ~mixed' /\ file' # 0 =>
          debounced' \in {0, file'} /\ direct' \subseteq {file'} /\ subscribed' \in {0, file'}
    BY <1>1, <2>1 DEF FlowInv
  <2>7. QED
    BY <1>1, <2>1, <2>3, <2>4, <2>5, <2>6 DEF FlowInv
<1>4. ASSUME NEW t \in Tasks, DirectEnds(t) PROVE FlowInv'
  <2>1. /\ t \in direct /\ direct' = direct \ {t} /\ UNCHANGED <<file, jobCode, run>>
        /\ debounced' \in {debounced, t} /\ phase' \in {phase, "error"}
    BY <1>4 DEF DirectEnds
  <2>2. t \in 0..MaxFiles
    BY NumbersOfTasks
  <2>3. QED
    BY <1>1, <2>1, <2>2 DEF FlowInv, UploadsWhatWasValidated
<1>5. ASSUME NEW t \in Tasks, JobAnswer(t) \/ UploadAnswer(t) PROVE FlowInv'
  <2>1. /\ UNCHANGED <<file, jobCode, direct, debounced>>
        /\ phase' \in {"uploading", "processing", "error"}
        /\ \/ run' = [run EXCEPT ![t].step = "upload"]
           \/ run' = [run EXCEPT ![t] = NoRun]
    BY <1>5 DEF JobAnswer, UploadAnswer
  <2>2. 0 \in 0..MaxFiles
    BY NumbersOfTasks
  <2>3. /\ run' \in [Tasks -> [file : 0..MaxFiles, step : Steps]]
        /\ \A u \in Tasks : run'[u].file \in {0, run[u].file}
    BY <2>1, <2>2 DEF FlowInv, Steps, NoRun
  <2>4. QED
    BY <1>1, <2>1, <2>3 DEF FlowInv, UploadsWhatWasValidated
<1>6. CASE Reset
  <2>1. 0 \in 0..MaxFiles
    BY NumbersOfTasks
  <2>2. /\ phase' = "idle" /\ file' = 0 /\ jobCode' = FALSE
        /\ UNCHANGED <<direct, debounced, run>>
    BY <1>6 DEF Reset
  <2>3. UploadsWhatWasValidated'
    BY <1>1, <2>2 DEF FlowInv, UploadsWhatWasValidated
  <2>4. QED
    BY <1>1, <2>1, <2>2, <2>3 DEF FlowInv
<1>7. CASE UNCHANGED flowVars
  BY <1>1, <1>7 DEF flowVars, FlowInv, UploadsWhatWasValidated
<1>8. QED
  BY <1>1, <1>2, <1>3, <1>4, <1>5, <1>6, <1>7 DEF Answers

LEMMA FlowStart == Init => FlowInv
<1> SUFFICES ASSUME Init PROVE FlowInv
  OBVIOUS
<1>1. PoolInv /\ \A t \in Tasks : status[t] = "none"
  BY PoolStart DEF Init, PoolInit
<1>2. 0 \in 0..MaxFiles
  BY NumbersOfTasks
<1>3. QED
  BY <1>1, <1>2 DEF Init, FlowInv, NoRun, Steps, UploadsWhatWasValidated

LEMMA FlowNext ==
  ASSUME FlowInv, [Next]_vars
  PROVE  FlowInv' /\ \A t \in Tasks : status[t] = "completed" => status'[t] = "completed"
<1>1. ASSUME NEW large \in BOOLEAN, Select(large)
      PROVE  FlowInv' /\ \A t \in Tasks : status[t] = "completed" => status'[t] = "completed"
  BY <1>1, SelectKeeps
<1>2. CASE PoolRuns
  BY <1>2, PoolRunsKeeps
<1>3. CASE RepeatedError \/ Validate \/ Answers \/ Reset \/ UNCHANGED vars
  <2>1. UNCHANGED <<poolVars, selected, subscribed, mixed>>
    BY <1>3 DEF RepeatedError, Validate, Answers, DirectEnds, JobAnswer, UploadAnswer, Reset, vars, flowVars
  <2>2. RepeatedError \/ Validate \/ Answers \/ Reset \/ UNCHANGED flowVars
    BY <1>3 DEF vars
  <2>3. QED
    BY <2>1, <2>2, PageKeeps
<1>4. QED
  BY <1>1, <1>2, <1>3 DEF Next

LEMMA FlowInvariant == Spec => []FlowInv
<1>1. Init => FlowInv
  BY FlowStart
<1>2. FlowInv /\ [Next]_vars => FlowInv'
  BY FlowNext
<1>3. QED
  BY <1>1, <1>2, PTL DEF Spec

(* Every variable of the page and of the pool keeps to its values: no      *)
(* message is misaddressed, no task is known that is not being parsed, and *)
(* there are never more timers of processQueue than tasks were started.    *)
THEOREM UploadTypes == Spec => []TypeOK
<1>1. FlowInv => TypeOK
  BY PoolTypes DEF FlowInv, TypeOK
<1>2. QED
  BY <1>1, FlowInvariant, PTL

(* Tasks wait in the order of their selection, and only because all        *)
(* workers are busy or one could not be loaded, for any number of workers  *)
(* and files and whatever is cancelled (processQueue, handleWorkerMessage).*)
THEOREM PoolNeverIdles == Spec => []NoIdleWorker
<1>1. FlowInv => NoIdleWorker
  BY PoolTypes DEF FlowInv
<1>2. QED
  BY <1>1, FlowInvariant, PTL

(* What is uploaded was validated, if no selection was mixed with an       *)
(* earlier one (validateAndProcessResult, startUpload).                    *)
THEOREM UploadSafety == Spec => []UploadsWhatWasValidated
<1>1. FlowInv => UploadsWhatWasValidated
  BY DEF FlowInv
<1>2. QED
  BY <1>1, FlowInvariant, PTL

(* A result that the page has is never taken back by a late verdict, a     *)
(* cancellation or the failure of another worker.                          *)
THEOREM ResultsFinal == Spec => CompletedIsFinal
<1>1. FlowInv /\ [Next]_vars
        => [\A t \in Tasks : status[t] = "completed" => status'[t] = "completed"]_poolVars
  BY FlowNext
<1>2. QED
  BY <1>1, FlowInvariant, PTL DEF Spec, CompletedIsFinal
=============================================================================
