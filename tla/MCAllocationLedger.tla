------------------------- MODULE MCAllocationLedger -------------------------
(* Instances of GuardMetrics and its AllocationLedger for TLC: two         *)
(* payments and two invoices.                                              *)
EXTENDS GuardMetrics, TLC

MCPayAmount == "p1" :> 3 @@ "p2" :> 2
MCInvAmount == "i1" :> 3 @@ "i2" :> 2

SomeLines == [inv : {"i1", "i2"}, amt : 1..2]
LineSeqs == {<<l>> : l \in SomeLines} \cup {<<k, l>> : k \in SomeLines, l \in SomeLines}

ActorSymmetry == Permutations(Actors)

Partial == {[op |-> "partial", pay |-> p, lines |-> s] : p \in Payments, s \in LineSeqs}
\* A line with amount 0 and one that no invoice can hold.
OddLines ==
  {[op |-> "partial", pay |-> "p1", lines |-> <<[inv |-> "i1", amt |-> n], [inv |-> "i2", amt |-> m]>>]
     : n \in {0, 3}, m \in {3}}
Full == {[op |-> "full", pay |-> p, lines |-> <<[inv |-> i, amt |-> 0]>>]
           : p \in Payments, i \in {"i1", "i2"}}

\* In amounts that fit the invoice and one that does not.
ManualTo ==
  {[op |-> "manual", pay |-> "p1", lines |-> <<[inv |-> "i2", amt |-> n]>>] : n \in {1, 3}}
    \cup {[op |-> "manual", pay |-> "p2", lines |-> <<[inv |-> i, amt |-> 2]>>] : i \in {"i1", "i2"}}

\* The same two lines of p1 in both orders: sent twice, they meet each
\* other's keys.
SameLines ==
  LET k == [inv |-> "i1", amt |-> 1]
      l == [inv |-> "i2", amt |-> 2] IN
  {[op |-> "partial", pay |-> "p1", lines |-> s] : s \in {<<k, l>>, <<l, k>>}}

\* One line of either payment, or two of p1, those of i1 first but for SameLines.
FewPartial ==
  {r \in Partial :
     \/ Len(r.lines) = 1
     \/ r.pay = "p1" /\ (r.lines[1].inv = "i2" => r.lines[2].inv = "i2")}
Sequential == FewPartial \cup SameLines \cup OddLines \cup Full \cup ManualTo

\* What an idle actor last worked on does not matter: the next request sets it anew.
LiveState ==
  <<ledgerVars, cached, unseen, requests, guardVars,
    [a \in Actors |->
       IF pc[a] = "idle" THEN <<>>
       ELSE <<pc[a], req[a], line[a], pend[a], pendKeys[a], pendFlag[a], aborted[a], todo[a],
              IF pc[a] = "cWrite" THEN <<seen[a], missed[a]>> ELSE <<>>, tries[a]>>]>>
=============================================================================
