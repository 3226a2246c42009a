------------------------------- MODULE AIBudget --------------------------------
(***************************************************************************)
(* What ai_budget.py promises: the calls of external AI that were granted    *)
(* within the last hour are never more than the limit of their kind.         *)
(***************************************************************************)
EXTENDS Naturals

CONSTANTS Kinds, Limit

VARIABLE used   \* ai_usage_events of each kind that are younger than an hour

TypeOK == used \in [Kinds -> Nat]

Init == used = [k \in Kinds |-> 0]

Grant(k) ==
  /\ used[k] < Limit[k]
  /\ used' = [used EXCEPT ![k] = @ + 1]

Expire(k) ==
  /\ used[k] > 0
  /\ used' = [used EXCEPT ![k] = @ - 1]

Next == \E k \in Kinds : Grant(k) \/ Expire(k)

Spec == Init /\ [][Next]_used
================================================================================
