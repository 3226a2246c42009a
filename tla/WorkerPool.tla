----------------------------- MODULE WorkerPool -----------------------------
(***************************************************************************)
(* What the generation queue promises, without its database rows, its      *)
(* requests and its processes: at most Limit tasks are executed at a time, *)
(* none of them twice at once, and none that already has a result.         *)
(***************************************************************************)
EXTENDS Naturals, FiniteSets

CONSTANTS Tasks, Limit

VARIABLES
  executing,  \* tasks a process executes
  results     \* tasks with a result to review, or reviewed

vars == <<executing, results>>

Init == executing = {} /\ results = {}

Start(t) ==
  /\ t \notin executing \cup results
  /\ Cardinality(executing) < Limit
  /\ executing' = executing \cup {t}
  /\ UNCHANGED results

\* The execution hands in its result and goes on (notifications follow).
Deliver(t) ==
  /\ t \in executing
  /\ results' = results \cup {t}
  /\ UNCHANGED executing

Stop(t) ==
  /\ t \in executing
  /\ executing' = executing \ {t}
  /\ UNCHANGED results

\* A failure after the result was delivered takes it back.
Withdraw(t) ==
  /\ t \in results
  /\ results' = results \ {t}
  /\ executing' \in {executing, executing \ {t}}

StopAll ==
  /\ executing' = {}
  /\ UNCHANGED results

Next ==
  \/ \E t \in Tasks : Start(t) \/ Deliver(t) \/ Stop(t) \/ Withdraw(t)
  \/ StopAll

Spec == Init /\ [][Next]_vars
=============================================================================
