---------------------------- MODULE MCAgentQueue ----------------------------
(***************************************************************************)
(* AgentQueue for TLC: invocations and schedules are interchangeable. The   *)
(* safety runs use the symmetry, the liveness run does not.                *)
(***************************************************************************)
EXTENDS AgentQueue, TLC

Symmetry == Permutations(Agents) \cup Permutations(Schedules)
=============================================================================
