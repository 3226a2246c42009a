---------------------------- MODULE MCHostRender ----------------------------
(***************************************************************************)
(* HostRender for TLC: the schedules are interchangeable.                   *)
(***************************************************************************)
EXTENDS HostRender, TLC

Symmetry == Permutations(Schedules)
=============================================================================
