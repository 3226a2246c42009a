--------------------------- MODULE MCScheduleLock ---------------------------
(***************************************************************************)
(* ScheduleLock for TLC: the processes are interchangeable. The search for  *)
(* two holders uses the symmetry, the run with liveness does not.          *)
(***************************************************************************)
EXTENDS ScheduleLock, TLC

Symmetry == Permutations(Procs)
=============================================================================
