----------------------------- MODULE MCEventStream -----------------------------
(***************************************************************************)
(* TLC's instance of EventStream: two rows and two writers, so that events of *)
(* one row can be stored in either order and around those of the other; a table *)
(* that keeps one event, so that pruning makes a gap as soon as two are unread.*)
(***************************************************************************)
EXTENDS EventStream, TLC
================================================================================
