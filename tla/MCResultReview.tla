--------------------------- MODULE MCResultReview ---------------------------
(***************************************************************************)
(* ResultReview for TLC.                                                    *)
(***************************************************************************)
EXTENDS ResultReview, TLC

Symmetry == Permutations(Requests)
=============================================================================
