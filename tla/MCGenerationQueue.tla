-------------------------- MODULE MCGenerationQueue --------------------------
(***************************************************************************)
(* GenerationQueue for TLC: worker slots are interchangeable. The safety    *)
(* runs use the symmetry, the liveness runs do not.                        *)
(***************************************************************************)
EXTENDS GenerationQueue, TLC

Symmetry == Permutations(Workers)
=============================================================================
