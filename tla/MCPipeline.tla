------------------------------ MODULE MCPipeline -------------------------------
(***************************************************************************)
(* Pipeline for TLC: two workers, whose tasks have different plans, and two   *)
(* photos.                                                                 *)
(***************************************************************************)
EXTENDS Pipeline

CONSTANTS p1, p2

A(w, n, e, v, r, k) ==
  [wanted |-> w, count |-> n, effect |-> e, vision |-> v, enrich |-> r, rank |-> k]

\* Two photos for a collage, a photo that a user named, everything that asks an
\* AI for a picture (with a ranking), and a caption.
MixedPlans == {A({}, 2, "local", FALSE, FALSE, FALSE), A({p1}, 1, "local", FALSE, FALSE, FALSE),
               A({}, 1, "ai", TRUE, TRUE, TRUE), A({}, 1, "museum", TRUE, FALSE, FALSE)}

\* Nothing in the registry, or a photo that is marked and one that was returned.
MixedBefore == {[p \in Photos |-> {}],
                [p \in Photos |-> IF p = p1 THEN {"accepted", "pending"}
                                  ELSE {"accepted", "released"}]}

LimitOne == [k \in Kinds |-> 1]
================================================================================
