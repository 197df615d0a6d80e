--------------------------- MODULE MCModelRouter ---------------------------
(* Instances of ModelRouter for TLC.                                       *)
EXTENDS ModelRouter, TLC

(* Requests are interchangeable.   *)
RequestSymmetry == Permutations(Requests)

OneToken == {1}
=============================================================================
