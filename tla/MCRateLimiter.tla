--------------------------- MODULE MCRateLimiter ---------------------------
(* Instances of RateLimiter for TLC.                                       *)
EXTENDS RateLimiter, TLC

(* Requests are interchangeable: none of them is named by the model.       *)
RequestSymmetry == Permutations(Requests)

(* One estimate the code must reject and two that compete for the limit.   *)
SomeEstimates == {-1, 1, 2}
UnitEstimate == {1}
=============================================================================
