-------------------------- MODULE MCCircuitBreaker --------------------------
(* Instances of CircuitBreaker for TLC.                                    *)
EXTENDS CircuitBreaker, TLC

(* Requests are interchangeable; used by the runs without liveness only.   *)
RequestSymmetry == Permutations(Requests)
=============================================================================
