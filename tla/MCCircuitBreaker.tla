-------------------------- MODULE MCCircuitBreaker --------------------------
(***************************************************************************)
(* Small instances of CircuitBreaker for TLC.  The run of a safety         *)
(* property identifies requests up to symmetry, the run with liveness not. *)
(***************************************************************************)
EXTENDS CircuitBreaker, TLC

Symmetry == Permutations(Requests)
=============================================================================
