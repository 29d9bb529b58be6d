--------------------------- MODULE MCCircuitBreaker ---------------------------
(***************************************************************************)
(* Small instances of CircuitBreaker.                                      *)
(***************************************************************************)
EXTENDS CircuitBreaker, TLC

\* Requests are alike when none of them retries.
Alike == Permutations(Requests)
=============================================================================
