------------------------ MODULE MCExecutionPlanCache ------------------------
(***************************************************************************)
(* Small instances of ExecutionPlanCache.                                  *)
(***************************************************************************)
EXTENDS ExecutionPlanCache, TLC

Threads == Permutations(Readers)
=============================================================================
