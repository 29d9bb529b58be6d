-------------------------- MODULE MCLogPersistence --------------------------
(* Small instances of LogPersistence for TLC. *)
EXTENDS LogPersistence
=============================================================================
