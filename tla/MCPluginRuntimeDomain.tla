----------------------- MODULE MCPluginRuntimeDomain -----------------------
(***************************************************************************)
(* Small instances of PluginRuntimeDomain.                                 *)
(***************************************************************************)
EXTENDS PluginRuntimeDomain, TLC

\* Requests and transitions are interchangeable.
Threads == Permutations(Requests) \cup Permutations(Transitions)
=============================================================================
