------------------------ MODULE MCSnapshotPublication ------------------------
(***************************************************************************)
(* Small instances of SnapshotPublication.                                 *)
(***************************************************************************)
EXTENDS SnapshotPublication, TLC

Bounds(m, r, d, p, f) ==
    "mutation" :> m @@ "refresh" :> r @@ "discovery" :> d @@ "preset" :> p @@ "fault" :> f

EveryKind == Bounds(1, 1, 1, 2, 1)
=============================================================================
