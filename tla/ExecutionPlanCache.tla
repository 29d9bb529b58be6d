------------------------- MODULE ExecutionPlanCache -------------------------
(***************************************************************************)
(* The plugin execution plan every request reads                           *)
(* (GatewayPluginExecutionPlanProvider.Current): a plan compiled from the  *)
(* published gateway snapshot and cached until another snapshot is         *)
(* published.  A reader compares the cached snapshot with the published    *)
(* one without a lock and compiles under _sync when they differ; each      *)
(* volatile access is a step.                                              *)
(*                                                                         *)
(* A snapshot stands for its version (versions are unique, see             *)
(* SnapshotPublication), a plan for the version it was compiled from.      *)
(***************************************************************************)
EXTENDS Naturals

CONSTANTS
    Readers,        \* threads that read the plan
    MaxVersion,     \* bound on publications
    Null            \* no snapshot cached yet, no lock holder

ASSUME CacheAssumption == MaxVersion \in Nat /\ Null \notin Readers /\ Null \notin Nat

VARIABLES
    published,  \* _publisher.Current
    snapshot,   \* _snapshot
    plan,       \* _plan; 0 is GatewayPluginExecutionPlan.Empty
    sync,       \* the reader inside lock (_sync)
    reader      \* each reader: where it is and the snapshot it has read

cacheVars == <<published, snapshot, plan, sync, reader>>

Versions == 0 .. MaxVersion
Steps == {"idle", "compare", "fast", "lock", "locked", "compiled", "stored"}

CacheTypeOK ==
    /\ published \in Versions
    /\ snapshot \in Versions \cup {Null}
    /\ plan \in Versions
    /\ sync \in Readers \cup {Null}
    /\ reader \in [Readers -> [pc : Steps, seen : Versions]]

CacheInit ==
    /\ published = 0
    /\ snapshot = Null
    /\ plan = 0
    /\ sync = Null
    /\ reader = [r \in Readers |-> [pc |-> "idle", seen |-> 0]]

-----------------------------------------------------------------------------
\* A publisher swaps in a newer snapshot.
Publish ==
    /\ published < MaxVersion
    /\ published' = published + 1
    /\ UNCHANGED <<snapshot, plan, sync, reader>>

Goto(r, s) == reader' = [reader EXCEPT ![r].pc = s]

ReadPublished(r) ==
    /\ reader[r].pc = "idle"
    /\ reader' = [reader EXCEPT ![r] = [pc |-> "compare", seen |-> published]]
    /\ UNCHANGED <<published, snapshot, plan, sync>>

\* ReferenceEquals(snapshot, Volatile.Read(ref _snapshot))
CompareUnlocked(r) ==
    /\ reader[r].pc = "compare"
    /\ Goto(r, IF snapshot = reader[r].seen THEN "fast" ELSE "lock")
    /\ UNCHANGED <<published, snapshot, plan, sync>>

\* return Volatile.Read(ref _plan)
ReturnUnlocked(r) ==
    /\ reader[r].pc = "fast"
    /\ Goto(r, "idle")
    /\ UNCHANGED <<published, snapshot, plan, sync>>

\* Mutant of EnterLock: whoever has waited takes what is cached by then.
EnterLock_TrustsFirst(r) ==
    /\ reader[r].pc = "lock" /\ sync = Null
    /\ sync' = r
    /\ Goto(r, IF snapshot = Null THEN "locked" ELSE "stored")
    /\ UNCHANGED <<published, snapshot, plan>>

EnterLock(r) ==
    /\ reader[r].pc = "lock" /\ sync = Null
    /\ sync' = r
    /\ Goto(r, IF snapshot = reader[r].seen THEN "stored" ELSE "locked")
    /\ UNCHANGED <<published, snapshot, plan>>

\* Compile(snapshot), Volatile.Write(ref _plan, compiled)
StorePlan(r) ==
    /\ reader[r].pc = "locked"
    /\ plan' = reader[r].seen
    /\ Goto(r, "compiled")
    /\ UNCHANGED <<published, snapshot, sync>>

\* Mutant of StoreSnapshot: the snapshot published by now is recorded, not the
\* one that was compiled.
StoreSnapshot_Latest(r) ==
    /\ reader[r].pc = "compiled"
    /\ snapshot' = published
    /\ Goto(r, "stored")
    /\ UNCHANGED <<published, plan, sync>>

\* Volatile.Write(ref _snapshot, snapshot)
StoreSnapshot(r) ==
    /\ reader[r].pc = "compiled"
    /\ snapshot' = reader[r].seen
    /\ Goto(r, "stored")
    /\ UNCHANGED <<published, plan, sync>>

\* return _plan, leaving the lock
ReturnLocked(r) ==
    /\ reader[r].pc = "stored"
    /\ sync' = Null
    /\ Goto(r, "idle")
    /\ UNCHANGED <<published, snapshot, plan>>

Current(r) ==
    \/ ReadPublished(r) \/ CompareUnlocked(r) \/ ReturnUnlocked(r)
    \/ EnterLock(r) \/ StorePlan(r) \/ StoreSnapshot(r) \/ ReturnLocked(r)

CacheNext == Publish \/ \E r \in Readers : Current(r)

CacheSpec == CacheInit /\ [][CacheNext]_cacheVars

\* Requests keep coming, and a reader that can go on does.
FairCacheSpec == CacheSpec /\ \A r \in Readers : WF_cacheVars(Current(r))

-----------------------------------------------------------------------------
(* Properties *)

\* Whenever nobody is inside the lock, the cached plan is the plan of the
\* cached snapshot, whatever order slow readers of older snapshots came in.
CacheCoherent == sync = Null => snapshot = Null \/ plan = snapshot

\* A reader that went through the lock leaves with the plan of the very
\* snapshot it read, however many were published meanwhile.
LockedAnswerExact == \A r \in Readers : reader[r].pc = "stored" => plan = reader[r].seen

\* Once publications stop, traffic brings the cache to the last snapshot and
\* keeps it there: no reader that still holds an older one undoes it for good.
Converges == <>[](plan = published /\ snapshot = published)

=============================================================================
