------------------------- MODULE SnapshotPublication -------------------------
(***************************************************************************)
(* Who publishes what the gateway executes.  Two published objects follow  *)
(* three sources:                                                          *)
(*                                                                         *)
(*   snap  GatewaySnapshotPublisher.Current, the routes and the enabled    *)
(*         plugin bindings; a snapshot must have a newer version;          *)
(*   prov  AneiangProxyConfigProvider._current, the routes YARP serves.    *)
(*                                                                         *)
(* The sources are the working set (ws, its revision, edited under the     *)
(* service's semaphore), the table plugin_bindings (db), and the endpoints *)
(* that service discovery resolves.  Four kinds of threads publish:        *)
(*                                                                         *)
(*   pub   an edit or RefreshConfig, holding the semaphore                 *)
(*         (DynamicConfigPublisher.Publish);                               *)
(*   mu    a change of plugin bindings, holding PublishGate                *)
(*         (PluginBindingsController), which ends with RefreshConfig;      *)
(*   disc  the discovery loop, holding neither;                            *)
(*   pre   PresetsController.ApplyPreset, which only writes the table.     *)
(*                                                                         *)
(* What the edits are and how they are saved is GatewayConfig; the runtime *)
(* domain a binding change prepares and commits is PluginRuntimeDomain.    *)
(* Here a routing table is the revision it was built from and the endpoints *)
(* in it, and a binding's row is its configuration, Off when disabled.     *)
(***************************************************************************)
EXTENDS Naturals, FiniteSets

CONSTANTS
    Bindings,   \* ids of plugin bindings
    Configs,    \* what a binding's row can hold
    Off,        \* the row of a disabled binding
    None,       \* no row
    Endpoints,  \* endpoint sets discovery can resolve
    Static,     \* the endpoints of the working set
    MaxEdits,   \* bound on edits of the working set
    Limit,      \* bound on every other kind of event
    MaxKinds    \* bound on the kinds of them in one behaviour

Kinds == {"mutation", "refresh", "discovery", "preset", "fault"}

ASSUME PublicationAssumption ==
    /\ Off \in Configs /\ None \notin Configs /\ Static \notin Endpoints
    /\ MaxEdits \in Nat /\ Limit \in [Kinds -> Nat] /\ MaxKinds \in Nat

VARIABLES
    ws,         \* State.Version, and the revision of State.Config
    db,         \* table plugin_bindings
    snap,       \* GatewaySnapshotPublisher.Current
    prov,       \* AneiangProxyConfigProvider._current
    pub,        \* the thread that holds the semaphore and publishes
    mu,         \* the request that holds PublishGate
    disc,       \* the discovery loop
    pre,        \* an ApplyPreset request
    count       \* events so far, by kind

vars == <<ws, db, snap, prov, pub, mu, disc, pre, count>>

Rows == [Bindings -> Configs \cup {None}]
\* The rows the compiler keeps: enabled ones.
Enabled(rows) == [b \in Bindings |-> IF rows[b] = Off THEN None ELSE rows[b]]
NoRows == [b \in Bindings |-> None]
StaticRoutes(n) == [ws |-> n, eps |-> Static]
Happens(kind) ==
    /\ count[kind] < Limit[kind]
    /\ Cardinality({k \in Kinds : k = kind \/ count[k] > 0}) <= MaxKinds
    /\ count' = [count EXCEPT ![kind] = @ + 1]

IdlePub == [pc |-> "idle", by |-> "edit", version |-> 0, rows |-> NoRows]
\* lost (history): rows the change has written and a preset has changed since.
IdleMu == [pc |-> "idle", want |-> NoRows, ids |-> {}, todo |-> {}, lost |-> {}, prev |-> NoRows,
           rows |-> NoRows, version |-> 0, routes |-> StaticRoutes(0)]
IdleDisc == [pc |-> "idle", version |-> 0, rows |-> NoRows, routes |-> StaticRoutes(0)]
IdlePre == [pc |-> "idle", id |-> None, row |-> None]

Routing == [ws : Nat, eps : Endpoints \cup {Static}]

TypeOK ==
    /\ ws \in 0 .. MaxEdits
    /\ db \in Rows
    /\ snap \in [version : Nat, routes : Routing, rows : Rows]
    /\ prov \in [version : Nat, routes : Routing]
    /\ pub \in [pc : {"idle", "version", "compile", "publish", "apply"},
                by : {"edit", "refresh", "mutation"}, version : Nat, rows : Rows]
    /\ mu \in [pc : {"idle", "version", "routes", "prepare", "apply", "commit", "publish",
                     "rollback", "refresh", "refreshing"},
               want : Rows, ids : SUBSET Bindings, todo : SUBSET Bindings,
               lost : SUBSET Bindings, prev : Rows, rows : Rows, version : Nat,
               routes : Routing]
    /\ mu.todo \subseteq mu.ids /\ (mu.pc \in {"apply", "rollback"} => mu.todo # {})
    /\ disc \in [pc : {"idle", "version", "compile", "publish", "update"},
                 version : Nat, rows : Rows, routes : Routing]
    /\ pre \in [pc : {"idle", "write"}, id : Bindings \cup {None}, row : Configs \cup {None}]
    /\ \A k \in Kinds : count[k] \in 0 .. Limit[k]

\* Startup has published the loaded configuration as snapshot 1 (State.Version is 0).
Init ==
    /\ ws = 0
    /\ db \in [Bindings -> {None} \cup Configs]
    /\ snap = [version |-> 1, routes |-> StaticRoutes(0), rows |-> Enabled(db)]
    /\ prov = [version |-> 0, routes |-> StaticRoutes(0)]
    /\ pub = IdlePub /\ mu = IdleMu /\ disc = IdleDisc /\ pre = IdlePre
    /\ count = [k \in Kinds |-> 0]

\* Mutant of Publishes: a snapshot that lost the race takes the next version.
Publishes_Rebased(s) == snap' = [s EXCEPT !.version = IF @ > snap.version THEN @ ELSE snap.version + 1]

\* GatewaySnapshotPublisher.Publish: compare and swap, or an exception.
Publishes(s) == s.version > snap.version /\ snap' = s
IsStale(s) == s.version <= snap.version

-----------------------------------------------------------------------------
(* DynamicConfigPublisher.Publish, under the semaphore *)

StartPublish(by) == pub.pc = "idle" /\ pub' = [IdlePub EXCEPT !.pc = "version", !.by = by]

\* ExecuteWithLockAsync: the edit, IncrementVersion.
Edit ==
    /\ ws < MaxEdits
    /\ ws' = ws + 1
    /\ StartPublish("edit")
    /\ UNCHANGED <<db, snap, prov, mu, disc, pre, count>>

\* RefreshConfig called for another reason than a change of bindings (plugin toggles).
RefreshConfig ==
    /\ Happens("refresh")
    /\ StartPublish("refresh")
    /\ UNCHANGED <<ws, db, snap, prov, mu, disc, pre>>

\* Math.Max(Current.Version + 1, Math.Max(1, version))
ChooseVersion ==
    /\ pub.pc = "version"
    /\ pub' = [pub EXCEPT !.pc = "compile",
                          !.version = IF snap.version + 1 > ws THEN snap.version + 1 ELSE ws]
    /\ UNCHANGED <<ws, db, snap, prov, mu, disc, pre, count>>

CompileStored ==
    /\ pub.pc = "compile"
    /\ pub' = [pub EXCEPT !.pc = "publish", !.rows = Enabled(db)]
    /\ UNCHANGED <<ws, db, snap, prov, mu, disc, pre, count>>

Candidate == [version |-> pub.version, routes |-> StaticRoutes(ws), rows |-> pub.rows]

PublishSnapshot ==
    /\ pub.pc = "publish"
    /\ Publishes(Candidate)
    /\ pub' = [pub EXCEPT !.pc = "apply"]
    /\ UNCHANGED <<ws, db, prov, mu, disc, pre, count>>

\* A binding change whose RefreshConfig returned, or threw, releases PublishGate.
EndsMutation == mu' = IF pub.by = "mutation" THEN IdleMu ELSE mu

\* ApplyFromDynamic with State.Version; the semaphore is released.
ApplyFromDynamic ==
    /\ pub.pc = "apply"
    /\ prov' = [version |-> ws, routes |-> StaticRoutes(ws)]
    /\ pub' = IdlePub
    /\ EndsMutation
    /\ UNCHANGED <<ws, db, snap, disc, pre, count>>

\* Mutant of PublishFails: the semaphore is not released.
PublishFails_KeepsSemaphore ==
    /\ \/ pub.pc = "compile" /\ Happens("fault")
       \/ pub.pc = "publish" /\ IsStale(Candidate) /\ UNCHANGED count
    /\ EndsMutation
    /\ UNCHANGED <<ws, db, snap, prov, pub, disc, pre>>

\* The compiler's reads throw, or another publisher was faster: the working set keeps the
\* edit, neither published object does.
PublishFails ==
    /\ \/ pub.pc = "compile" /\ Happens("fault")
       \/ pub.pc = "publish" /\ IsStale(Candidate) /\ UNCHANGED count
    /\ pub' = IdlePub
    /\ EndsMutation
    /\ UNCHANGED <<ws, db, snap, prov, disc, pre>>

-----------------------------------------------------------------------------
(* PluginBindingsController: one change of bindings at a time *)

\* Takes PublishGate and reads the table: create, update and enable write rows, delete
\* removes the ones that exist.
BeginMutation(ids, c) ==
    /\ mu.pc = "idle" /\ ids # {}
    /\ c = None => \A b \in ids : db[b] # None
    /\ Happens("mutation")
    /\ LET want == [b \in Bindings |-> IF b \in ids THEN c ELSE None]
       IN mu' = [IdleMu EXCEPT !.pc = "version", !.want = want, !.ids = ids, !.todo = ids, !.prev = db,
                  !.rows = [b \in Bindings |-> IF b \in ids THEN c ELSE db[b]]]
    /\ UNCHANGED <<ws, db, snap, prov, pub, disc, pre>>

\* _snapshotPublisher.Current
ReadVersion ==
    /\ mu.pc = "version"
    /\ mu' = [mu EXCEPT !.pc = "routes", !.version = snap.version + 1]
    /\ UNCHANGED <<ws, db, snap, prov, pub, disc, pre, count>>

\* Mutant of ReadRoutes: the routes that YARP serves instead of the working set.
ReadRoutes_LastPublished ==
    /\ mu.pc = "routes"
    /\ mu' = [mu EXCEPT !.pc = "prepare", !.routes = prov.routes]
    /\ UNCHANGED <<ws, db, snap, prov, pub, disc, pre, count>>

\* GetRoutes and GetClusters, without the semaphore
ReadRoutes ==
    /\ mu.pc = "routes"
    /\ mu' = [mu EXCEPT !.pc = "prepare", !.routes = StaticRoutes(ws)]
    /\ UNCHANGED <<ws, db, snap, prov, pub, disc, pre, count>>

\* CompileAsync, PrepareAsync and CheckHealthAsync: an exception or an unhealthy candidate
\* ends the request before anything was written.
Prepare(ok) ==
    /\ mu.pc = "prepare"
    /\ mu' = IF ok THEN [mu EXCEPT !.pc = "apply"] ELSE IdleMu
    /\ UNCHANGED <<ws, db, snap, prov, pub, disc, pre, count>>

\* One UpsertBindingAsync or DeleteBindingAsync of applyAsync.
ApplyRow(b) ==
    /\ mu.pc = "apply" /\ b \in mu.todo
    /\ db' = [db EXCEPT ![b] = mu.want[b]]
    /\ mu' = [mu EXCEPT !.todo = @ \ {b}, !.pc = IF mu.todo = {b} THEN "commit" ELSE "apply"]
    /\ UNCHANGED <<ws, snap, prov, pub, disc, pre, count>>

\* It throws: applied is still false, so nothing is rolled back.
ApplyFails ==
    /\ mu.pc = "apply"
    /\ Happens("fault")
    /\ mu' = IdleMu
    /\ UNCHANGED <<ws, db, snap, prov, pub, disc, pre>>

\* CommitAsync succeeds, or throws (cancelled): rollbackAsync.
CommitRuntime ==
    /\ mu.pc = "commit"
    /\ mu' = [mu EXCEPT !.pc = "publish"]
    /\ UNCHANGED <<ws, db, snap, prov, pub, disc, pre, count>>

CommitFails ==
    /\ mu.pc = "commit"
    /\ Happens("fault")
    /\ mu' = [mu EXCEPT !.pc = "rollback", !.todo = mu.ids]
    /\ UNCHANGED <<ws, db, snap, prov, pub, disc, pre>>

MutationSnapshot == [version |-> mu.version, routes |-> mu.routes, rows |-> Enabled(mu.rows)]

PublishMutation ==
    /\ mu.pc = "publish"
    /\ \/ Publishes(MutationSnapshot) /\ mu' = [mu EXCEPT !.pc = "refresh"]
       \/ /\ IsStale(MutationSnapshot)
          /\ mu' = [mu EXCEPT !.pc = "rollback", !.todo = mu.ids]
          /\ UNCHANGED snap
    /\ UNCHANGED <<ws, db, prov, pub, disc, pre, count>>

\* One call of rollbackAsync; if one throws, the rest is skipped and the request ends.
RollbackRow(b) ==
    /\ mu.pc = "rollback" /\ b \in mu.todo
    /\ \/ /\ db' = [db EXCEPT ![b] = mu.prev[b]]
          /\ mu' = IF mu.todo = {b} THEN IdleMu ELSE [mu EXCEPT !.todo = @ \ {b}]
          /\ UNCHANGED count
       \/ /\ Happens("fault")
          /\ mu' = IdleMu
          /\ UNCHANGED db
    /\ UNCHANGED <<ws, snap, prov, pub, disc, pre>>

\* RefreshConfig waits for the semaphore.
RefreshAfterMutation ==
    /\ mu.pc = "refresh"
    /\ StartPublish("mutation")
    /\ mu' = [mu EXCEPT !.pc = "refreshing"]
    /\ UNCHANGED <<ws, db, snap, prov, disc, pre, count>>

-----------------------------------------------------------------------------
(* ServiceDiscoveryRefreshService.PublishDestinationsAsync, and ApplyPreset *)

DiscoverEndpoints(e) ==
    /\ disc.pc = "idle"
    /\ prov.routes.eps # e
    /\ Happens("discovery")
    /\ disc' = [IdleDisc EXCEPT !.pc = "version", !.routes = [prov.routes EXCEPT !.eps = e]]
    /\ UNCHANGED <<ws, db, snap, prov, pub, mu, pre>>

DiscoveryVersion ==
    /\ disc.pc = "version"
    /\ disc' = [disc EXCEPT !.pc = "compile", !.version = snap.version + 1]
    /\ UNCHANGED <<ws, db, snap, prov, pub, mu, pre, count>>

DiscoveryCompile ==
    /\ disc.pc = "compile"
    /\ \/ disc' = [disc EXCEPT !.pc = "publish", !.rows = Enabled(db)] /\ UNCHANGED count
       \/ disc' = IdleDisc /\ Happens("fault")
    /\ UNCHANGED <<ws, db, snap, prov, pub, mu, pre>>

DiscoverySnapshot == [version |-> disc.version, routes |-> disc.routes, rows |-> disc.rows]

DiscoveryPublish ==
    /\ disc.pc = "publish"
    /\ \/ Publishes(DiscoverySnapshot) /\ disc' = [disc EXCEPT !.pc = "update"]
       \/ IsStale(DiscoverySnapshot) /\ disc' = IdleDisc /\ UNCHANGED snap
    /\ UNCHANGED <<ws, db, prov, pub, mu, pre, count>>

\* AneiangProxyConfigProvider.Update
DiscoveryUpdate ==
    /\ disc.pc = "update"
    /\ prov' = [version |-> prov.version + 1, routes |-> disc.routes]
    /\ disc' = IdleDisc
    /\ UNCHANGED <<ws, db, snap, pub, mu, pre, count>>

ApplyPresetRead(b) ==
    /\ pre.pc = "idle" /\ db[b] # None
    /\ Happens("preset")
    /\ pre' = [pc |-> "write", id |-> b, row |-> db[b]]
    /\ UNCHANGED <<ws, db, snap, prov, pub, mu, disc>>

\* The row as it was read, with the preset's configuration, whether or not it still exists.
ApplyPresetWrite(c) ==
    /\ pre.pc = "write"
    /\ (c = Off) = (pre.row = Off)
    /\ db' = [db EXCEPT ![pre.id] = c]
    /\ pre' = IdlePre
    /\ mu' = IF c = mu.want[pre.id] THEN mu
                                    ELSE [mu EXCEPT !.lost = @ \cup ({pre.id} \cap (mu.ids \ mu.todo))]
    /\ UNCHANGED <<ws, snap, prov, pub, disc, count>>

-----------------------------------------------------------------------------
PublishStep == ChooseVersion \/ CompileStored \/ PublishSnapshot \/ ApplyFromDynamic \/ PublishFails

MutationStep ==
    \/ ReadVersion \/ ReadRoutes
    \/ \E ok \in BOOLEAN : Prepare(ok)
    \/ \E b \in Bindings : ApplyRow(b) \/ RollbackRow(b)
    \/ ApplyFails \/ CommitRuntime \/ CommitFails \/ PublishMutation \/ RefreshAfterMutation

DiscoveryStep == DiscoveryVersion \/ DiscoveryCompile \/ DiscoveryPublish \/ DiscoveryUpdate

Next ==
    \/ Edit \/ RefreshConfig \/ PublishStep
    \/ \E ids \in SUBSET Bindings, c \in Configs \cup {None} : BeginMutation(ids, c)
    \/ MutationStep
    \/ \E e \in Endpoints : DiscoverEndpoints(e)
    \/ DiscoveryStep
    \/ \E b \in Bindings : ApplyPresetRead(b)
    \/ \E c \in Configs : ApplyPresetWrite(c)

Spec == Init /\ [][Next]_vars

\* A thread that can go on does.
FairSpec == Spec /\ WF_vars(PublishStep) /\ WF_vars(MutationStep)

-----------------------------------------------------------------------------
(* Properties *)

\* Until a discovery cycle runs (it edits what it read earlier, and can take an edit back), the
\* snapshot the plugins execute is never older than the routes YARP serves: a binding
\* change, which reads the working set outside the semaphore and publishes whenever it is
\* ready, cannot bring an earlier revision back (ReadVersion before ReadRoutes, and the
\* version check of the publisher).
SnapshotNotBehindRoutes == count["discovery"] = 0 => snap.routes.ws >= prov.routes.ws

\* A binding change that reports success is in force: whatever edits, refreshes, discovery
\* cycles and presets ran meanwhile, the published snapshot has each row it wrote and none
\* it deleted, unless a preset has changed that row since.
MutationReports == pub.pc = "apply" /\ pub.by = "mutation" /\ pub'.pc = "idle"
CompletedMutationVisible ==
    [][MutationReports => \A b \in mu.ids \ mu.lost : snap.rows[b] = Enabled(mu.want)[b]]_vars

\* Every binding change gives PublishGate back, however its publication and the refresh
\* behind it go.
MutationEnds == mu.pc # "idle" ~> mu.pc = "idle"

=============================================================================
