---------------------------- MODULE GatewayConfig ----------------------------
(***************************************************************************)
(* The dynamic configuration of the gateway: the in-memory working set of  *)
(* routes and clusters (DynamicConfigState), the CRUD and batch operations *)
(* that edit it under one semaphore (RouteConfigManager,                   *)
(* ClusterConfigManager, DynamicYarpConfigService), the snapshot the proxy *)
(* serves (AneiangProxyConfigProvider), the SQLite tables the working set  *)
(* is saved to (DynamicConfigPersister and the two repositories), and the  *)
(* process start that loads them back.                                     *)
(*                                                                         *)
(* An operation runs in steps: edit + version bump, publish, then one step *)
(* per repository call of the save.  Any repository call may throw and the *)
(* process may die between any two steps.                                  *)
(*                                                                         *)
(* Identifiers stand for their case-insensitive classes (OrdinalIgnoreCase *)
(* in the code).  A route is told apart by the cluster it names, a cluster *)
(* by its destinations; match, order, transforms, policies and timestamps  *)
(* are carried along by every operation and are left out.                  *)
(***************************************************************************)
EXTENDS Naturals, Sequences

CONSTANTS
    RouteIds, ClusterIds,   \* route and cluster ids
    Uids,                   \* the GUIDs a run may draw (bound)
    DestKeys, D1,           \* destination keys; D1 is "d1", the others are "ip-<client>" keys
    Addresses, Blank,       \* destination addresses; Blank is the empty one
    DestInputs,             \* destination maps a request may carry
    Documents,              \* whole configurations offered to import and rollback
    AppSettings,            \* static configurations appsettings.json may hold at a start
    Batches,                \* sequences of route ids offered to the batch operations
    None,                   \* null / absent
    MaxVersion,             \* bound on the edits of one process life
    MaxFaults,              \* bound on the calls that throw
    MaxRestarts             \* bound on crashes and restarts

Dest == [address : Addresses, health : BOOLEAN]
Dests == [DestKeys -> Dest \cup {None}]
NoDests == [k \in DestKeys |-> None]

\* A whole configuration as a file carries it: no uid, no metadata.
Document == [routes : [RouteIds -> ClusterIds \cup {None}], clusters : [ClusterIds -> Dests \cup {None}]]

Sources == {"config", "dynamic"}
Route == [uid : Uids, cluster : ClusterIds, clusterUid : Uids \cup {None},
          source : Sources, enabled : BOOLEAN]
RouteRow == [uid : Uids, cluster : ClusterIds, clusterUid : Uids \cup {None}, source : Sources]
Cluster == [uid : Uids, source : Sources, dests : Dests]
ClusterRow == [uid : Uids, source : Sources]

ASSUME ConstantsAssumption ==
    /\ D1 \in DestKeys
    /\ Blank \in Addresses
    /\ None \notin ClusterIds \cup RouteIds \cup Uids
    /\ None \notin Dests \cup Dest
    /\ None \notin Route \cup RouteRow /\ None \notin Cluster \cup ClusterRow
    /\ DestInputs \subseteq Dests
    /\ Documents \subseteq Document
    /\ AppSettings \subseteq Document
    /\ AppSettings # {}
    /\ Batches \subseteq Seq(RouteIds)
    /\ MaxVersion \in Nat /\ MaxFaults \in Nat /\ MaxRestarts \in Nat

VARIABLES
    routes,      \* State.Config.Routes: id -> DynamicRouteConfig or None
    clusters,    \* State.Config.Clusters: id -> DynamicClusterConfig or None
    version,     \* State.Version
    provider,    \* AneiangProxyConfigProvider._current: what YARP serves
    dbRoutes,    \* table yarp_routes
    dbClusters,  \* table yarp_clusters
    dbDests,     \* table yarp_destinations, by cluster
    op,          \* the operation that holds the semaphore, and where it is
    faults, restarts,
    dirty,       \* history: "no", "failed" (last save threw), "stale" (only incremental saves since)
    since,       \* history: what saves were given of each id since the last one that left
                 \* the tables in step, and what that one was given
    served       \* history: the last publish of this process life succeeded

memory == <<routes, clusters, version>>
database == <<dbRoutes, dbClusters, dbDests>>
vars == <<routes, clusters, version, provider, dbRoutes, dbClusters, dbDests,
          op, faults, restarts, dirty, since, served>>

Provider == [routes : [RouteIds -> ClusterIds \cup {None}],
             clusters : [ClusterIds -> Dests \cup {None}], version : Nat]

Kinds == {"none", "RefreshConfig", "SaveDynamicConfig", "MarkStaticConfig",
          "AddOrUpdateRoute", "RemoveRoute", "SetRouteEnabled", "UpdateRoute",
          "AddCluster", "CreateCluster", "UpdateCluster", "RemoveCluster", "Batch"}
Pcs == {"down", "idle", "publish", "saveRoute", "saveCluster", "saveDests",
        "delRoutes", "delClusters", "saveAllDests"}
Op == [pc : Pcs, kind : Kinds, route : RouteIds \cup {None}, cluster : ClusterIds \cup {None},
       pending : SUBSET (RouteIds \cup ClusterIds), loaded : BOOLEAN]

OpAt(pc, kind, r, c) ==
    [pc |-> pc, kind |-> kind, route |-> r, cluster |-> c, pending |-> {}, loaded |-> FALSE]
Idle == OpAt("idle", "none", None, None)
-----------------------------------------------------------------------------
(* What the working set and the tables hold. *)

LiveRoutes == {r \in RouteIds : routes[r] # None}
LiveClusters == {c \in ClusterIds : clusters[c] # None}
Referenced(S) == {routes[r].cluster : r \in S}

UsedRouteUids ==
    {routes[r].uid : r \in LiveRoutes} \cup
    {dbRoutes[r].uid : r \in {x \in RouteIds : dbRoutes[x] # None}}
UsedClusterUids ==
    {clusters[c].uid : c \in LiveClusters} \cup
    {routes[r].clusterUid : r \in LiveRoutes} \cup
    {dbClusters[c].uid : c \in {x \in ClusterIds : dbClusters[x] # None}} \cup
    {dbRoutes[r].clusterUid : r \in {x \in RouteIds : dbRoutes[x] # None}}

\* Guid.NewGuid(): one new uid for each member of S, none of them used before.
FreshMaps(S, used) ==
    {f \in [S -> Uids \ used] : \A x, y \in S : x # y => f[x] # f[y]}
Fresh(S, used) == CHOOSE f \in FreshMaps(S, used) : TRUE
HasFresh(S, used) == FreshMaps(S, used) # {}

\* DynamicConfigState.ResolveClusterUid.
ResolveClusterUid(cs, c) == IF cs[c] = None THEN None ELSE cs[c].uid

\* ConfigEntityMapper.ToEntity / ToRouteConfig: the row has no Enabled column.
RouteEntity(rt) ==
    IF rt = None THEN None
    ELSE [uid |-> rt.uid, cluster |-> rt.cluster, clusterUid |-> rt.clusterUid, source |-> rt.source]
\* Mutant of LoadRoute: the cluster uid is not read back.
LoadRoute_NoClusterUid(row) ==
    IF row = None THEN None
    ELSE [uid |-> row.uid, cluster |-> row.cluster, clusterUid |-> None,
          source |-> row.source, enabled |-> TRUE]
LoadRoute(row) ==
    IF row = None THEN None
    ELSE [uid |-> row.uid, cluster |-> row.cluster, clusterUid |-> row.clusterUid,
          source |-> row.source, enabled |-> TRUE]
ClusterEntity(cl) == IF cl = None THEN None ELSE [uid |-> cl.uid, source |-> cl.source]
DestEntities(cl) == IF cl = None THEN NoDests ELSE cl.dests

\* The rows of a route, and the records of a cluster, that a save is given.
Given(past, rs, cs) ==
    [routes |-> [r \in RouteIds |-> past.routes[r] \cup {RouteEntity(rs[r])}],
     clusters |-> [c \in ClusterIds |-> past.clusters[c] \cup {cs[c]}]]
Since == [routes : [RouteIds -> SUBSET (RouteRow \cup {None})],
          clusters : [ClusterIds -> SUBSET (Cluster \cup {None})]]
Forgotten == [routes |-> [r \in RouteIds |-> {}], clusters |-> [c \in ClusterIds |-> {}]]

\* SqliteClusterRepository.MapDestination does not read the health column back.
LoadDests(ds) ==
    [k \in DestKeys |-> IF ds[k] = None THEN None ELSE [address |-> ds[k].address, health |-> FALSE]]
LoadCluster(row, ds) ==
    IF row = None THEN None ELSE [uid |-> row.uid, source |-> row.source, dests |-> LoadDests(ds)]

\* DynamicConfigPublisher.SanitizeCluster: destinations without an address are not published.
SanitizeCluster(ds) ==
    [k \in DestKeys |-> IF ds[k] # None /\ ds[k].address = Blank THEN None ELSE ds[k]]

\* What Publish hands to the provider: enabled routes, sanitized clusters.
Compiled(rs, cs, v) ==
    [routes |-> [r \in RouteIds |-> IF rs[r] # None /\ rs[r].enabled THEN rs[r].cluster ELSE None],
     clusters |-> [c \in ClusterIds |-> IF cs[c] = None THEN None ELSE SanitizeCluster(cs[c].dests)],
     version |-> v]
-----------------------------------------------------------------------------
(* The process start: load the tables, overlay appsettings.json, full save, *)
(* publish (LoadDynamicConfigAsync, MarkStaticConfigAsync).                 *)

LoadedRoutes(ok) == [r \in RouteIds |-> IF ok THEN LoadRoute(dbRoutes[r]) ELSE None]
LoadedClusters(ok) ==
    [c \in ClusterIds |-> IF ok THEN LoadCluster(dbClusters[c], dbDests[c]) ELSE None]

StoredRouteUids == {dbRoutes[r].uid : r \in {x \in RouteIds : dbRoutes[x] # None}}
StoredClusterUids ==
    {dbClusters[c].uid : c \in {x \in ClusterIds : dbClusters[x] # None}} \cup
    {dbRoutes[r].clusterUid : r \in {x \in RouteIds : dbRoutes[x] # None}}

\* Routes from appsettings.json replace the stored ones; stored "config" routes that
\* left the file are dropped.  Their cluster uid is resolved before static clusters exist.
MarkStaticRoutes(rs, cs, doc, uid) ==
    [r \in RouteIds |->
        LET c == doc.routes[r] IN
        CASE c # None /\ rs[r] # None ->
                [rs[r] EXCEPT !.cluster = c, !.clusterUid = ResolveClusterUid(cs, c)]
          [] c # None /\ rs[r] = None ->
                [uid |-> uid[r], cluster |-> c, clusterUid |-> ResolveClusterUid(cs, c),
                 source |-> "config", enabled |-> TRUE]
          [] c = None /\ rs[r] # None /\ rs[r].source = "config" -> None
          [] OTHER -> rs[r]]
MarkStaticClusters(cs, doc, uid) ==
    [c \in ClusterIds |->
        LET ds == doc.clusters[c] IN
        CASE ds # None /\ cs[c] # None -> [cs[c] EXCEPT !.dests = ds]
          [] ds # None /\ cs[c] = None -> [uid |-> uid[c], source |-> "config", dests |-> ds]
          [] ds = None /\ cs[c] # None /\ cs[c].source = "config" -> None
          [] OTHER -> cs[c]]

\* The provider's constructor publishes appsettings.json as it stands, version 0.
StaticProvider(doc) == [routes |-> doc.routes, clusters |-> doc.clusters, version |-> 0]

\* The rows a full save is to delete: looked up once, before the first of them goes.
\* Mutant of StaleRoutes: the ids to keep are taken from the published routes.
StaleRoutes_NotServed(rs) == {r \in RouteIds : dbRoutes[r] # None /\ (rs[r] = None \/ ~rs[r].enabled)}
StaleRoutes(rs) == {r \in RouteIds : dbRoutes[r] # None /\ rs[r] = None}
StaleClusters == {c \in ClusterIds : dbClusters[c] # None /\ clusters[c] = None}

\* A process begins with static configuration doc; ok is whether reading the tables succeeded.
Start(doc, ok) ==
    LET rs == LoadedRoutes(ok)
        cs == LoadedClusters(ok)
        newR == {r \in RouteIds : doc.routes[r] # None /\ rs[r] = None}
        newC == {c \in ClusterIds : doc.clusters[c] # None /\ cs[c] = None}
    IN  /\ HasFresh(newR, StoredRouteUids)
        /\ HasFresh(newC, StoredClusterUids)
        /\ routes' = MarkStaticRoutes(rs, cs, doc, Fresh(newR, StoredRouteUids))
        /\ clusters' = MarkStaticClusters(cs, doc, Fresh(newC, StoredClusterUids))
        /\ version' = 0
        /\ provider' = StaticProvider(doc)
        /\ op' = [OpAt("delRoutes", "MarkStaticConfig", None, None) EXCEPT
                    !.loaded = ok, !.pending = StaleRoutes(routes')]
        /\ dirty' = "failed"
        /\ since' = Given(since, routes', clusters')
        /\ served' = FALSE

\* A fresh installation: empty tables, no process yet.
Init ==
    /\ dbRoutes = [r \in RouteIds |-> None]
    /\ dbClusters = [c \in ClusterIds |-> None]
    /\ dbDests = [c \in ClusterIds |-> NoDests]
    /\ routes = [r \in RouteIds |-> None]
    /\ clusters = [c \in ClusterIds |-> None]
    /\ version = 0
    /\ provider = Compiled(routes, clusters, 0)
    /\ op = [Idle EXCEPT !.pc = "down"]
    /\ faults = 0
    /\ restarts = 0
    /\ dirty = "failed"
    /\ since = Given(Forgotten, routes, clusters)
    /\ served = FALSE

FirstStart(doc) ==
    /\ op.pc = "down"
    /\ Start(doc, TRUE)
    /\ UNCHANGED <<database, faults, restarts>>

\* A crash at any point followed by a new start; appsettings.json may have been edited.
\* A load that throws leaves an empty configuration (LoadAsync's catch).
Restart(doc) ==
    /\ op.pc # "down"
    /\ restarts < MaxRestarts
    /\ restarts' = restarts + 1
    /\ Start(doc, TRUE)
    /\ UNCHANGED <<database, faults>>

RestartLoadFails(doc) ==
    /\ op.pc # "down"
    /\ restarts < MaxRestarts /\ faults < MaxFaults
    /\ restarts' = restarts + 1
    /\ faults' = faults + 1
    /\ Start(doc, FALSE)
    /\ UNCHANGED database
-----------------------------------------------------------------------------
(* The edits.  Each runs under the semaphore and ends by handing over to   *)
(* Publish; a request the code refuses changes nothing and is left out.    *)

Edit(kind, r, c) ==
    /\ op.pc = "idle"
    /\ version < MaxVersion
    /\ version' = version + 1
    /\ op' = OpAt("publish", kind, r, c)
    /\ UNCHANGED <<provider, database, faults, restarts, dirty, since, served>>

\* A record for route r naming cluster c: the existing one updated, or a new one.
UpsertedRoute(r, c) ==
    IF routes[r] # None
    THEN [routes[r] EXCEPT !.cluster = c, !.clusterUid = ResolveClusterUid(clusters, c),
                           !.source = "dynamic"]
    ELSE [uid |-> Fresh({r}, UsedRouteUids)[r], cluster |-> c,
          clusterUid |-> ResolveClusterUid(clusters, c), source |-> "dynamic", enabled |-> TRUE]

\* RouteConfigManager.TryAddRoute: a client or the API registers route r on cluster c at
\* address a; iso is UseIpIsolation, ip the client's destination key (None: no client ip).
\* The cluster is created when missing, after the route resolved its cluster uid.
AddRoute(r, c, a, iso, ip) ==
    LET key == IF iso /\ ip # None THEN ip ELSE D1
        d == [address |-> a, health |-> FALSE]
    IN  /\ Edit("AddOrUpdateRoute", r, c)
        /\ HasFresh({r}, UsedRouteUids)
        /\ routes' = [routes EXCEPT ![r] = UpsertedRoute(r, c)]
        /\ \/ /\ clusters[c] = None
              /\ HasFresh({c}, UsedClusterUids)
              /\ clusters' = [clusters EXCEPT ![c] =
                    [uid |-> Fresh({c}, UsedClusterUids)[c], source |-> "dynamic",
                     dests |-> [NoDests EXCEPT ![key] = d]]]
           \/ /\ clusters[c] # None /\ a # Blank /\ ~iso
              /\ clusters' = [clusters EXCEPT ![c].dests[D1] = d]
           \/ /\ clusters[c] # None /\ (a = Blank \/ iso)
              /\ UNCHANGED clusters

\* RouteConfigManager.TryAddRouteConfig: the cluster need not exist.
AddRouteConfig(r, c) ==
    /\ Edit("AddOrUpdateRoute", r, c)
    /\ HasFresh({r}, UsedRouteUids)
    /\ routes' = [routes EXCEPT ![r] = UpsertedRoute(r, c)]
    /\ UNCHANGED clusters

\* RouteConfigManager.TryRemoveRoute with a client ip: the client's destination goes; when
\* it was the last one, the cluster goes with it.
RemoveRouteForClient(r, ip) ==
    LET c == routes[r].cluster
        registered == IF clusters[c] = None THEN FALSE ELSE clusters[c].dests[ip] # None
        rest == [clusters[c].dests EXCEPT ![ip] = None]
    IN  /\ Edit("RemoveRoute", r, None)
        /\ routes[r] # None
        /\ routes' = [routes EXCEPT ![r] = None]
        /\ \/ /\ registered
              /\ clusters' = [clusters EXCEPT ![c] =
                    IF rest = NoDests THEN None ELSE [clusters[c] EXCEPT !.dests = rest]]
           \/ ~registered /\ UNCHANGED clusters

\* RouteConfigManager.TryRemoveRoute without one: optionally drop the orphaned cluster.
RemoveRoute(r, removeOrphanedCluster) ==
    LET c == routes[r].cluster
        orphaned == c \notin Referenced(LiveRoutes \ {r})
    IN  /\ Edit("RemoveRoute", r, None)
        /\ routes[r] # None
        /\ routes' = [routes EXCEPT ![r] = None]
        /\ clusters' = IF removeOrphanedCluster /\ orphaned
                       THEN [clusters EXCEPT ![c] = None] ELSE clusters

\* Mutant of SetRouteEnabled: the flag is saved but not published.
SetRouteEnabled_Unpublished(r, enabled) ==
    /\ op.pc = "idle" /\ version < MaxVersion
    /\ routes[r] # None
    /\ routes' = [routes EXCEPT ![r].enabled = enabled]
    /\ version' = version + 1
    /\ op' = [OpAt("delRoutes", "SetRouteEnabled", r, None) EXCEPT !.pending = StaleRoutes(routes)]
    /\ UNCHANGED <<clusters, provider, database, faults, restarts, dirty, since, served>>
\* RouteConfigManager.TrySetRouteEnabled.
SetRouteEnabled(r, enabled) ==
    /\ Edit("SetRouteEnabled", r, None)
    /\ routes[r] # None
    /\ routes' = [routes EXCEPT ![r].enabled = enabled]
    /\ UNCHANGED clusters

\* Mutant of RenameRoute: the old record stays.
RenameRoute_KeepsOld(old, new, c) ==
    /\ Edit("UpdateRoute", old, None)
    /\ routes[old] # None
    /\ routes[new] = None
    /\ routes' = [routes EXCEPT ![new] = routes[old]]
    /\ UNCHANGED clusters
\* RouteConfigManager.TryRenameRoute: the new record keeps the uid and nothing of Enabled;
\* c is the cluster of the request, None when it names none.
RenameRoute(old, new, c) ==
    LET target == IF c # None THEN c ELSE routes[old].cluster
    IN  /\ Edit("UpdateRoute", old, None)
        /\ routes[old] # None
        /\ routes[new] = None
        /\ routes' = [routes EXCEPT
                ![old] = None,
                ![new] = [uid |-> routes[old].uid, cluster |-> target,
                          clusterUid |-> ResolveClusterUid(clusters, target),
                          source |-> "dynamic", enabled |-> TRUE]]
        /\ UNCHANGED clusters

UpsertedCluster(c, ds) ==
    IF clusters[c] # None
    THEN [clusters[c] EXCEPT !.dests = ds, !.source = "dynamic"]
    ELSE [uid |-> Fresh({c}, UsedClusterUids)[c], source |-> "dynamic", dests |-> ds]

\* ClusterConfigManager.TryAddClusterConfig and the basic TryAddCluster overload: both refuse
\* an empty destination map; the second builds destinations from addresses alone.
AddClusterConfig(c, ds) ==
    /\ Edit("AddCluster", None, c)
    /\ ds # NoDests
    /\ HasFresh({c}, UsedClusterUids)
    /\ clusters' = [clusters EXCEPT ![c] = UpsertedCluster(c, ds)]
    /\ UNCHANGED routes
AddCluster(c, ds) == AddClusterConfig(c, LoadDests(ds))

\* ClusterConfigManager.TryAddCluster(CreateClusterRequest): refused when the cluster exists.
CreateCluster(c, ds) ==
    /\ Edit("CreateCluster", None, c)
    /\ clusters[c] = None
    /\ HasFresh({c}, UsedClusterUids)
    /\ clusters' = [clusters EXCEPT ![c] =
            [uid |-> Fresh({c}, UsedClusterUids)[c], source |-> "dynamic", dests |-> LoadDests(ds)]]
    /\ UNCHANGED routes

\* ClusterConfigManager.TryUpdateCluster: ds = None keeps the destinations.
UpdateCluster(c, ds) ==
    /\ Edit("UpdateCluster", None, c)
    /\ clusters[c] # None
    /\ clusters' = [clusters EXCEPT ![c].dests = IF ds = None THEN @ ELSE LoadDests(ds)]
    /\ UNCHANGED routes

\* ClusterConfigManager.TryRemoveCluster: refused while a route references the cluster.
RemoveCluster(c) ==
    /\ Edit("RemoveCluster", None, c)
    /\ c \notin Referenced(LiveRoutes)
    /\ clusters[c] # None
    /\ clusters' = [clusters EXCEPT ![c] = None]
    /\ UNCHANGED routes

\* ClusterConfigManager.TryRenameCluster: the uid is kept, referencing routes follow, and
\* the operation is saved under the old id.  An empty ds keeps the destinations.
RenameCluster(old, new, ds) ==
    /\ Edit("UpdateCluster", None, old)
    /\ clusters[old] # None
    /\ clusters[new] = None
    /\ clusters' = [clusters EXCEPT
            ![old] = None,
            ![new] = [uid |-> clusters[old].uid, source |-> "dynamic",
                      dests |-> IF ds = NoDests THEN clusters[old].dests ELSE LoadDests(ds)]]
    /\ routes' = [r \in RouteIds |->
            IF routes[r] # None /\ routes[r].cluster = old
            THEN [routes[r] EXCEPT !.cluster = new, !.clusterUid = clusters[old].uid]
            ELSE routes[r]]

\* Clusters (then routes, which resolve their cluster uid among them) of a document: the
\* existing record takes the new content and keeps the rest, a new one gets a fresh uid.
ImportedClusters(doc, uid) ==
    [c \in ClusterIds |->
        LET ds == doc.clusters[c] IN
        CASE ds # None /\ clusters[c] # None -> [clusters[c] EXCEPT !.dests = ds]
          [] ds # None /\ clusters[c] = None -> [uid |-> uid[c], source |-> "dynamic", dests |-> ds]
          [] OTHER -> clusters[c]]
ImportedRoutes(doc, cs, uid) ==
    [r \in RouteIds |->
        LET c == doc.routes[r] IN
        CASE c # None /\ routes[r] # None ->
                [routes[r] EXCEPT !.cluster = c, !.clusterUid = ResolveClusterUid(cs, c)]
          [] c # None /\ routes[r] = None ->
                [uid |-> uid[r], cluster |-> c, clusterUid |-> ResolveClusterUid(cs, c),
                 source |-> "dynamic", enabled |-> TRUE]
          [] OTHER -> routes[r]]
NewRoutesOf(doc) == {r \in RouteIds : doc.routes[r] # None /\ routes[r] = None}
NewClustersOf(doc) == {c \in ClusterIds : doc.clusters[c] # None /\ clusters[c] = None}

\* DynamicYarpConfigService.ImportBatchAsync: an empty import returns before the lock.
ImportBatch(doc) ==
    /\ Edit("Batch", None, None)
    /\ (\E r \in RouteIds : doc.routes[r] # None) \/ (\E c \in ClusterIds : doc.clusters[c] # None)
    /\ HasFresh(NewRoutesOf(doc), UsedRouteUids)
    /\ HasFresh(NewClustersOf(doc), UsedClusterUids)
    /\ clusters' = ImportedClusters(doc, Fresh(NewClustersOf(doc), UsedClusterUids))
    /\ routes' = ImportedRoutes(doc, clusters', Fresh(NewRoutesOf(doc), UsedRouteUids))

\* DynamicYarpConfigService.ReplaceAllConfig (rollback to a snapshot): as the import, and
\* what the document does not name is gone.
ReplaceAllConfig(doc) ==
    /\ Edit("Batch", None, None)
    /\ HasFresh(NewRoutesOf(doc), UsedRouteUids)
    /\ HasFresh(NewClustersOf(doc), UsedClusterUids)
    /\ clusters' = [c \in ClusterIds |->
            IF doc.clusters[c] = None THEN None
            ELSE ImportedClusters(doc, Fresh(NewClustersOf(doc), UsedClusterUids))[c]]
    /\ routes' = [r \in RouteIds |->
            IF doc.routes[r] = None THEN None
            ELSE ImportedRoutes(doc, clusters', Fresh(NewRoutesOf(doc), UsedRouteUids))[r]]
-----------------------------------------------------------------------------
(* Batch operations: one lock, one version bump, one publish, one save. *)

\* Mutant of BatchDeleteClusters: the reference check is dropped.
BatchDeleteClusters_Unchecked(ids) ==
    /\ Edit("Batch", None, None)
    /\ ids # {}
    /\ clusters' = [c \in ClusterIds |-> IF c \in ids THEN None ELSE clusters[c]]
    /\ UNCHANGED routes
\* BatchDeleteClustersAsync: nothing is published when no cluster was deleted.
BatchDeleteClusters(ids) ==
    LET deleted == {c \in ids : clusters[c] # None /\ c \notin Referenced(LiveRoutes)}
    IN  /\ Edit("Batch", None, None)
        /\ deleted # {}
        /\ clusters' = [c \in ClusterIds |-> IF c \in deleted THEN None ELSE clusters[c]]
        /\ UNCHANGED routes

\* The positions of ids at which a route is found and deleted.
Found(ids) ==
    {i \in DOMAIN ids : routes[ids[i]] # None /\ \A j \in 1 .. i - 1 : ids[j] # ids[i]}

\* BatchDeleteRoutesAsync: survivors collects, after each deletion, the clusters of the
\* routes that are left at that moment.
Survivors(ids) ==
    UNION {Referenced(LiveRoutes \ {ids[j] : j \in 1 .. i}) : i \in Found(ids)}
BatchDeleteRoutes(ids, removeOrphanedClusters) ==
    LET deleted == {ids[i] : i \in Found(ids)}
        orphaned == Referenced(deleted) \ Survivors(ids)
    IN  /\ Edit("Batch", None, None)
        /\ ids # <<>>
        /\ routes' = [r \in RouteIds |-> IF r \in deleted THEN None ELSE routes[r]]
        /\ clusters' = [c \in ClusterIds |->
                IF removeOrphanedClusters /\ c \in orphaned THEN None ELSE clusters[c]]

\* BatchSetRoutesEnabledAsync: published when some id of the batch exists.
BatchSetRoutesEnabled(ids, enabled) ==
    LET hit == {r \in RouteIds : routes[r] # None /\ \E i \in DOMAIN ids : ids[i] = r}
    IN  /\ Edit("Batch", None, None)
        /\ hit # {}
        /\ routes' = [r \in RouteIds |->
                IF r \in hit THEN [routes[r] EXCEPT !.enabled = enabled] ELSE routes[r]]
        /\ UNCHANGED clusters

\* RefreshConfig republishes at the same version; SaveDynamicConfig only saves.
RefreshConfig ==
    /\ op.pc = "idle"
    /\ op' = OpAt("publish", "RefreshConfig", None, None)
    /\ UNCHANGED <<memory, provider, database, faults, restarts, dirty, since, served>>
SaveDynamicConfig ==
    /\ op.pc = "idle"
    /\ op' = [OpAt("delRoutes", "SaveDynamicConfig", None, None) EXCEPT !.pending = StaleRoutes(routes)]
    /\ since' = Given(since, routes, clusters)
    /\ UNCHANGED <<memory, provider, database, faults, restarts, dirty, served>>
-----------------------------------------------------------------------------
(* Publish, then the save, one repository call at a time. *)

\* DynamicConfigPersister.TryPersistIncrementalAsync decides how the save begins; a rename
\* saved under its old id finds no such cluster and falls back to the full save.
FirstSaveStep ==
    CASE op.kind = "RefreshConfig" -> "idle"
      [] op.kind = "AddOrUpdateRoute" -> "saveRoute"
      [] op.kind \in {"AddCluster", "CreateCluster", "UpdateCluster"} /\ clusters[op.cluster] # None
            -> "saveCluster"
      [] OTHER -> "delRoutes"

\* After the last step of a save.  A save that failed at the start ends in the publish.
Finish(outcome) ==
    /\ op' = IF op.kind = "MarkStaticConfig" THEN [op EXCEPT !.pc = "publish"] ELSE Idle
    /\ dirty' = outcome
    /\ since' = IF outcome = "no" THEN Given(Forgotten, routes, clusters) ELSE since
FinishFull == Finish("no")
FinishIncremental == Finish(IF dirty = "no" THEN "no" ELSE "stale")

\* DynamicConfigPublisher.Publish; at the start it is the last step of all.
Publish ==
    /\ op.pc = "publish"
    /\ provider' = Compiled(routes, clusters, version)
    /\ served' = TRUE
    /\ op' = IF op.kind = "MarkStaticConfig" \/ FirstSaveStep = "idle" THEN Idle
             ELSE [op EXCEPT !.pc = FirstSaveStep,
                             !.pending = IF FirstSaveStep = "delRoutes" THEN StaleRoutes(routes) ELSE {}]
    /\ since' = IF op.kind = "RefreshConfig" THEN since ELSE Given(since, routes, clusters)
    /\ UNCHANGED <<memory, database, faults, restarts, dirty>>

\* Publish throws (the compiler reads the tables): the edit stays in memory, nothing is saved.
\* At the start, the working set is replaced by an empty one.
PublishFails ==
    /\ op.pc = "publish"
    /\ faults < MaxFaults
    /\ faults' = faults + 1
    /\ served' = FALSE
    /\ op' = Idle
    /\ dirty' = IF op.kind = "RefreshConfig" THEN dirty ELSE "failed"
    /\ IF op.kind = "MarkStaticConfig"
       THEN /\ routes' = [r \in RouteIds |-> None]
            /\ clusters' = [c \in ClusterIds |-> None]
            /\ UNCHANGED version
       ELSE UNCHANGED memory
    /\ UNCHANGED <<provider, database, restarts, since>>

\* The unique indexes on route_uid and cluster_uid: writing record x under its id clashes
\* with another row y that holds the same uid.
RouteClash(x, y) ==
    x # y /\ routes[x] # None /\ dbRoutes[y] # None /\ routes[x].uid = dbRoutes[y].uid
ClusterClash(x, y) ==
    x # y /\ clusters[x] # None /\ dbClusters[y] # None /\ clusters[x].uid = dbClusters[y].uid

\* Some order of writing all records avoids every clash: no set of rows waits for itself.
RoutesWritable == \A S \in SUBSET RouteIds : S # {} => \E x \in S : \A y \in S : ~RouteClash(x, y)
ClustersWritable ==
    \A S \in SUBSET ClusterIds : S # {} => \E x \in S : \A y \in S : ~ClusterClash(x, y)

\* Mutant of SaveRoute: the save of a route stops at the route.
SaveRoute_NoCluster ==
    /\ op.pc = "saveRoute"
    /\ \A y \in RouteIds : ~RouteClash(op.route, y)
    /\ dbRoutes' = [dbRoutes EXCEPT ![op.route] = RouteEntity(routes[op.route])]
    /\ FinishIncremental
    /\ UNCHANGED <<memory, provider, dbClusters, dbDests, faults, restarts, served>>
\* Incremental save of a route, then of its cluster and the destinations.
SaveRoute ==
    /\ op.pc = "saveRoute"
    /\ \A y \in RouteIds : ~RouteClash(op.route, y)
    /\ dbRoutes' = [dbRoutes EXCEPT ![op.route] = RouteEntity(routes[op.route])]
    /\ IF clusters[op.cluster] = None THEN FinishIncremental
       ELSE op' = [op EXCEPT !.pc = "saveCluster"] /\ UNCHANGED <<dirty, since>>
    /\ UNCHANGED <<memory, provider, dbClusters, dbDests, faults, restarts, served>>
SaveCluster ==
    /\ op.pc = "saveCluster"
    /\ \A y \in ClusterIds : ~ClusterClash(op.cluster, y)
    /\ dbClusters' = [dbClusters EXCEPT ![op.cluster] = ClusterEntity(clusters[op.cluster])]
    /\ op' = [op EXCEPT !.pc = "saveDests"]
    /\ UNCHANGED <<memory, provider, dbRoutes, dbDests, faults, restarts, dirty, since, served>>
SaveDestinations ==
    /\ op.pc = "saveDests"
    /\ dbDests' = [dbDests EXCEPT ![op.cluster] = DestEntities(clusters[op.cluster])]
    /\ FinishIncremental
    /\ UNCHANGED <<memory, provider, dbRoutes, dbClusters, faults, restarts, served>>

\* Full save: the rows of routes that are gone, looked up before, are deleted one by one,
\* then all routes are written in one transaction; the same for clusters (destinations
\* first); then the destinations.
DeleteStaleRoute(r) ==
    /\ op.pc = "delRoutes"
    /\ r \in op.pending
    /\ dbRoutes' = [dbRoutes EXCEPT ![r] = None]
    /\ op' = [op EXCEPT !.pending = @ \ {r}]
    /\ UNCHANGED <<memory, provider, dbClusters, dbDests, faults, restarts, dirty, since, served>>
SaveRoutes ==
    /\ op.pc = "delRoutes"
    /\ op.pending = {}
    /\ RoutesWritable
    /\ dbRoutes' = [r \in RouteIds |-> IF routes[r] = None THEN dbRoutes[r] ELSE RouteEntity(routes[r])]
    /\ op' = [op EXCEPT !.pc = "delClusters", !.cluster = None, !.pending = StaleClusters]
    /\ UNCHANGED <<memory, provider, dbClusters, dbDests, faults, restarts, dirty, since, served>>
DeleteStaleDestinations(c) ==
    /\ op.pc = "delClusters"
    /\ op.cluster = None
    /\ c \in op.pending
    /\ dbDests' = [dbDests EXCEPT ![c] = NoDests]
    /\ op' = [op EXCEPT !.cluster = c]
    /\ UNCHANGED <<memory, provider, dbRoutes, dbClusters, faults, restarts, dirty, since, served>>
DeleteStaleCluster ==
    /\ op.pc = "delClusters"
    /\ op.cluster # None
    /\ dbClusters' = [dbClusters EXCEPT ![op.cluster] = None]
    /\ op' = [op EXCEPT !.cluster = None, !.pending = @ \ {op.cluster}]
    /\ UNCHANGED <<memory, provider, dbRoutes, dbDests, faults, restarts, dirty, since, served>>
SaveClusters ==
    /\ op.pc = "delClusters"
    /\ op.pending = {}
    /\ ClustersWritable
    /\ dbClusters' = [c \in ClusterIds |->
            IF clusters[c] = None THEN dbClusters[c] ELSE ClusterEntity(clusters[c])]
    /\ IF LiveClusters = {} THEN FinishFull
       ELSE op' = [op EXCEPT !.pc = "saveAllDests", !.pending = LiveClusters] /\ UNCHANGED <<dirty, since>>
    /\ UNCHANGED <<memory, provider, dbRoutes, dbDests, faults, restarts, served>>
SaveDestinationsOf(c) ==
    /\ op.pc = "saveAllDests"
    /\ c \in op.pending
    /\ dbDests' = [dbDests EXCEPT ![c] = DestEntities(clusters[c])]
    /\ IF op.pending = {c} THEN FinishFull
       ELSE op' = [op EXCEPT !.pending = @ \ {c}] /\ UNCHANGED <<dirty, since>>
    /\ UNCHANGED <<memory, provider, dbRoutes, dbClusters, faults, restarts, served>>

\* A repository call throws and what is left of the save is skipped: SaveAndPublishAsync,
\* SaveBestEffortAsync and MarkStaticConfigAsync swallow the exception, import, rollback
\* and SaveDynamicConfig pass it on to the caller.
SavePcs == Pcs \ {"down", "idle", "publish"}
\* Mutant of SaveFails: the exception passes the release by, and the semaphore stays with
\* the operation at the call that threw.
SaveFails_NoRelease ==
    /\ op.pc \in SavePcs
    /\ dirty' = "failed"
    /\ UNCHANGED <<memory, provider, database, op, restarts, since, served>>
SaveFails ==
    /\ op.pc \in SavePcs
    /\ Finish("failed")
    /\ UNCHANGED <<memory, provider, database, restarts, served>>
CallThrows ==
    /\ faults < MaxFaults
    /\ faults' = faults + 1
    /\ SaveFails
UniqueIndexThrows ==
    /\ \/ op.pc = "saveRoute" /\ \E y \in RouteIds : RouteClash(op.route, y)
       \/ op.pc = "saveCluster" /\ \E y \in ClusterIds : ClusterClash(op.cluster, y)
       \/ op.pc = "delRoutes" /\ op.pending = {} /\ \E x, y \in RouteIds : RouteClash(x, y)
       \/ /\ op.pc = "delClusters" /\ op.pending = {}
          /\ \E x, y \in ClusterIds : ClusterClash(x, y)
    /\ UNCHANGED faults
    /\ SaveFails
-----------------------------------------------------------------------------
RouteEdit ==
    \/ \E r \in RouteIds, c \in ClusterIds, a \in Addresses, iso \in BOOLEAN,
          ip \in (DestKeys \ {D1}) \cup {None} : AddRoute(r, c, a, iso, ip)
    \/ \E r \in RouteIds, c \in ClusterIds : AddRouteConfig(r, c)
    \/ \E r \in RouteIds, ip \in DestKeys \ {D1} : RemoveRouteForClient(r, ip)
    \/ \E r \in RouteIds, b \in BOOLEAN : RemoveRoute(r, b)
    \/ \E r \in RouteIds, b \in BOOLEAN : SetRouteEnabled(r, b)
    \/ \E old, new \in RouteIds, c \in ClusterIds \cup {None} : RenameRoute(old, new, c)

ClusterEdit ==
    \/ \E c \in ClusterIds, ds \in DestInputs : AddClusterConfig(c, ds)
    \/ \E c \in ClusterIds, ds \in DestInputs : AddCluster(c, ds)
    \/ \E c \in ClusterIds, ds \in DestInputs : CreateCluster(c, ds)
    \/ \E c \in ClusterIds, ds \in DestInputs \cup {None} : UpdateCluster(c, ds)
    \/ \E c \in ClusterIds : RemoveCluster(c)
    \/ \E old, new \in ClusterIds, ds \in DestInputs \cup {NoDests} : RenameCluster(old, new, ds)

BatchEdit ==
    \/ \E doc \in Documents : ImportBatch(doc)
    \/ \E doc \in Documents : ReplaceAllConfig(doc)
    \/ \E ids \in SUBSET ClusterIds : BatchDeleteClusters(ids)
    \/ \E ids \in Batches, b \in BOOLEAN : BatchDeleteRoutes(ids, b)
    \/ \E ids \in Batches, b \in BOOLEAN : BatchSetRoutesEnabled(ids, b)

\* The steps of the operation that holds the semaphore.
OpStep ==
    \/ Publish
    \/ PublishFails
    \/ SaveRoute
    \/ SaveCluster
    \/ SaveDestinations
    \/ \E r \in RouteIds : DeleteStaleRoute(r)
    \/ SaveRoutes
    \/ \E c \in ClusterIds : DeleteStaleDestinations(c)
    \/ DeleteStaleCluster
    \/ SaveClusters
    \/ \E c \in ClusterIds : SaveDestinationsOf(c)
    \/ CallThrows
    \/ UniqueIndexThrows

Lifecycle ==
    \/ \E doc \in AppSettings : FirstStart(doc)
    \/ \E doc \in AppSettings : Restart(doc)
    \/ \E doc \in AppSettings : RestartLoadFails(doc)

Next == RouteEdit \/ ClusterEdit \/ BatchEdit \/ RefreshConfig \/ SaveDynamicConfig \/ OpStep \/ Lifecycle

Spec == Init /\ [][Next]_vars
FairSpec == Spec /\ WF_vars(OpStep)
-----------------------------------------------------------------------------
(* Properties. *)

\* Every variable keeps its type: ids map to records of the declared shape or to None, in
\* memory and in the tables, and the operation in progress is at one of its steps.
TypeOK ==
    /\ routes \in [RouteIds -> Route \cup {None}]
    /\ clusters \in [ClusterIds -> Cluster \cup {None}]
    /\ version \in Nat
    /\ provider \in Provider
    /\ dbRoutes \in [RouteIds -> RouteRow \cup {None}]
    /\ dbClusters \in [ClusterIds -> ClusterRow \cup {None}]
    /\ dbDests \in [ClusterIds -> Dests]
    /\ op \in Op
    /\ faults \in Nat /\ restarts \in Nat
    /\ dirty \in {"no", "failed", "stale"}
    /\ since \in Since
    /\ served \in BOOLEAN

RoutesInSync(S) == \A r \in S : dbRoutes[r] = RouteEntity(routes[r])
ClustersInSync(S) == \A c \in S : dbClusters[c] = ClusterEntity(clusters[c])
DestsInSync(S) == \A c \in S : dbDests[c] = DestEntities(clusters[c])
InSync == RoutesInSync(RouteIds) /\ ClustersInSync(ClusterIds) /\ DestsInSync(ClusterIds)

\* As long as no save has thrown since the last full save, the tables hold exactly the
\* entities of the working set whenever no operation is running: the incremental saves of
\* TryPersistIncrementalAsync write everything their operations changed, and the full save
\* leaves nothing behind.
DurableWhenClean == (op.pc = "idle" /\ dirty = "no") => InSync

\* Once an operation has published, and until the next edit, the proxy serves the enabled
\* routes and the sanitized clusters of the working set at the working set's version; a
\* publish that throws breaks this only until the next one succeeds.
ServedMatchesWorkingSet ==
    (served /\ op.pc # "publish") => provider = Compiled(routes, clusters, version)

Distinct(f) == \A x, y \in DOMAIN f : (x # y /\ f[x] # None /\ f[y] # None) => f[x].uid # f[y].uid

\* A uid identifies one route and one cluster, in memory and in the tables, through renames,
\* rollbacks, imports and restarts from half-written tables: plugin bindings are attached by
\* uid, and the tables have unique indexes on it.
UidsIdentify == Distinct(routes) /\ Distinct(clusters) /\ Distinct(dbRoutes) /\ Distinct(dbClusters)

\* No step of any save, and no crash in the middle of one, removes the row of a route or a
\* cluster that is in the working set.
SaveKeepsLiveRows ==
    [][/\ \A r \in RouteIds : (dbRoutes[r] # None /\ routes[r] # None) => dbRoutes'[r] # None
       /\ \A c \in ClusterIds : (dbClusters[c] # None /\ clusters[c] # None) => dbClusters'[c] # None]_vars

\* Wherever a process dies, between any two calls of a save, after a throwing one or at
\* rest, the next start has every route and cluster that appsettings.json does not name as
\* some save was given it since the last complete one, or as that one left it: nothing is
\* gone that no edit took away (or that came from an earlier appsettings.json), no record
\* is a mixture, and a cluster may have the destinations of another such save.  What a
\* record does not have in the tables is at its default: it comes back enabled, and
\* without the health addresses of its destinations.
RestartRecovers ==
    [][\A doc \in AppSettings : Restart(doc) =>
        /\ \A r \in RouteIds : doc.routes[r] = None =>
              IF routes'[r] = None
              THEN \E row \in since.routes[r] : row = None \/ row.source = "config"
              ELSE routes'[r].enabled /\ RouteEntity(routes'[r]) \in since.routes[r]
        /\ \A c \in ClusterIds : doc.clusters[c] = None =>
              IF clusters'[c] = None
              THEN \E cl \in since.clusters[c] : cl = None \/ cl.source = "config"
              ELSE \E cl, other \in since.clusters[c] :
                     clusters'[c] = LoadCluster(ClusterEntity(cl), DestEntities(other))]_vars

\* The save of a start that could read the tables deletes no row that came from the API or
\* the dashboard, whatever a crash left in the tables.
StartKeepsDynamicRows ==
    [][(op.kind = "MarkStaticConfig" /\ op.loaded) =>
        \A r \in RouteIds : (dbRoutes[r] # None /\ dbRoutes[r].source # "config") => dbRoutes'[r] # None]_vars

\* A step leaves route r, which had a cluster, pointing at a cluster that no longer exists.
Dangles(r) ==
    /\ routes[r] # None /\ clusters[routes[r].cluster] # None
    /\ routes'[r] # None /\ routes'[r].cluster = routes[r].cluster
    /\ clusters'[routes[r].cluster] = None

\* Cluster removal, cluster rename, orphan clean-up and the batch operations never take the
\* cluster away from a route that keeps naming it.  The exceptions are the removal for one
\* client ip, a rollback to a document and a process start.
EditsKeepReferences ==
    [][(\E r \in RouteIds : Dangles(r)) =>
        \/ \E r \in RouteIds, ip \in DestKeys \ {D1} : RemoveRouteForClient(r, ip)
        \/ \E doc \in Documents : ReplaceAllConfig(doc)
        \/ op'.kind = "MarkStaticConfig" \/ op.kind = "MarkStaticConfig"]_vars

\* Every operation releases the semaphore: whatever throws or clashes on the way, publish
\* and save come to an end.
LockReleased == (op.pc \notin {"down", "idle"}) ~> (op.pc = "idle")

=============================================================================
