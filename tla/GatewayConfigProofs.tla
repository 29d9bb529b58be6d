------------------------- MODULE GatewayConfigProofs -------------------------
(***************************************************************************)
(* Theorems about GatewayConfig, for every value of its constants: types,  *)
(* ids and what the tables keep; then that uids identify records for good, *)
(* that a restart recovers what was saved, that the save of a start keeps  *)
(* the dynamic rows, and that no edit takes the cluster away from a route. *)
(***************************************************************************)
EXTENDS GatewayConfig, WellFoundedInduction, TLAPS

RouteMap == [RouteIds -> Route \cup {None}]
ClusterMap == [ClusterIds -> Cluster \cup {None}]
-----------------------------------------------------------------------------
(* Lemmas about the operators. *)

\* A successful draw of new GUIDs gives each id a uid, none of them used, no two the same.
LEMMA FreshFacts ==
    ASSUME NEW S, NEW used, HasFresh(S, used)
    PROVE  /\ Fresh(S, used) \in [S -> Uids]
           /\ \A x \in S : Fresh(S, used)[x] \notin used
           /\ \A x, y \in S : x # y => Fresh(S, used)[x] # Fresh(S, used)[y]
  <1>1. Fresh(S, used) \in FreshMaps(S, used)
    BY DEF HasFresh, Fresh
  <1> QED
    BY <1>1 DEF FreshMaps

\* ResolveClusterUid yields a uid or null.
LEMMA ResolveType ==
    ASSUME NEW cs \in ClusterMap, NEW c \in ClusterIds
    PROVE  ResolveClusterUid(cs, c) \in Uids \cup {None}
  BY DEF ClusterMap, Cluster, ResolveClusterUid

\* The mapping to rows and back keeps the types, and only null maps to null.
LEMMA EntityTypes ==
    /\ \A rt \in Route \cup {None} : RouteEntity(rt) \in RouteRow \cup {None}
    /\ \A row \in RouteRow \cup {None} : LoadRoute(row) \in Route \cup {None}
    /\ \A cl \in Cluster \cup {None} :
          ClusterEntity(cl) \in ClusterRow \cup {None} /\ DestEntities(cl) \in Dests
    /\ \A ds \in Dests : LoadDests(ds) \in Dests /\ SanitizeCluster(ds) \in Dests
    /\ \A row \in ClusterRow \cup {None}, ds \in Dests : LoadCluster(row, ds) \in Cluster \cup {None}
  <1>1. \A rt \in Route \cup {None} : RouteEntity(rt) \in RouteRow \cup {None}
    BY DEF Route, RouteRow, RouteEntity
  <1>2. \A row \in RouteRow \cup {None} : LoadRoute(row) \in Route \cup {None}
    BY DEF Route, RouteRow, LoadRoute
  <1>3. \A cl \in Cluster \cup {None} :
          ClusterEntity(cl) \in ClusterRow \cup {None} /\ DestEntities(cl) \in Dests
    BY DEF Cluster, ClusterRow, ClusterEntity, DestEntities, NoDests, Dests
  <1>4. ASSUME NEW ds \in Dests
        PROVE  LoadDests(ds) \in Dests /\ SanitizeCluster(ds) \in Dests
    <2>1. \A k \in DestKeys : ds[k] # None => ds[k].address \in Addresses
      BY DEF Dests, Dest
    <2>2. \A k \in DestKeys : (IF ds[k] = None THEN None ELSE [address |-> ds[k].address, health |-> FALSE])
                              \in Dest \cup {None}
      BY <2>1 DEF Dest
    <2> QED
      BY <2>2 DEF LoadDests, SanitizeCluster, Dests
  <1>5. ASSUME NEW row \in ClusterRow \cup {None}, NEW ds \in Dests
        PROVE  LoadCluster(row, ds) \in Cluster \cup {None}
    BY <1>4 DEF LoadCluster, Cluster, ClusterRow
  <1> QED
    BY <1>1, <1>2, <1>3, <1>4, <1>5

\* What is published of a typed working set is a typed provider snapshot.
LEMMA CompiledType ==
    ASSUME NEW rs \in RouteMap, NEW cs \in ClusterMap, NEW v \in Nat
    PROVE  Compiled(rs, cs, v) \in Provider
  <1>1. \A r \in RouteIds : (IF rs[r] # None /\ rs[r].enabled THEN rs[r].cluster ELSE None)
                            \in ClusterIds \cup {None}
    BY DEF RouteMap, Route
  <1>2. \A c \in ClusterIds : cs[c] # None => SanitizeCluster(cs[c].dests) \in Dests
    BY EntityTypes DEF ClusterMap, Cluster
  <1> QED
    BY <1>1, <1>2 DEF Compiled, Provider

\* The history of what the saves were given keeps its type.
LEMMA GivenType ==
    /\ Forgotten \in Since
    /\ \A past \in Since, rs \in RouteMap, cs \in ClusterMap : Given(past, rs, cs) \in Since
  <1>1. Forgotten \in Since
    BY DEF Forgotten, Since
  <1>2. ASSUME NEW past \in Since, NEW rs \in RouteMap, NEW cs \in ClusterMap
        PROVE  Given(past, rs, cs) \in Since
    <2>1. ASSUME NEW r \in RouteIds
          PROVE  past.routes[r] \cup {RouteEntity(rs[r])} \in SUBSET (RouteRow \cup {None})
      <3>1. past.routes[r] \in SUBSET (RouteRow \cup {None})
        BY DEF Since
      <3> QED
        BY <3>1, EntityTypes DEF RouteMap
    <2>2. ASSUME NEW c \in ClusterIds
          PROVE  past.clusters[c] \cup {cs[c]} \in SUBSET (Cluster \cup {None})
      <3>1. past.clusters[c] \in SUBSET (Cluster \cup {None})
        BY DEF Since
      <3> QED
        BY <3>1 DEF ClusterMap
    <2> QED
      BY <2>1, <2>2 DEF Given, Since
  <1> QED
    BY <1>1, <1>2

\* The rows a full save looks up are those of ids of its own table.
LEMMA StaleTypes ==
    /\ \A rs : StaleRoutes(rs) \in SUBSET RouteIds
    /\ StaleClusters \in SUBSET ClusterIds
  BY DEF StaleRoutes, StaleClusters

\* Only a null record becomes a null row.
LEMMA EntityNull ==
    /\ \A rt \in Route \cup {None} : RouteEntity(rt) = None <=> rt = None
    /\ \A cl \in Cluster \cup {None} : ClusterEntity(cl) = None <=> cl = None
  <1>1. \A rt \in Route : RouteEntity(rt) \in RouteRow
    BY ConstantsAssumption DEF Route, RouteRow, RouteEntity
  <1>2. \A cl \in Cluster : ClusterEntity(cl) \in ClusterRow
    BY ConstantsAssumption DEF Cluster, ClusterRow, ClusterEntity
  <1> QED
    BY <1>1, <1>2, ConstantsAssumption DEF RouteEntity, ClusterEntity
-----------------------------------------------------------------------------
(* Type correctness. *)

\* An edit that leaves the working set well typed keeps every variable well typed.
LEMMA EditType ==
    ASSUME TypeOK, NEW kind \in Kinds, NEW r \in RouteIds \cup {None}, NEW c \in ClusterIds \cup {None},
           Edit(kind, r, c), routes' \in RouteMap, clusters' \in ClusterMap
    PROVE  TypeOK'
  <1>1. op' \in Op
    BY DEF Edit, OpAt, Op, Pcs
  <1> QED
    BY <1>1 DEF Edit, TypeOK, database, RouteMap, ClusterMap

\* The record a route request leaves behind is a route.
LEMMA UpsertedRouteType ==
    ASSUME TypeOK, NEW r \in RouteIds, NEW c \in ClusterIds, HasFresh({r}, UsedRouteUids)
    PROVE  UpsertedRoute(r, c) \in Route
  <1>1. ResolveClusterUid(clusters, c) \in Uids \cup {None}
    BY ResolveType DEF TypeOK, ClusterMap
  <1>2. Fresh({r}, UsedRouteUids)[r] \in Uids
    BY FreshFacts
  <1>3. routes[r] \in Route \cup {None}
    BY DEF TypeOK
  <1> QED
    BY <1>1, <1>2, <1>3 DEF UpsertedRoute, Route, Sources

\* Creating a cluster, or writing destinations to an existing one, yields a cluster record.
LEMMA UpsertedClusterType ==
    ASSUME TypeOK, NEW c \in ClusterIds, NEW ds \in Dests, HasFresh({c}, UsedClusterUids)
    PROVE  UpsertedCluster(c, ds) \in Cluster
  <1>1. Fresh({c}, UsedClusterUids)[c] \in Uids
    BY FreshFacts
  <1>2. clusters[c] \in Cluster \cup {None}
    BY DEF TypeOK
  <1> QED
    BY <1>1, <1>2 DEF UpsertedCluster, Cluster, Sources

\* The operations on one route keep the types.
LEMMA RouteEditType == TypeOK /\ RouteEdit => TypeOK'
  <1> SUFFICES ASSUME TypeOK, RouteEdit PROVE TypeOK'
    OBVIOUS
  <1>0. routes \in RouteMap /\ clusters \in ClusterMap
    BY DEF TypeOK, RouteMap, ClusterMap
  <1>1. ASSUME NEW r \in RouteIds, NEW c \in ClusterIds, NEW a \in Addresses, NEW iso \in BOOLEAN,
               NEW ip \in (DestKeys \ {D1}) \cup {None}, AddRoute(r, c, a, iso, ip)
        PROVE  TypeOK'
    <2> DEFINE key == IF iso /\ ip # None THEN ip ELSE D1
               d == [address |-> a, health |-> FALSE]
    <2>1. key \in DestKeys /\ d \in Dest
      BY ConstantsAssumption DEF Dest
    <2>2. routes' \in RouteMap
      BY <1>0, <1>1, UpsertedRouteType DEF AddRoute, RouteMap
    <2>3. CASE clusters[c] = None /\ HasFresh({c}, UsedClusterUids) /\
               clusters' = [clusters EXCEPT ![c] =
                    [uid |-> Fresh({c}, UsedClusterUids)[c], source |-> "dynamic",
                     dests |-> [NoDests EXCEPT ![key] = d]]]
      <3>1. Fresh({c}, UsedClusterUids)[c] \in Uids
        BY <2>3, FreshFacts
      <3>2. [NoDests EXCEPT ![key] = d] \in Dests
        BY <2>1 DEF NoDests, Dests
      <3>3. clusters' \in ClusterMap
        BY <1>0, <2>3, <3>1, <3>2 DEF ClusterMap, Cluster, Sources
      <3> QED
        BY <1>1, <2>2, <3>3, EditType DEF AddRoute, Kinds
    <2>4. CASE clusters[c] # None /\ clusters' = [clusters EXCEPT ![c].dests[D1] = d]
      <3>1. clusters[c].dests \in Dests /\ clusters[c] \in Cluster
        BY <1>0, <2>4 DEF ClusterMap, Cluster
      <3>2. [clusters[c].dests EXCEPT ![D1] = d] \in Dests
        BY <2>1, <3>1, ConstantsAssumption DEF Dests
      <3>3. clusters' \in ClusterMap
        BY <1>0, <2>4, <3>1, <3>2 DEF ClusterMap, Cluster
      <3> QED
        BY <1>1, <2>2, <3>3, EditType DEF AddRoute, Kinds
    <2>5. CASE clusters' = clusters
      BY <1>0, <1>1, <2>2, <2>5, EditType DEF AddRoute, Kinds
    <2> QED
      BY <1>1, <2>3, <2>4, <2>5 DEF AddRoute
  <1>2. ASSUME NEW r \in RouteIds, NEW c \in ClusterIds, AddRouteConfig(r, c)
        PROVE  TypeOK'
    <2>1. routes' \in RouteMap
      BY <1>0, <1>2, UpsertedRouteType DEF AddRouteConfig, RouteMap
    <2> QED
      BY <1>0, <1>2, <2>1, EditType DEF AddRouteConfig, Kinds
  <1>3. ASSUME NEW r \in RouteIds, NEW ip \in DestKeys \ {D1}, RemoveRouteForClient(r, ip)
        PROVE  TypeOK'
    <2> DEFINE c == routes[r].cluster
               rest == [clusters[c].dests EXCEPT ![ip] = None]
    <2>1. routes' \in RouteMap /\ c \in ClusterIds
      BY <1>0, <1>3 DEF RemoveRouteForClient, RouteMap, Route
    <2>2. CASE clusters[c] # None /\ clusters' = [clusters EXCEPT ![c] =
                    IF rest = NoDests THEN None ELSE [clusters[c] EXCEPT !.dests = rest]]
      <3>1. rest \in Dests /\ clusters[c] \in Cluster
        BY <1>0, <2>1, <2>2 DEF ClusterMap, Cluster, Dests
      <3>2. clusters' \in ClusterMap
        BY <1>0, <2>2, <3>1 DEF ClusterMap, Cluster
      <3> QED
        BY <1>3, <2>1, <3>2, EditType DEF RemoveRouteForClient, Kinds
    <2>3. CASE clusters' = clusters
      BY <1>0, <1>3, <2>1, <2>3, EditType DEF RemoveRouteForClient, Kinds
    <2> QED
      BY <1>3, <2>2, <2>3 DEF RemoveRouteForClient
  <1>4. ASSUME NEW r \in RouteIds, NEW b \in BOOLEAN, RemoveRoute(r, b)
        PROVE  TypeOK'
    <2>1. routes' \in RouteMap /\ clusters' \in ClusterMap
      BY <1>0, <1>4 DEF RemoveRoute, RouteMap, ClusterMap
    <2> QED
      BY <1>4, <2>1, EditType DEF RemoveRoute, Kinds
  <1>5. ASSUME NEW r \in RouteIds, NEW b \in BOOLEAN, SetRouteEnabled(r, b)
        PROVE  TypeOK'
    <2>1. routes[r] \in Route
      BY <1>0, <1>5 DEF SetRouteEnabled, RouteMap
    <2>2. [routes[r] EXCEPT !.enabled = b] \in Route
      BY <2>1 DEF Route
    <2>3. routes' \in RouteMap
      BY <1>0, <1>5, <2>2 DEF SetRouteEnabled, RouteMap
    <2> QED
      BY <1>0, <1>5, <2>3, EditType DEF SetRouteEnabled, Kinds
  <1>6. ASSUME NEW old \in RouteIds, NEW new \in RouteIds, NEW c \in ClusterIds \cup {None},
               RenameRoute(old, new, c)
        PROVE  TypeOK'
    <2> DEFINE target == IF c # None THEN c ELSE routes[old].cluster
    <2>1. routes[old] \in Route /\ target \in ClusterIds
      BY <1>0, <1>6 DEF RenameRoute, RouteMap, Route
    <2>2. ResolveClusterUid(clusters, target) \in Uids \cup {None}
      BY <1>0, <2>1, ResolveType
    <2>3. [uid |-> routes[old].uid, cluster |-> target,
           clusterUid |-> ResolveClusterUid(clusters, target),
           source |-> "dynamic", enabled |-> TRUE] \in Route
      BY <2>1, <2>2 DEF Route, Sources
    <2>4. routes' \in RouteMap
      BY <1>0, <1>6, <2>3 DEF RenameRoute, RouteMap
    <2> QED
      BY <1>0, <1>6, <2>4, EditType DEF RenameRoute, Kinds
  <1> QED
    BY <1>1, <1>2, <1>3, <1>4, <1>5, <1>6 DEF RouteEdit

\* The operations on one cluster keep the types.
LEMMA ClusterEditType == TypeOK /\ ClusterEdit => TypeOK'
  <1> SUFFICES ASSUME TypeOK, ClusterEdit PROVE TypeOK'
    OBVIOUS
  <1>0. routes \in RouteMap /\ clusters \in ClusterMap
    BY DEF TypeOK, RouteMap, ClusterMap
  <1>i. \A ds \in DestInputs : ds \in Dests /\ LoadDests(ds) \in Dests
    BY ConstantsAssumption, EntityTypes
  <1>1. ASSUME NEW c \in ClusterIds, NEW ds \in Dests, AddClusterConfig(c, ds)
        PROVE  TypeOK'
    <2>1. clusters' \in ClusterMap
      BY <1>0, <1>1, UpsertedClusterType DEF AddClusterConfig, ClusterMap
    <2> QED
      BY <1>0, <1>1, <2>1, EditType DEF AddClusterConfig, Kinds
  <1>2. ASSUME NEW c \in ClusterIds, NEW ds \in DestInputs, CreateCluster(c, ds)
        PROVE  TypeOK'
    <2>1. Fresh({c}, UsedClusterUids)[c] \in Uids
      BY <1>2, FreshFacts DEF CreateCluster
    <2>2. clusters' \in ClusterMap
      BY <1>0, <1>2, <1>i, <2>1 DEF CreateCluster, ClusterMap, Cluster, Sources
    <2> QED
      BY <1>0, <1>2, <2>2, EditType DEF CreateCluster, Kinds
  <1>3. ASSUME NEW c \in ClusterIds, NEW ds \in DestInputs \cup {None}, UpdateCluster(c, ds)
        PROVE  TypeOK'
    <2>1. clusters[c] \in Cluster
      BY <1>0, <1>3 DEF UpdateCluster, ClusterMap
    <2>2. (IF ds = None THEN clusters[c].dests ELSE LoadDests(ds)) \in Dests
      BY <1>i, <2>1 DEF Cluster
    <2>3. clusters' \in ClusterMap
      BY <1>0, <1>3, <2>1, <2>2 DEF UpdateCluster, ClusterMap, Cluster
    <2> QED
      BY <1>0, <1>3, <2>3, EditType DEF UpdateCluster, Kinds
  <1>4. ASSUME NEW c \in ClusterIds, RemoveCluster(c)
        PROVE  TypeOK'
    <2>1. clusters' \in ClusterMap
      BY <1>0, <1>4 DEF RemoveCluster, ClusterMap
    <2> QED
      BY <1>0, <1>4, <2>1, EditType DEF RemoveCluster, Kinds
  <1>5. ASSUME NEW old \in ClusterIds, NEW new \in ClusterIds, NEW ds \in DestInputs \cup {NoDests},
               RenameCluster(old, new, ds)
        PROVE  TypeOK'
    <2>1. clusters[old] \in Cluster
      BY <1>0, <1>5 DEF RenameCluster, ClusterMap
    <2>2. (IF ds = NoDests THEN clusters[old].dests ELSE LoadDests(ds)) \in Dests
      BY <1>i, <2>1 DEF Cluster
    <2>3. clusters' \in ClusterMap
      BY <1>0, <1>5, <2>1, <2>2 DEF RenameCluster, ClusterMap, Cluster, Sources
    <2>4. ASSUME NEW r \in RouteIds, routes[r] # None
          PROVE  [routes[r] EXCEPT !.cluster = new, !.clusterUid = clusters[old].uid] \in Route
      BY <1>0, <2>1, <2>4 DEF RouteMap, Route, Cluster
    <2>5. routes' \in RouteMap
      BY <1>0, <1>5, <2>4 DEF RenameCluster, RouteMap
    <2> QED
      BY <1>5, <2>3, <2>5, EditType DEF RenameCluster, Kinds
  <1> QED
    BY <1>i, <1>1, <1>2, <1>3, <1>4, <1>5 DEF ClusterEdit, AddCluster

\* The content of a document merged into the working set is well typed.
LEMMA ImportedTypes ==
    ASSUME TypeOK, NEW doc \in Document,
           NEW ru \in [NewRoutesOf(doc) -> Uids], NEW cu \in [NewClustersOf(doc) -> Uids],
           NEW cs \in ClusterMap
    PROVE  ImportedClusters(doc, cu) \in ClusterMap /\ ImportedRoutes(doc, cs, ru) \in RouteMap
  <1>1. ASSUME NEW c \in ClusterIds
        PROVE  ImportedClusters(doc, cu)[c] \in Cluster \cup {None}
    <2>1. doc.clusters[c] \in Dests \cup {None} /\ clusters[c] \in Cluster \cup {None}
      BY DEF Document, TypeOK
    <2>2. CASE doc.clusters[c] # None /\ clusters[c] # None
      BY <2>1, <2>2 DEF ImportedClusters, Cluster
    <2>3. CASE doc.clusters[c] # None /\ clusters[c] = None
      <3>1. cu[c] \in Uids
        BY <2>3 DEF NewClustersOf
      <3> QED
        BY <2>1, <2>3, <3>1 DEF ImportedClusters, Cluster, Sources
    <2>4. CASE doc.clusters[c] = None
      BY <2>1, <2>4 DEF ImportedClusters
    <2> QED
      BY <2>2, <2>3, <2>4
  <1>2. ASSUME NEW r \in RouteIds
        PROVE  ImportedRoutes(doc, cs, ru)[r] \in Route \cup {None}
    <2>1. doc.routes[r] \in ClusterIds \cup {None} /\ routes[r] \in Route \cup {None}
      BY DEF Document, TypeOK
    <2>u. doc.routes[r] # None => ResolveClusterUid(cs, doc.routes[r]) \in Uids \cup {None}
      BY <2>1, ResolveType
    <2>2. CASE doc.routes[r] # None /\ routes[r] # None
      BY <2>1, <2>u, <2>2 DEF ImportedRoutes, Route
    <2>3. CASE doc.routes[r] # None /\ routes[r] = None
      <3>1. ru[r] \in Uids
        BY <2>3 DEF NewRoutesOf
      <3> QED
        BY <2>1, <2>u, <2>3, <3>1 DEF ImportedRoutes, Route, Sources
    <2>4. CASE doc.routes[r] = None
      BY <2>1, <2>4 DEF ImportedRoutes
    <2> QED
      BY <2>2, <2>3, <2>4
  <1> QED
    BY <1>1, <1>2 DEF ImportedClusters, ImportedRoutes, ClusterMap, RouteMap

\* Import, rollback and the batch operations keep the types.
LEMMA BatchEditType == TypeOK /\ BatchEdit => TypeOK'
  <1> SUFFICES ASSUME TypeOK, BatchEdit PROVE TypeOK'
    OBVIOUS
  <1>0. routes \in RouteMap /\ clusters \in ClusterMap
    BY DEF TypeOK, RouteMap, ClusterMap
  <1>1. ASSUME NEW doc \in Documents, ImportBatch(doc)
        PROVE  TypeOK'
    <2>1. doc \in Document
      BY ConstantsAssumption
    <2>2. clusters' \in ClusterMap
      BY <1>0, <1>1, <2>1, ImportedTypes, FreshFacts DEF ImportBatch
    <2>3. routes' \in RouteMap
      BY <1>0, <1>1, <2>1, <2>2, ImportedTypes, FreshFacts DEF ImportBatch
    <2> QED
      BY <1>1, <2>2, <2>3, EditType DEF ImportBatch, Kinds
  <1>2. ASSUME NEW doc \in Documents, ReplaceAllConfig(doc)
        PROVE  TypeOK'
    <2>1. doc \in Document
      BY ConstantsAssumption
    <2>2. ImportedClusters(doc, Fresh(NewClustersOf(doc), UsedClusterUids)) \in ClusterMap
      BY <1>0, <1>2, <2>1, ImportedTypes, FreshFacts DEF ReplaceAllConfig
    <2>3. clusters' \in ClusterMap
      BY <1>2, <2>2 DEF ReplaceAllConfig, ClusterMap
    <2>4. ImportedRoutes(doc, clusters', Fresh(NewRoutesOf(doc), UsedRouteUids)) \in RouteMap
      BY <1>0, <1>2, <2>1, <2>3, ImportedTypes, FreshFacts DEF ReplaceAllConfig
    <2>5. routes' \in RouteMap
      BY <1>2, <2>4 DEF ReplaceAllConfig, RouteMap
    <2> QED
      BY <1>2, <2>3, <2>5, EditType DEF ReplaceAllConfig, Kinds
  <1>3. ASSUME NEW ids \in SUBSET ClusterIds, BatchDeleteClusters(ids)
        PROVE  TypeOK'
    <2>1. clusters' \in ClusterMap
      BY <1>0, <1>3 DEF BatchDeleteClusters, ClusterMap
    <2> QED
      BY <1>0, <1>3, <2>1, EditType DEF BatchDeleteClusters, Kinds
  <1>4. ASSUME NEW ids \in Batches, NEW b \in BOOLEAN, BatchDeleteRoutes(ids, b)
        PROVE  TypeOK'
    <2>1. clusters' \in ClusterMap /\ routes' \in RouteMap
      BY <1>0, <1>4 DEF BatchDeleteRoutes, ClusterMap, RouteMap
    <2> QED
      BY <1>4, <2>1, EditType DEF BatchDeleteRoutes, Kinds
  <1>5. ASSUME NEW ids \in Batches, NEW b \in BOOLEAN, BatchSetRoutesEnabled(ids, b)
        PROVE  TypeOK'
    <2>1. \A r \in RouteIds : routes[r] # None => [routes[r] EXCEPT !.enabled = b] \in Route
      BY <1>0 DEF RouteMap, Route
    <2>2. routes' \in RouteMap
      BY <1>0, <1>5, <2>1 DEF BatchSetRoutesEnabled, RouteMap
    <2> QED
      BY <1>0, <1>5, <2>2, EditType DEF BatchSetRoutesEnabled, Kinds
  <1> QED
    BY <1>1, <1>2, <1>3, <1>4, <1>5 DEF BatchEdit

\* Publishing and the steps of a save keep the types.
LEMMA OpStepType == TypeOK /\ OpStep => TypeOK'
  <1> SUFFICES ASSUME TypeOK, OpStep PROVE TypeOK'
    OBVIOUS
  <1>0. routes \in RouteMap /\ clusters \in ClusterMap
    BY DEF TypeOK, RouteMap, ClusterMap
  <1>i. Idle \in Op
    BY DEF Idle, OpAt, Op, Pcs, Kinds
  <1>f. ASSUME NEW outcome \in {"no", "failed", "stale"}, Finish(outcome)
        PROVE  op' \in Op /\ dirty' \in {"no", "failed", "stale"} /\ since' \in Since
    <2>1. op' \in Op /\ dirty' \in {"no", "failed", "stale"}
      BY <1>i, <1>f DEF Finish, TypeOK, Op, Pcs
    <2>2. since' \in Since
      BY <1>0, <1>f, GivenType DEF Finish, TypeOK
    <2> QED
      BY <2>1, <2>2
  <1>r. RouteIds = DOMAIN dbRoutes /\ \A r \in RouteIds : RouteEntity(routes[r]) \in RouteRow \cup {None}
    BY <1>0, EntityTypes DEF TypeOK, RouteMap
  <1>c. \A c \in ClusterIds : /\ ClusterEntity(clusters[c]) \in ClusterRow \cup {None}
                              /\ DestEntities(clusters[c]) \in Dests
    BY <1>0, EntityTypes DEF ClusterMap
  <1>1. CASE Publish
    <2>1. provider' \in Provider
      BY <1>0, <1>1, CompiledType DEF Publish, TypeOK
    <2>2. op' \in Op
      <3>1. {} \in SUBSET (RouteIds \cup ClusterIds) /\ StaleRoutes(routes) \in SUBSET (RouteIds \cup ClusterIds)
        BY StaleTypes
      <3> QED
        BY <1>1, <1>i, <3>1 DEF Publish, FirstSaveStep, TypeOK, Op, Pcs
    <2>3. since' \in Since
      BY <1>0, <1>1, GivenType DEF Publish, TypeOK
    <2> QED
      BY <1>1, <2>1, <2>2, <2>3 DEF Publish, TypeOK, memory, database
  <1>2. CASE PublishFails
    <2>1. routes' \in RouteMap /\ clusters' \in ClusterMap /\ version' = version
      BY <1>0, <1>2 DEF PublishFails, RouteMap, ClusterMap, memory
    <2>f. faults \in Nat /\ faults' = faults + 1
      BY <1>2 DEF PublishFails, TypeOK
    <2>s. served' \in BOOLEAN
      BY <1>2, Zenon DEF PublishFails
    <2>2. faults' \in Nat
      BY <2>f
    <2>3. op' \in Op /\ dirty' \in {"no", "failed", "stale"}
      BY <1>2, <1>i DEF PublishFails, TypeOK
    <2>4. UNCHANGED <<provider, dbRoutes, dbClusters, dbDests, restarts, since>>
      BY <1>2 DEF PublishFails, database
    <2> QED
      BY <2>1, <2>2, <2>s, <2>3, <2>4 DEF TypeOK, RouteMap, ClusterMap
  <1>3. CASE SaveRoute
    <2>1. dbRoutes' \in [RouteIds -> RouteRow \cup {None}]
      BY <1>3, <1>r DEF SaveRoute, TypeOK
    <2>2. op' \in Op /\ dirty' \in {"no", "failed", "stale"} /\ since' \in Since
      BY <1>3, <1>f DEF SaveRoute, FinishIncremental, TypeOK, Op, Pcs
    <2> QED
      BY <1>3, <2>1, <2>2 DEF SaveRoute, TypeOK, memory
  <1>4. CASE SaveCluster
    <2>1. dbClusters' \in [ClusterIds -> ClusterRow \cup {None}]
      BY <1>4, <1>c DEF SaveCluster, TypeOK
    <2>2. op' \in Op
      BY <1>4 DEF SaveCluster, TypeOK, Op, Pcs
    <2> QED
      BY <1>4, <2>1, <2>2 DEF SaveCluster, TypeOK, memory
  <1>5. CASE SaveDestinations
    <2>1. dbDests' \in [ClusterIds -> Dests]
      BY <1>5, <1>c DEF SaveDestinations, TypeOK
    <2>2. op' \in Op /\ dirty' \in {"no", "failed", "stale"} /\ since' \in Since
      BY <1>5, <1>f DEF SaveDestinations, FinishIncremental
    <2> QED
      BY <1>5, <2>1, <2>2 DEF SaveDestinations, TypeOK, memory
  <1>6. ASSUME NEW r \in RouteIds, DeleteStaleRoute(r)
        PROVE  TypeOK'
    <2>1. dbRoutes' \in [RouteIds -> RouteRow \cup {None}]
      BY <1>6 DEF DeleteStaleRoute, TypeOK
    <2>2. op' \in Op
      BY <1>6 DEF DeleteStaleRoute, TypeOK, Op
    <2> QED
      BY <1>6, <2>1, <2>2 DEF DeleteStaleRoute, TypeOK, memory
  <1>7. CASE SaveRoutes
    <2>1. dbRoutes' \in [RouteIds -> RouteRow \cup {None}]
      BY <1>7, <1>r DEF SaveRoutes, TypeOK
    <2>2. op' \in Op
      BY <1>7, StaleTypes DEF SaveRoutes, TypeOK, Op, Pcs
    <2> QED
      BY <1>7, <2>1, <2>2 DEF SaveRoutes, TypeOK, memory
  <1>8. ASSUME NEW c \in ClusterIds, DeleteStaleDestinations(c)
        PROVE  TypeOK'
    <2>1. dbDests' \in [ClusterIds -> Dests]
      BY <1>8 DEF DeleteStaleDestinations, TypeOK, NoDests, Dests
    <2>2. op' \in Op
      BY <1>8 DEF DeleteStaleDestinations, TypeOK, Op
    <2> QED
      BY <1>8, <2>1, <2>2 DEF DeleteStaleDestinations, TypeOK, memory
  <1>9. CASE DeleteStaleCluster
    <2>1. dbClusters' \in [ClusterIds -> ClusterRow \cup {None}]
      BY <1>9 DEF DeleteStaleCluster, TypeOK
    <2>2. op' \in Op
      BY <1>9 DEF DeleteStaleCluster, TypeOK, Op
    <2> QED
      BY <1>9, <2>1, <2>2 DEF DeleteStaleCluster, TypeOK, memory
  <1>10. CASE SaveClusters
    <2>1. dbClusters' \in [ClusterIds -> ClusterRow \cup {None}]
      BY <1>10, <1>c DEF SaveClusters, TypeOK
    <2>2. op' \in Op /\ dirty' \in {"no", "failed", "stale"} /\ since' \in Since
      <3>1. CASE FinishFull
        BY <3>1, <1>f DEF FinishFull
      <3>2. CASE /\ op' = [op EXCEPT !.pc = "saveAllDests", !.pending = LiveClusters]
                 /\ dirty' = dirty /\ since' = since
        <4>1. LiveClusters \in SUBSET ClusterIds
          BY DEF LiveClusters
        <4> QED
          BY <3>2, <4>1 DEF TypeOK, Op, Pcs
      <3> QED
        BY <1>10, <3>1, <3>2 DEF SaveClusters
    <2> QED
      BY <1>10, <2>1, <2>2 DEF SaveClusters, TypeOK, memory
  <1>11. ASSUME NEW c \in ClusterIds, SaveDestinationsOf(c)
         PROVE  TypeOK'
    <2>1. dbDests' \in [ClusterIds -> Dests]
      BY <1>11, <1>c DEF SaveDestinationsOf, TypeOK
    <2>2. op' \in Op /\ dirty' \in {"no", "failed", "stale"} /\ since' \in Since
      BY <1>11, <1>f DEF SaveDestinationsOf, FinishFull, TypeOK, Op
    <2> QED
      BY <1>11, <2>1, <2>2 DEF SaveDestinationsOf, TypeOK, memory
  <1>12. ASSUME SaveFails, faults' \in Nat
         PROVE  TypeOK'
    <2>1. op' \in Op /\ dirty' \in {"no", "failed", "stale"} /\ since' \in Since
      BY <1>12, <1>f DEF SaveFails
    <2> QED
      BY <1>12, <2>1 DEF SaveFails, TypeOK, memory, database
  <1>13. CASE CallThrows
    BY <1>12, <1>13 DEF CallThrows, TypeOK
  <1>14. CASE UniqueIndexThrows
    BY <1>12, <1>14 DEF UniqueIndexThrows, TypeOK
  <1> QED
    BY <1>1, <1>2, <1>3, <1>4, <1>5, <1>6, <1>7, <1>8, <1>9, <1>10, <1>11, <1>13, <1>14 DEF OpStep

\* appsettings.json overlaid on loaded records gives well-typed records.
LEMMA MarkStaticTypes ==
    ASSUME NEW rs \in RouteMap, NEW cs \in ClusterMap, NEW doc \in Document,
           NEW ru \in [{r \in RouteIds : doc.routes[r] # None /\ rs[r] = None} -> Uids],
           NEW cu \in [{c \in ClusterIds : doc.clusters[c] # None /\ cs[c] = None} -> Uids]
    PROVE  /\ MarkStaticRoutes(rs, cs, doc, ru) \in RouteMap
           /\ MarkStaticClusters(cs, doc, cu) \in ClusterMap
  <1>1. ASSUME NEW r \in RouteIds
        PROVE  MarkStaticRoutes(rs, cs, doc, ru)[r] \in Route \cup {None}
    <2>1. doc.routes[r] \in ClusterIds \cup {None} /\ rs[r] \in Route \cup {None}
      BY DEF Document, RouteMap
    <2>u. doc.routes[r] # None => ResolveClusterUid(cs, doc.routes[r]) \in Uids \cup {None}
      BY <2>1, ResolveType
    <2>2. CASE doc.routes[r] # None /\ rs[r] # None
      BY <2>1, <2>u, <2>2 DEF MarkStaticRoutes, Route
    <2>3. CASE doc.routes[r] # None /\ rs[r] = None
      BY <2>1, <2>u, <2>3 DEF MarkStaticRoutes, Route, Sources
    <2>4. CASE doc.routes[r] = None
      BY <2>1, <2>4 DEF MarkStaticRoutes
    <2> QED
      BY <2>2, <2>3, <2>4
  <1>2. ASSUME NEW c \in ClusterIds
        PROVE  MarkStaticClusters(cs, doc, cu)[c] \in Cluster \cup {None}
    <2>1. doc.clusters[c] \in Dests \cup {None} /\ cs[c] \in Cluster \cup {None}
      BY DEF Document, ClusterMap
    <2>2. CASE doc.clusters[c] # None /\ cs[c] # None
      BY <2>1, <2>2 DEF MarkStaticClusters, Cluster
    <2>3. CASE doc.clusters[c] # None /\ cs[c] = None
      BY <2>1, <2>3 DEF MarkStaticClusters, Cluster, Sources
    <2>4. CASE doc.clusters[c] = None
      BY <2>1, <2>4 DEF MarkStaticClusters
    <2> QED
      BY <2>2, <2>3, <2>4
  <1> QED
    BY <1>1, <1>2 DEF MarkStaticRoutes, MarkStaticClusters, RouteMap, ClusterMap

\* What the tables hold is loaded as well-typed records.
LEMMA LoadedTypes ==
    ASSUME TypeOK, NEW ok \in BOOLEAN
    PROVE  LoadedRoutes(ok) \in RouteMap /\ LoadedClusters(ok) \in ClusterMap
  BY EntityTypes DEF LoadedRoutes, LoadedClusters, RouteMap, ClusterMap, TypeOK

\* A process start keeps the types, whatever a crash left in the tables.
LEMMA LifecycleType == TypeOK /\ Lifecycle => TypeOK'
  <1> SUFFICES ASSUME TypeOK, Lifecycle PROVE TypeOK'
    OBVIOUS
  <1>1. ASSUME NEW doc \in AppSettings, NEW ok \in BOOLEAN, Start(doc, ok)
        PROVE  /\ routes' \in RouteMap /\ clusters' \in ClusterMap /\ version' \in Nat
               /\ provider' \in Provider /\ op' \in Op /\ since' \in Since
               /\ dirty' = "failed" /\ served' = FALSE
    <2>1. doc \in Document
      BY ConstantsAssumption
    <2>2. routes' \in RouteMap /\ clusters' \in ClusterMap
      BY <1>1, <2>1, LoadedTypes, MarkStaticTypes, FreshFacts DEF Start
    <2>3. provider' \in Provider
      BY <1>1, <2>1 DEF Start, StaticProvider, Provider, Document
    <2>4. op' \in Op
      <3>1. StaleRoutes(routes') \in SUBSET (RouteIds \cup ClusterIds)
        BY StaleTypes
      <3> QED
        BY <1>1, <3>1 DEF Start, OpAt, Op, Pcs, Kinds
    <2>5. since' \in Since
      BY <1>1, <2>2, GivenType DEF Start, TypeOK
    <2> QED
      BY <1>1, <2>2, <2>3, <2>4, <2>5 DEF Start
  <1>2. ASSUME NEW doc \in AppSettings, FirstStart(doc)
        PROVE  TypeOK'
    BY <1>1, <1>2 DEF FirstStart, TypeOK, RouteMap, ClusterMap, database
  <1>3. ASSUME NEW doc \in AppSettings, Restart(doc)
        PROVE  TypeOK'
    <2>1. restarts' \in Nat /\ faults' \in Nat
      <3>1. restarts \in Nat /\ restarts' = restarts + 1 /\ faults \in Nat /\ faults' \in {faults, faults + 1}
        BY <1>3 DEF Restart, TypeOK
      <3> QED
        BY <3>1
    <2>2. UNCHANGED <<dbRoutes, dbClusters, dbDests>>
      BY <1>3 DEF Restart, database
    <2>3. \E ok \in BOOLEAN : Start(doc, ok)
      BY <1>3 DEF Restart
    <2> QED
      BY <1>1, <2>1, <2>2, <2>3 DEF TypeOK, RouteMap, ClusterMap
  <1>4. ASSUME NEW doc \in AppSettings, RestartLoadFails(doc)
        PROVE  TypeOK'
    <2>1. restarts' \in Nat /\ faults' \in Nat
      <3>1. restarts \in Nat /\ restarts' = restarts + 1 /\ faults \in Nat /\ faults' \in {faults, faults + 1}
        BY <1>4 DEF RestartLoadFails, TypeOK
      <3> QED
        BY <3>1
    <2>2. UNCHANGED <<dbRoutes, dbClusters, dbDests>>
      BY <1>4 DEF RestartLoadFails, database
    <2>3. \E ok \in BOOLEAN : Start(doc, ok)
      BY <1>4 DEF RestartLoadFails
    <2> QED
      BY <1>1, <2>1, <2>2, <2>3 DEF TypeOK, RouteMap, ClusterMap
  <1> QED
    BY <1>2, <1>3, <1>4 DEF Lifecycle

\* Every step of the specification keeps the types.
LEMMA NextType == TypeOK /\ [Next]_vars => TypeOK'
  <1> SUFFICES ASSUME TypeOK, [Next]_vars PROVE TypeOK'
    OBVIOUS
  <1>1. CASE RefreshConfig \/ SaveDynamicConfig
    <2>a. \A kind \in Kinds, pc \in Pcs : OpAt(pc, kind, None, None) \in Op
      BY DEF OpAt, Op
    <2>1. op' \in Op
      <3>1. CASE RefreshConfig
        BY <2>a, <3>1 DEF RefreshConfig, Pcs, Kinds
      <3>2. CASE SaveDynamicConfig
        <4>1. OpAt("delRoutes", "SaveDynamicConfig", None, None) \in Op
          BY <2>a DEF Pcs, Kinds
        <4>2. StaleRoutes(routes) \in SUBSET (RouteIds \cup ClusterIds)
          BY StaleTypes
        <4> QED
          BY <3>2, <4>1, <4>2 DEF SaveDynamicConfig, Op
      <3> QED
        BY <1>1, <3>1, <3>2
    <2>2. UNCHANGED <<routes, clusters, version, provider, dbRoutes, dbClusters, dbDests,
                      faults, restarts, dirty, served>>
      BY <1>1 DEF RefreshConfig, SaveDynamicConfig, memory, database
    <2>3. routes \in RouteMap /\ clusters \in ClusterMap
      BY DEF TypeOK, RouteMap, ClusterMap
    <2>4. since' \in Since
      BY <1>1, <2>3, GivenType DEF RefreshConfig, SaveDynamicConfig, TypeOK
    <2> QED
      BY <2>1, <2>2, <2>4 DEF TypeOK
  <1>2. CASE UNCHANGED vars
    BY <1>2 DEF vars, TypeOK
  <1> QED
    BY <1>1, <1>2, RouteEditType, ClusterEditType, BatchEditType, OpStepType, LifecycleType DEF Next

\* The empty tables and the empty snapshot of a fresh process are well typed.
LEMMA InitType == Init => TypeOK
  <1> SUFFICES ASSUME Init PROVE TypeOK
    OBVIOUS
  <1>1. routes \in RouteMap /\ clusters \in ClusterMap /\ version \in Nat
    BY DEF Init, RouteMap, ClusterMap
  <1>2. provider \in Provider
    BY <1>1, CompiledType DEF Init
  <1>3. dbDests \in [ClusterIds -> Dests]
    BY DEF Init, NoDests, Dests
  <1>4. op \in Op
    BY DEF Init, Idle, OpAt, Op, Pcs, Kinds
  <1>5. since \in Since
    BY <1>1, GivenType DEF Init
  <1> QED
    BY <1>1, <1>2, <1>3, <1>4, <1>5 DEF Init, TypeOK, RouteMap, ClusterMap

\* Type correctness: through every operation, every failing call, every crash and every
\* start from half-written tables, the working set, the served snapshot, the tables and the
\* running operation keep their declared shapes.
THEOREM TypeCorrect == Spec => []TypeOK
  BY InitType, NextType, PTL DEF Spec
-----------------------------------------------------------------------------
(* Durability.  DurableWhenClean speaks of idle states only; what makes it *)
(* inductive is how far each save has come at each of its steps.           *)

ClusterKinds == {"AddCluster", "CreateCluster", "UpdateCluster"}

\* Destinations are never stored without their cluster.
DestsOwned == \A c \in ClusterIds : dbClusters[c] = None => dbDests[c] = NoDests

\* An incremental save knows the records it is about.
OpTargets ==
    /\ op.pc = "saveRoute" => op.kind = "AddOrUpdateRoute"
    /\ (op.pc \in {"publish", "saveRoute"} /\ op.kind = "AddOrUpdateRoute")
          => op.route \in RouteIds /\ op.cluster \in ClusterIds
    /\ (op.pc = "publish" /\ op.kind \in ClusterKinds) => op.cluster \in ClusterIds
    /\ op.pc \in {"saveCluster", "saveDests"}
          => /\ op.cluster \in ClusterIds /\ clusters[op.cluster] # None
             /\ op.kind \in ClusterKinds \cup {"AddOrUpdateRoute"}
    /\ op.pc = "saveDests" => dbClusters[op.cluster] = ClusterEntity(clusters[op.cluster])

\* A full save has settled the routes before it turns to the clusters, and the clusters
\* before it turns to their destinations.
FullSaveProgress ==
    /\ op.pc \in {"delClusters", "saveAllDests"} => RoutesInSync(RouteIds)
    /\ (op.pc = "delClusters" /\ op.cluster # None)
          => clusters[op.cluster] = None /\ dbDests[op.cluster] = NoDests
    /\ op.pc = "saveAllDests" => ClustersInSync(ClusterIds) /\ DestsInSync(ClusterIds \ op.pending)

\* From a clean state, an incremental save leaves out of step only what it is about to write.
IncrementalScope == dirty = "no" =>
    /\ (op.pc \in {"publish", "saveRoute"} /\ op.kind = "AddOrUpdateRoute")
          => /\ RoutesInSync(RouteIds \ {op.route})
             /\ ClustersInSync(ClusterIds \ {op.cluster}) /\ DestsInSync(ClusterIds \ {op.cluster})
             /\ clusters[op.cluster] = None => ClustersInSync({op.cluster}) /\ DestsInSync({op.cluster})
    /\ (\/ op.pc = "publish" /\ op.kind \in ClusterKinds /\ clusters[op.cluster] # None
        \/ op.pc \in {"saveCluster", "saveDests"})
          => /\ RoutesInSync(RouteIds)
             /\ ClustersInSync(ClusterIds \ {op.cluster}) /\ DestsInSync(ClusterIds \ {op.cluster})

\* Between operations, and before a publish that no save follows, the tables are in step.
Settled ==
    (/\ dirty = "no"
     /\ op.pc = "idle" \/ (op.pc = "publish" /\ op.kind \in {"RefreshConfig", "MarkStaticConfig"}))
       => InSync

\* The rows still listed for deletion are exactly those whose record is gone: nothing
\* comes back to life, and nothing else dies, while a save runs.
Listed ==
    /\ op.pc = "delRoutes" => op.pending = StaleRoutes(routes)
    /\ op.pc = "delClusters" => op.pending = StaleClusters /\ op.cluster \in StaleClusters \cup {None}

DurInv ==
    TypeOK /\ DestsOwned /\ OpTargets /\ FullSaveProgress /\ Listed /\ IncrementalScope /\ Settled

\* What an edit of kind AddOrUpdateRoute may change: the route and the cluster it names, and
\* that cluster only to a live one.
RouteScope(r, c) ==
    /\ r \in RouteIds /\ c \in ClusterIds
    /\ \A x \in RouteIds : x # r => routes'[x] = routes[x]
    /\ \A x \in ClusterIds : x # c => clusters'[x] = clusters[x]
    /\ clusters'[c] = None => clusters[c] = None

\* What an edit saved as a cluster may change, unless it took the cluster away.
ClusterScope(c) ==
    /\ c \in ClusterIds
    /\ clusters'[c] # None => /\ routes' = routes
                              /\ \A x \in ClusterIds : x # c => clusters'[x] = clusters[x]

\* An edit that stays within its scope keeps the durability invariant.
LEMMA EditDur ==
    ASSUME DurInv, TypeOK', NEW kind \in Kinds \ {"RefreshConfig", "MarkStaticConfig"}, NEW r, NEW c,
           Edit(kind, r, c),
           kind = "AddOrUpdateRoute" => RouteScope(r, c),
           kind \in ClusterKinds => ClusterScope(c)
    PROVE  DurInv'
  <1>o. op.pc = "idle" /\ op'.pc = "publish" /\ op'.kind = kind /\ op'.route = r /\ op'.cluster = c
    BY DEF Edit, OpAt
  <1>u. UNCHANGED <<dbRoutes, dbClusters, dbDests, dirty>>
    BY DEF Edit, database
  <1>1. DestsOwned'
    BY <1>u DEF DurInv, DestsOwned
  <1>2. OpTargets'
    BY <1>o DEF OpTargets, RouteScope, ClusterScope, ClusterKinds
  <1>3. FullSaveProgress'
    BY <1>o DEF FullSaveProgress
  <1>4. IncrementalScope'
    <2> SUFFICES ASSUME dirty = "no" PROVE IncrementalScope'
      BY <1>u DEF IncrementalScope
    <2>1. InSync
      BY <1>o DEF DurInv, Settled
    <2>2. CASE kind = "AddOrUpdateRoute"
      <3>1. RouteScope(r, c)
        BY <2>2
      <3>2. \A x \in RouteIds \ {r} : dbRoutes'[x] = RouteEntity(routes'[x])
        BY <1>u, <2>1, <3>1 DEF RouteScope, InSync, RoutesInSync
      <3>3. \A x \in ClusterIds \ {c} : /\ dbClusters'[x] = ClusterEntity(clusters'[x])
                                        /\ dbDests'[x] = DestEntities(clusters'[x])
        BY <1>u, <2>1, <3>1 DEF RouteScope, InSync, ClustersInSync, DestsInSync
      <3>4. clusters'[c] = None => /\ dbClusters'[c] = ClusterEntity(clusters'[c])
                                   /\ dbDests'[c] = DestEntities(clusters'[c])
        BY <1>u, <2>1, <3>1 DEF RouteScope, InSync, ClustersInSync, DestsInSync
      <3> QED
        BY <1>o, <2>2, <3>2, <3>3, <3>4
        DEF IncrementalScope, ClusterKinds, RoutesInSync, ClustersInSync, DestsInSync
    <2>3. CASE kind \in ClusterKinds
      <3>1. ClusterScope(c)
        BY <2>3
      <3>2. CASE clusters'[c] # None
        <4>1. \A x \in RouteIds : dbRoutes'[x] = RouteEntity(routes'[x])
          BY <1>u, <2>1, <3>1, <3>2 DEF ClusterScope, InSync, RoutesInSync
        <4>2. \A x \in ClusterIds \ {c} : /\ dbClusters'[x] = ClusterEntity(clusters'[x])
                                          /\ dbDests'[x] = DestEntities(clusters'[x])
          BY <1>u, <2>1, <3>1, <3>2 DEF ClusterScope, InSync, ClustersInSync, DestsInSync
        <4> QED
          BY <1>o, <2>3, <4>1, <4>2
          DEF IncrementalScope, ClusterKinds, RoutesInSync, ClustersInSync, DestsInSync
      <3>3. CASE clusters'[c] = None
        BY <1>o, <2>3, <3>3 DEF IncrementalScope, ClusterKinds
      <3> QED
        BY <3>2, <3>3
    <2>4. CASE kind # "AddOrUpdateRoute" /\ kind \notin ClusterKinds
      BY <1>o, <2>4 DEF IncrementalScope
    <2> QED
      BY <2>2, <2>3, <2>4
  <1>5. Settled' /\ Listed'
    BY <1>o DEF Settled, Listed
  <1> QED
    BY <1>1, <1>2, <1>3, <1>4, <1>5 DEF DurInv

\* Every edit stays within its scope: the incremental save it asks for covers it.
LEMMA EditsDur == DurInv /\ (RouteEdit \/ ClusterEdit \/ BatchEdit) => DurInv'
  <1> SUFFICES ASSUME DurInv, RouteEdit \/ ClusterEdit \/ BatchEdit PROVE DurInv'
    OBVIOUS
  <1>t. TypeOK /\ TypeOK'
    BY RouteEditType, ClusterEditType, BatchEditType DEF DurInv
  <1>0. routes \in RouteMap /\ clusters \in ClusterMap
    BY <1>t DEF TypeOK, RouteMap, ClusterMap
  <1>k. \A k \in {"RemoveRoute", "SetRouteEnabled", "UpdateRoute", "RemoveCluster", "Batch"} :
            k \in Kinds \ {"RefreshConfig", "MarkStaticConfig"} /\ k # "AddOrUpdateRoute" /\ k \notin ClusterKinds
    BY DEF Kinds, ClusterKinds
  <1>l. \A k \in ClusterKinds : k \in Kinds \ {"RefreshConfig", "MarkStaticConfig"} /\ k # "AddOrUpdateRoute"
    BY DEF Kinds, ClusterKinds
  <1>m. "AddOrUpdateRoute" \in Kinds \ {"RefreshConfig", "MarkStaticConfig"} /\ "AddOrUpdateRoute" \notin ClusterKinds
    BY DEF Kinds, ClusterKinds
  \* The kinds that a full save follows have no scope to keep.
  <1>f. ASSUME NEW k \in {"RemoveRoute", "SetRouteEnabled", "UpdateRoute", "RemoveCluster", "Batch"},
               NEW r, NEW c, Edit(k, r, c)
        PROVE  DurInv'
    BY <1>f, <1>k, <1>t, EditDur
  <1>r. ASSUME NEW r, NEW c, Edit("AddOrUpdateRoute", r, c), RouteScope(r, c)
        PROVE  DurInv'
    BY <1>r, <1>m, <1>t, EditDur
  <1>c. ASSUME NEW k \in ClusterKinds, NEW c, Edit(k, None, c), ClusterScope(c)
        PROVE  DurInv'
    BY <1>c, <1>l, <1>t, EditDur
  <1>1. ASSUME NEW r \in RouteIds, NEW c \in ClusterIds, NEW a \in Addresses, NEW iso \in BOOLEAN,
               NEW ip \in (DestKeys \ {D1}) \cup {None}, AddRoute(r, c, a, iso, ip)
        PROVE  DurInv'
    <2>1. RouteScope(r, c)
      <3>1. \A x \in RouteIds : x # r => routes'[x] = routes[x]
        BY <1>0, <1>1 DEF AddRoute, RouteMap
      <3>2. \A x \in ClusterIds : x # c => clusters'[x] = clusters[x]
        BY <1>0, <1>1 DEF AddRoute, ClusterMap
      <3>3. clusters[c] # None => clusters'[c] # None
        <4> SUFFICES ASSUME clusters[c] # None PROVE clusters'[c] # None
          OBVIOUS
        <4> DEFINE d == [address |-> a, health |-> FALSE]
        <4>1. CASE clusters' = [clusters EXCEPT ![c].dests[D1] = d]
          <5>1. clusters[c] \in Cluster /\ d \in Dest
            BY <1>0 DEF ClusterMap, Dest
          <5>2. [clusters[c].dests EXCEPT ![D1] = d] \in Dests
            BY <5>1, ConstantsAssumption DEF Cluster, Dests
          <5>3. clusters'[c] \in Cluster
            BY <1>0, <4>1, <5>1, <5>2 DEF ClusterMap, Cluster
          <5> QED
            BY <5>3, ConstantsAssumption
        <4>2. CASE clusters' = clusters
          BY <4>2
        <4> QED
          BY <1>1, <4>1, <4>2 DEF AddRoute
      <3> QED
        BY <3>1, <3>2, <3>3 DEF RouteScope
    <2> QED
      BY <1>1, <1>r, <2>1 DEF AddRoute
  <1>2. ASSUME NEW r \in RouteIds, NEW c \in ClusterIds, AddRouteConfig(r, c)
        PROVE  DurInv'
    <2>1. RouteScope(r, c)
      BY <1>0, <1>2 DEF AddRouteConfig, RouteScope, RouteMap
    <2> QED
      BY <1>2, <1>r, <2>1 DEF AddRouteConfig
  <1>3. ASSUME NEW c \in ClusterIds, NEW ds, AddClusterConfig(c, ds)
        PROVE  DurInv'
    <2>1. ClusterScope(c)
      BY <1>0, <1>3 DEF AddClusterConfig, ClusterScope, ClusterMap
    <2> QED
      BY <1>3, <1>c, <2>1 DEF AddClusterConfig, ClusterKinds
  <1>4. ASSUME NEW c \in ClusterIds, NEW ds, CreateCluster(c, ds)
        PROVE  DurInv'
    <2>1. ClusterScope(c)
      BY <1>0, <1>4 DEF CreateCluster, ClusterScope, ClusterMap
    <2> QED
      BY <1>4, <1>c, <2>1 DEF CreateCluster, ClusterKinds
  <1>5. ASSUME NEW c \in ClusterIds, NEW ds, UpdateCluster(c, ds)
        PROVE  DurInv'
    <2>1. ClusterScope(c)
      BY <1>0, <1>5 DEF UpdateCluster, ClusterScope, ClusterMap
    <2> QED
      BY <1>5, <1>c, <2>1 DEF UpdateCluster, ClusterKinds
  \* A rename is saved under the old id, which is gone: the full save follows.
  <1>6. ASSUME NEW old \in ClusterIds, NEW new \in ClusterIds, NEW ds, RenameCluster(old, new, ds)
        PROVE  DurInv'
    <2>1. ClusterScope(old)
      <3>1. old # new
        BY <1>6 DEF RenameCluster
      <3>2. clusters'[old] = None
        BY <1>0, <1>6, <3>1 DEF RenameCluster, ClusterMap
      <3> QED
        BY <3>2 DEF ClusterScope
    <2> QED
      BY <1>6, <1>c, <2>1 DEF RenameCluster, ClusterKinds
  <1>7. CASE RouteEdit
    BY <1>7, <1>1, <1>2, <1>f
    DEF RouteEdit, RemoveRouteForClient, RemoveRoute, SetRouteEnabled, RenameRoute
  <1>8. CASE ClusterEdit
    BY <1>8, <1>3, <1>4, <1>5, <1>6, <1>f DEF ClusterEdit, AddCluster, RemoveCluster
  <1>9. CASE BatchEdit
    BY <1>9, <1>f
    DEF BatchEdit, ImportBatch, ReplaceAllConfig, BatchDeleteClusters, BatchDeleteRoutes, BatchSetRoutesEnabled
  <1> QED
    BY <1>7, <1>8, <1>9

\* Publishing does not touch working set or tables; it only chooses the save that follows.
LEMMA PublishDur ==
    ASSUME DurInv, TypeOK', Publish
    PROVE  DurInv'
  <1>u. UNCHANGED <<routes, clusters, dbRoutes, dbClusters, dbDests, dirty>>
    BY DEF Publish, memory, database
  <1>p. op.pc = "publish" /\ op \in Op
    BY DEF Publish, DurInv, TypeOK
  <1>1. DestsOwned'
    BY <1>u DEF DurInv, DestsOwned
  <1>2. CASE op' = Idle /\ op.kind \in {"RefreshConfig", "MarkStaticConfig"}
    <2>1. op'.pc = "idle" /\ op'.kind = "none"
      BY <1>2 DEF Idle, OpAt
    <2>2. OpTargets' /\ FullSaveProgress' /\ IncrementalScope' /\ Listed'
      BY <2>1 DEF OpTargets, FullSaveProgress, IncrementalScope, Listed
    <2>3. Settled'
      BY <1>u, <1>p, <1>2 DEF DurInv, Settled, InSync, RoutesInSync, ClustersInSync, DestsInSync
    <2> QED
      BY <1>1, <2>2, <2>3 DEF DurInv
  <1>3. CASE /\ op' = [op EXCEPT !.pc = FirstSaveStep,
                         !.pending = IF FirstSaveStep = "delRoutes" THEN StaleRoutes(routes) ELSE {}]
             /\ op.kind \notin {"RefreshConfig", "MarkStaticConfig"}
    <2>0. /\ op'.pc = FirstSaveStep /\ op'.kind = op.kind /\ op'.route = op.route
          /\ op'.cluster = op.cluster
          /\ FirstSaveStep = "delRoutes" => op'.pending = StaleRoutes(routes)
      BY <1>p, <1>3 DEF Op
    <2>1. CASE op.kind = "AddOrUpdateRoute"
      <3>1. op'.pc = "saveRoute"
        BY <2>0, <2>1 DEF FirstSaveStep
      <3>2. OpTargets' /\ FullSaveProgress' /\ Settled' /\ Listed'
        BY <1>p, <2>0, <2>1, <3>1 DEF DurInv, OpTargets, FullSaveProgress, Settled, Listed
      <3>3. IncrementalScope'
        BY <1>u, <1>p, <2>0, <2>1, <3>1
        DEF DurInv, IncrementalScope, RoutesInSync, ClustersInSync, DestsInSync, ClusterKinds
      <3> QED
        BY <1>1, <3>2, <3>3 DEF DurInv
    <2>2. CASE op.kind \in ClusterKinds /\ clusters[op.cluster] # None
      <3>1. op'.pc = "saveCluster"
        BY <2>0, <2>2 DEF FirstSaveStep, ClusterKinds
      <3>2. OpTargets' /\ FullSaveProgress' /\ Settled' /\ Listed'
        BY <1>u, <1>p, <2>0, <2>2, <3>1 DEF DurInv, OpTargets, FullSaveProgress, Settled, Listed
      <3>3. IncrementalScope'
        BY <1>u, <1>p, <2>0, <2>2, <3>1
        DEF DurInv, IncrementalScope, RoutesInSync, ClustersInSync, DestsInSync
      <3> QED
        BY <1>1, <3>2, <3>3 DEF DurInv
    <2>3. CASE op.kind # "AddOrUpdateRoute" /\ ~(op.kind \in ClusterKinds /\ clusters[op.cluster] # None)
      <3>1. op'.pc = "delRoutes"
        BY <1>3, <2>0, <2>3 DEF FirstSaveStep, ClusterKinds
      <3>2. OpTargets' /\ FullSaveProgress' /\ Settled' /\ IncrementalScope'
        BY <3>1 DEF OpTargets, FullSaveProgress, Settled, IncrementalScope
      <3>3. Listed'
        BY <1>u, <2>0, <3>1 DEF Listed, StaleRoutes
      <3> QED
        BY <1>1, <3>2, <3>3 DEF DurInv
    <2> QED
      BY <2>1, <2>2, <2>3
  <1>4. (FirstSaveStep = "idle") <=> (op.kind = "RefreshConfig")
    BY DEF FirstSaveStep
  <1> QED
    BY <1>2, <1>3, <1>4 DEF Publish

\* A save that has just written its last record leaves the tables in step; one that threw
\* leaves them marked.
LEMMA FinishDur ==
    ASSUME DurInv, TypeOK', NEW outcome, Finish(outcome), DestsOwned', outcome = "no" => InSync'
    PROVE  DurInv'
  <1>1. dirty' = outcome /\ op \in Op
    BY DEF Finish, DurInv, TypeOK
  <1>2. \/ op'.pc = "idle" /\ op'.kind = "none"
        \/ op'.pc = "publish" /\ op'.kind = "MarkStaticConfig"
    BY <1>1 DEF Finish, Idle, OpAt, Op
  <1>3. OpTargets' /\ FullSaveProgress' /\ IncrementalScope' /\ Listed'
    BY <1>2 DEF OpTargets, FullSaveProgress, IncrementalScope, Listed, ClusterKinds
  <1>4. Settled'
    BY <1>1 DEF Settled
  <1> QED
    BY <1>3, <1>4 DEF DurInv

\* The steps of an incremental save keep the durability invariant.
LEMMA IncrementalDur ==
    ASSUME DurInv, TypeOK', SaveRoute \/ SaveCluster \/ SaveDestinations
    PROVE  DurInv'
  <1>t. /\ routes \in RouteMap /\ clusters \in ClusterMap /\ op \in Op
        /\ dbRoutes \in [RouteIds -> RouteRow \cup {None}]
        /\ dbClusters \in [ClusterIds -> ClusterRow \cup {None}]
        /\ dbDests \in [ClusterIds -> Dests]
    BY DEF DurInv, TypeOK, RouteMap, ClusterMap
  <1>1. CASE SaveRoute
    <2>0. /\ op.pc = "saveRoute" /\ op.kind = "AddOrUpdateRoute"
          /\ op.route \in RouteIds /\ op.cluster \in ClusterIds
      BY <1>1 DEF SaveRoute, DurInv, OpTargets
    <2>u. UNCHANGED <<routes, clusters, dbClusters, dbDests>>
      BY <1>1 DEF SaveRoute, memory
    <2>w. /\ dbRoutes'[op.route] = RouteEntity(routes[op.route])
          /\ \A x \in RouteIds : x # op.route => dbRoutes'[x] = dbRoutes[x]
      BY <1>1, <1>t, <2>0 DEF SaveRoute
    <2>1. DestsOwned'
      BY <2>u DEF DurInv, DestsOwned
    <2>2. dirty = "no" => RoutesInSync(RouteIds)'
      BY <2>0, <2>u, <2>w DEF DurInv, IncrementalScope, RoutesInSync
    <2>3. CASE clusters[op.cluster] = None
      <3>1. FinishIncremental
        BY <1>1, <2>3 DEF SaveRoute
      <3>2. dirty = "no" => InSync'
        BY <2>0, <2>u, <2>2, <2>3
        DEF DurInv, IncrementalScope, InSync, ClustersInSync, DestsInSync
      <3> QED
        BY <2>1, <3>1, <3>2, FinishDur DEF FinishIncremental
    <2>4. CASE clusters[op.cluster] # None
      <3>1. op' = [op EXCEPT !.pc = "saveCluster"] /\ dirty' = dirty
        BY <1>1, <2>4 DEF SaveRoute
      <3>2. op'.pc = "saveCluster" /\ op'.kind = op.kind /\ op'.cluster = op.cluster
        BY <1>t, <3>1 DEF Op
      <3>3. OpTargets' /\ FullSaveProgress' /\ Settled' /\ Listed'
        BY <2>0, <2>u, <2>4, <3>2 DEF OpTargets, FullSaveProgress, Settled, Listed
      <3>4. IncrementalScope'
        BY <2>0, <2>u, <2>2, <3>1, <3>2
        DEF DurInv, IncrementalScope, RoutesInSync, ClustersInSync, DestsInSync
      <3> QED
        BY <2>1, <3>3, <3>4 DEF DurInv
    <2> QED
      BY <2>3, <2>4
  <1>2. CASE SaveCluster
    <2>0. /\ op.pc = "saveCluster" /\ op.cluster \in ClusterIds
          /\ op.kind \in ClusterKinds \cup {"AddOrUpdateRoute"}
      BY <1>2 DEF SaveCluster, DurInv, OpTargets
    <2>u. UNCHANGED <<routes, clusters, dbRoutes, dbDests, dirty>>
      BY <1>2 DEF SaveCluster, memory
    <2>w. /\ dbClusters'[op.cluster] = ClusterEntity(clusters[op.cluster])
          /\ \A x \in ClusterIds : x # op.cluster => dbClusters'[x] = dbClusters[x]
      BY <1>2, <1>t, <2>0 DEF SaveCluster
    <2>1. op'.pc = "saveDests" /\ op'.kind = op.kind /\ op'.cluster = op.cluster
      BY <1>2, <1>t DEF SaveCluster, Op
    <2>live. clusters[op.cluster] # None
      BY <2>0 DEF DurInv, OpTargets
    <2>2. DestsOwned'
      BY <2>0, <2>u, <2>w, <2>live, <1>t, EntityNull DEF DurInv, DestsOwned, ClusterMap
    <2>3. OpTargets' /\ FullSaveProgress' /\ Settled' /\ Listed'
      BY <2>0, <2>u, <2>w, <2>live, <2>1 DEF OpTargets, FullSaveProgress, Settled, Listed
    <2>4. IncrementalScope'
      BY <2>0, <2>u, <2>w, <2>1
      DEF DurInv, IncrementalScope, RoutesInSync, ClustersInSync, DestsInSync
    <2> QED
      BY <2>2, <2>3, <2>4 DEF DurInv
  <1>3. CASE SaveDestinations
    <2>0. /\ op.pc = "saveDests" /\ op.cluster \in ClusterIds
          /\ dbClusters[op.cluster] = ClusterEntity(clusters[op.cluster])
      BY <1>3 DEF SaveDestinations, DurInv, OpTargets
    <2>u. UNCHANGED <<routes, clusters, dbRoutes, dbClusters>>
      BY <1>3 DEF SaveDestinations, memory
    <2>w. /\ dbDests'[op.cluster] = DestEntities(clusters[op.cluster])
          /\ \A x \in ClusterIds : x # op.cluster => dbDests'[x] = dbDests[x]
      BY <1>3, <1>t, <2>0 DEF SaveDestinations
    <2>1. DestsOwned'
      BY <2>0, <2>u, <2>w, <1>t, EntityNull DEF DurInv, DestsOwned, DestEntities, ClusterMap
    <2>2. dirty = "no" => InSync'
      BY <2>0, <2>u, <2>w
      DEF DurInv, IncrementalScope, InSync, RoutesInSync, ClustersInSync, DestsInSync
    <2> QED
      BY <1>3, <2>1, <2>2, FinishDur DEF SaveDestinations, FinishIncremental
  <1> QED
    BY <1>1, <1>2, <1>3

\* With the listed rows gone, the upsert of the live records leaves the table as the
\* working set has it.
LEMMA WrittenRows ==
    ASSUME DurInv
    PROVE  /\ SaveRoutes => \A r \in RouteIds : dbRoutes'[r] = RouteEntity(routes[r])
           /\ SaveClusters => \A c \in ClusterIds : dbClusters'[c] = ClusterEntity(clusters[c])
  <1>1. ASSUME SaveRoutes, NEW r \in RouteIds PROVE dbRoutes'[r] = RouteEntity(routes[r])
    <2>1. routes[r] = None => dbRoutes[r] = None
      BY <1>1 DEF SaveRoutes, DurInv, Listed, StaleRoutes
    <2>2. dbRoutes'[r] = IF routes[r] = None THEN dbRoutes[r] ELSE RouteEntity(routes[r])
      BY <1>1 DEF SaveRoutes
    <2> QED
      BY <2>1, <2>2 DEF RouteEntity
  <1>2. ASSUME SaveClusters, NEW c \in ClusterIds PROVE dbClusters'[c] = ClusterEntity(clusters[c])
    <2>1. clusters[c] = None => dbClusters[c] = None
      BY <1>2 DEF SaveClusters, DurInv, Listed, StaleClusters
    <2>2. dbClusters'[c] = IF clusters[c] = None THEN dbClusters[c] ELSE ClusterEntity(clusters[c])
      BY <1>2 DEF SaveClusters
    <2> QED
      BY <2>1, <2>2 DEF ClusterEntity
  <1> QED
    BY <1>1, <1>2

\* The steps of a full save keep the durability invariant.
LEMMA FullSaveDur ==
    ASSUME DurInv, TypeOK',
           \/ \E r \in RouteIds : DeleteStaleRoute(r)
           \/ SaveRoutes
           \/ \E c \in ClusterIds : DeleteStaleDestinations(c)
           \/ DeleteStaleCluster
           \/ SaveClusters
           \/ \E c \in ClusterIds : SaveDestinationsOf(c)
    PROVE  DurInv'
  <1>t. /\ routes \in RouteMap /\ clusters \in ClusterMap /\ op \in Op
        /\ dbRoutes \in [RouteIds -> RouteRow \cup {None}]
        /\ dbClusters \in [ClusterIds -> ClusterRow \cup {None}]
        /\ dbDests \in [ClusterIds -> Dests]
    BY DEF DurInv, TypeOK, RouteMap, ClusterMap
  <1>1. ASSUME NEW r \in RouteIds, DeleteStaleRoute(r)
        PROVE  DurInv'
    <2>1. /\ op.pc = "delRoutes" /\ op'.pc = "delRoutes" /\ op'.pending = op.pending \ {r}
          /\ UNCHANGED <<routes, clusters, dbClusters, dbDests, dirty>>
          /\ dbRoutes' = [dbRoutes EXCEPT ![r] = None]
      BY <1>1, <1>t DEF DeleteStaleRoute, memory, Op
    <2>2. DestsOwned' /\ OpTargets' /\ FullSaveProgress' /\ Settled' /\ IncrementalScope'
      BY <2>1 DEF DurInv, DestsOwned, OpTargets, FullSaveProgress, Settled, IncrementalScope
    <2>3. Listed'
      BY <2>1, <1>t DEF DurInv, Listed, StaleRoutes
    <2> QED
      BY <2>2, <2>3 DEF DurInv
  <1>2. CASE SaveRoutes
    <2>1. /\ op'.pc = "delClusters" /\ op'.cluster = None /\ op'.pending = StaleClusters
          /\ UNCHANGED <<routes, clusters, dbClusters, dbDests, dirty>>
      BY <1>2, <1>t DEF SaveRoutes, memory, Op
    <2>2. DestsOwned' /\ OpTargets' /\ Settled' /\ IncrementalScope'
      BY <2>1 DEF DurInv, DestsOwned, OpTargets, Settled, IncrementalScope
    <2>3. FullSaveProgress'
      <3>1. \A r \in RouteIds : dbRoutes'[r] = RouteEntity(routes[r])
        BY <1>2, WrittenRows
      <3> QED
        BY <2>1, <3>1 DEF FullSaveProgress, RoutesInSync
    <2>4. Listed'
      BY <2>1 DEF Listed, StaleClusters
    <2> QED
      BY <2>2, <2>3, <2>4 DEF DurInv
  <1>3. ASSUME NEW c \in ClusterIds, DeleteStaleDestinations(c)
        PROVE  DurInv'
    <2>1. /\ op.pc = "delClusters" /\ op'.pc = "delClusters" /\ op'.cluster = c
          /\ c \in op.pending /\ op'.pending = op.pending
          /\ UNCHANGED <<routes, clusters, dbRoutes, dbClusters, dirty>>
          /\ dbDests' = [dbDests EXCEPT ![c] = NoDests]
      BY <1>3, <1>t DEF DeleteStaleDestinations, memory, Op
    <2>l. c \in StaleClusters /\ op.pending = StaleClusters /\ clusters[c] = None
      BY <2>1 DEF DurInv, Listed, StaleClusters
    <2>2. DestsOwned'
      BY <2>1, <1>t DEF DurInv, DestsOwned
    <2>3. OpTargets' /\ Settled' /\ IncrementalScope'
      BY <2>1 DEF OpTargets, Settled, IncrementalScope
    <2>4. FullSaveProgress'
      BY <2>1, <2>l, <1>t DEF DurInv, FullSaveProgress, RoutesInSync
    <2>5. Listed'
      BY <2>1, <2>l DEF Listed, StaleClusters
    <2> QED
      BY <2>2, <2>3, <2>4, <2>5 DEF DurInv
  <1>4. CASE DeleteStaleCluster
    <2>1. /\ op.pc = "delClusters" /\ op.cluster \in ClusterIds
          /\ op'.pc = "delClusters" /\ op'.cluster = None /\ op'.pending = op.pending \ {op.cluster}
          /\ UNCHANGED <<routes, clusters, dbRoutes, dbDests, dirty>>
          /\ dbClusters' = [dbClusters EXCEPT ![op.cluster] = None]
      BY <1>4, <1>t DEF DeleteStaleCluster, memory, Op
    <2>2. dbDests[op.cluster] = NoDests
      BY <1>4, <2>1 DEF DurInv, FullSaveProgress, DeleteStaleCluster
    <2>3. DestsOwned'
      BY <2>1, <2>2, <1>t DEF DurInv, DestsOwned
    <2>4. OpTargets' /\ Settled' /\ IncrementalScope'
      BY <2>1 DEF OpTargets, Settled, IncrementalScope
    <2>5. FullSaveProgress'
      BY <2>1 DEF DurInv, FullSaveProgress, RoutesInSync
    <2>6. Listed'
      BY <2>1, <1>t DEF DurInv, Listed, StaleClusters
    <2> QED
      BY <2>3, <2>4, <2>5, <2>6 DEF DurInv
  <1>5. CASE SaveClusters
    <2>1. /\ op.pc = "delClusters" /\ StaleClusters = {}
          /\ UNCHANGED <<routes, clusters, dbRoutes, dbDests>>
          /\ \A c \in ClusterIds : dbClusters'[c] = ClusterEntity(clusters[c])
      BY <1>5, WrittenRows DEF SaveClusters, memory, DurInv, Listed
    <2>2. \A c \in ClusterIds : clusters[c] = None => dbDests[c] = NoDests
      BY <2>1 DEF StaleClusters, DurInv, DestsOwned
    <2>3. \A c \in ClusterIds : dbClusters'[c] = None => clusters[c] = None
      BY <2>1, <1>t, EntityNull DEF ClusterMap
    <2>4. DestsOwned'
      BY <2>1, <2>2, <2>3 DEF DestsOwned
    <2>5. RoutesInSync(RouteIds)' /\ ClustersInSync(ClusterIds)'
      BY <2>1 DEF DurInv, FullSaveProgress, RoutesInSync, ClustersInSync
    <2>6. DestsInSync(ClusterIds \ LiveClusters)'
      BY <2>1, <2>2 DEF DestsInSync, LiveClusters, DestEntities
    <2>7. CASE LiveClusters = {}
      <3>1. InSync'
        BY <2>1, <2>5, <2>6, <2>7 DEF InSync, DestsInSync, LiveClusters
      <3> QED
        BY <1>5, <2>4, <2>7, <3>1, FinishDur DEF SaveClusters, FinishFull
    <2>8. CASE LiveClusters # {}
      <3>1. op' = [op EXCEPT !.pc = "saveAllDests", !.pending = LiveClusters]
        BY <1>5, <2>8 DEF SaveClusters
      <3>2. op'.pc = "saveAllDests" /\ op'.pending = LiveClusters
        BY <1>t, <3>1 DEF Op
      <3>3. OpTargets' /\ Settled' /\ IncrementalScope' /\ Listed'
        BY <3>2 DEF OpTargets, Settled, IncrementalScope, Listed
      <3>4. FullSaveProgress'
        BY <2>1, <2>5, <2>6, <3>2 DEF FullSaveProgress, DestsInSync, LiveClusters
      <3> QED
        BY <2>4, <3>3, <3>4 DEF DurInv
    <2> QED
      BY <2>7, <2>8
  <1>6. ASSUME NEW c \in ClusterIds, SaveDestinationsOf(c)
        PROVE  DurInv'
    <2>1. /\ op.pc = "saveAllDests" /\ c \in op.pending
          /\ UNCHANGED <<routes, clusters, dbRoutes, dbClusters>>
          /\ dbDests' = [dbDests EXCEPT ![c] = DestEntities(clusters[c])]
      BY <1>6 DEF SaveDestinationsOf, memory
    <2>2. RoutesInSync(RouteIds) /\ ClustersInSync(ClusterIds) /\ DestsInSync(ClusterIds \ op.pending)
      BY <2>1 DEF DurInv, FullSaveProgress
    <2>3. DestsOwned'
      BY <2>1, <2>2, <1>t, EntityNull DEF DurInv, DestsOwned, ClustersInSync, DestEntities, ClusterMap
    <2>4. RoutesInSync(RouteIds)' /\ ClustersInSync(ClusterIds)'
      BY <2>1, <2>2 DEF RoutesInSync, ClustersInSync
    <2>5. \A x \in ClusterIds \ (op.pending \ {c}) : dbDests'[x] = DestEntities(clusters'[x])
      BY <2>1, <2>2, <1>t DEF DestsInSync
    <2>6. CASE op.pending = {c}
      <3>1. InSync'
        BY <2>4, <2>5, <2>6 DEF InSync, DestsInSync
      <3> QED
        BY <1>6, <2>3, <2>6, <3>1, FinishDur DEF SaveDestinationsOf, FinishFull
    <2>7. CASE op.pending # {c}
      <3>1. op' = [op EXCEPT !.pending = op.pending \ {c}]
        BY <1>6, <2>7 DEF SaveDestinationsOf
      <3>2. op'.pc = "saveAllDests" /\ op'.pending = op.pending \ {c}
        BY <1>t, <2>1, <3>1 DEF Op
      <3>3. OpTargets' /\ Settled' /\ IncrementalScope' /\ Listed'
        BY <3>2 DEF OpTargets, Settled, IncrementalScope, Listed
      <3>4. FullSaveProgress'
        BY <2>4, <2>5, <3>2 DEF FullSaveProgress, DestsInSync
      <3> QED
        BY <2>3, <3>3, <3>4 DEF DurInv
    <2> QED
      BY <2>6, <2>7
  <1> QED
    BY <1>1, <1>2, <1>3, <1>4, <1>5, <1>6

\* A call that throws, and a process start, keep the durability invariant.
LEMMA FailureDur ==
    ASSUME DurInv, TypeOK', PublishFails \/ SaveFails \/ Lifecycle
    PROVE  DurInv'
  <1>1. CASE PublishFails
    <2>1. op'.pc = "idle" /\ op'.kind = "none"
      BY <1>1 DEF PublishFails, Idle, OpAt
    <2>2. UNCHANGED <<dbRoutes, dbClusters, dbDests>>
      BY <1>1 DEF PublishFails, database
    <2>3. DestsOwned'
      BY <2>2 DEF DurInv, DestsOwned
    <2>4. OpTargets' /\ FullSaveProgress' /\ IncrementalScope' /\ Listed'
      BY <2>1 DEF OpTargets, FullSaveProgress, IncrementalScope, Listed
    <2>5. Settled'
      <3>1. CASE op.kind = "RefreshConfig"
        <4>1. dirty' = dirty /\ op.pc = "publish" /\ UNCHANGED <<routes, clusters>>
          BY <1>1, <3>1 DEF PublishFails, memory
        <4> QED
          BY <2>2, <3>1, <4>1 DEF DurInv, Settled, InSync, RoutesInSync, ClustersInSync, DestsInSync
      <3>2. CASE op.kind # "RefreshConfig"
        BY <1>1, <3>2 DEF PublishFails, Settled
      <3> QED
        BY <3>1, <3>2
    <2> QED
      BY <2>3, <2>4, <2>5 DEF DurInv
  <1>2. CASE SaveFails
    <2>1. DestsOwned'
      BY <1>2 DEF SaveFails, database, DurInv, DestsOwned
    <2> QED
      BY <1>2, <2>1, FinishDur DEF SaveFails
  <1>3. CASE Lifecycle
    <2>1. UNCHANGED <<dbRoutes, dbClusters, dbDests>> /\ \E doc \in AppSettings, ok \in BOOLEAN : Start(doc, ok)
      BY <1>3 DEF Lifecycle, FirstStart, Restart, RestartLoadFails, database
    <2>2. op'.pc = "delRoutes" /\ dirty' = "failed"
      BY <2>1 DEF Start, OpAt
    <2>3. DestsOwned'
      BY <2>1 DEF DurInv, DestsOwned
    <2>4. OpTargets' /\ FullSaveProgress' /\ IncrementalScope' /\ Settled'
      BY <2>2 DEF OpTargets, FullSaveProgress, IncrementalScope, Settled
    <2>5. Listed'
      <3>1. op'.pending = StaleRoutes(routes')
        BY <2>1 DEF Start, OpAt
      <3> QED
        BY <2>1, <2>2, <3>1 DEF Listed, StaleRoutes
    <2> QED
      BY <2>3, <2>4, <2>5 DEF DurInv
  <1> QED
    BY <1>1, <1>2, <1>3

\* Every step keeps the durability invariant.
LEMMA NextDur == DurInv /\ [Next]_vars => DurInv'
  <1> SUFFICES ASSUME DurInv, [Next]_vars PROVE DurInv'
    OBVIOUS
  <1>t. TypeOK'
    BY NextType DEF DurInv
  <1>1. CASE RefreshConfig \/ SaveDynamicConfig
    <2>1. /\ op.pc = "idle"
          /\ UNCHANGED <<routes, clusters, dbRoutes, dbClusters, dbDests, dirty>>
          /\ \/ op'.pc = "publish" /\ op'.kind = "RefreshConfig"
             \/ op'.pc = "delRoutes" /\ op'.kind = "SaveDynamicConfig" /\ op'.pending = StaleRoutes(routes)
      BY <1>1 DEF RefreshConfig, SaveDynamicConfig, OpAt, memory, database
    <2>2. DestsOwned' /\ OpTargets' /\ FullSaveProgress' /\ IncrementalScope'
      BY <2>1 DEF DurInv, DestsOwned, OpTargets, FullSaveProgress, IncrementalScope, ClusterKinds
    <2>3. Settled'
      BY <2>1 DEF DurInv, Settled, InSync, RoutesInSync, ClustersInSync, DestsInSync
    <2>4. Listed'
      BY <2>1 DEF Listed, StaleRoutes
    <2> QED
      BY <1>t, <2>2, <2>3, <2>4 DEF DurInv
  <1>2. CASE UNCHANGED vars
    BY <1>2, <1>t DEF vars, DurInv, DestsOwned, OpTargets, FullSaveProgress, IncrementalScope, Settled,
                Listed, StaleRoutes, StaleClusters, InSync, RoutesInSync, ClustersInSync, DestsInSync
  <1>3. CASE OpStep
    BY <1>3, <1>t, PublishDur, IncrementalDur, FullSaveDur, FailureDur DEF OpStep, CallThrows, UniqueIndexThrows
  <1> QED
    BY <1>1, <1>2, <1>3, <1>t, EditsDur, FailureDur DEF Next

\* A fresh process, whose tables are empty and which serves nothing, satisfies the invariant.
LEMMA InitDur == Init => DurInv
  BY InitType DEF Init, Idle, OpAt, DurInv, DestsOwned, OpTargets, FullSaveProgress, IncrementalScope, Settled, Listed

\* Durability: as long as no save has thrown since the last full save, the tables hold exactly
\* the entities of the working set whenever no operation runs.  The incremental saves of
\* DynamicConfigPersister therefore miss nothing their operations changed, for any number of
\* routes, clusters, edits, faults and restarts.
THEOREM Durable == Spec => []DurableWhenClean
  <1>1. DurInv => DurableWhenClean
    BY DEF DurInv, Settled, DurableWhenClean
  <1> QED
    BY <1>1, InitDur, NextDur, PTL DEF Spec
-----------------------------------------------------------------------------
(* Publication and row preservation. *)

\* Every operation enters through Edit, under a kind of its own; none is the start's.
LEMMA EditsEnter ==
    ASSUME RouteEdit \/ ClusterEdit \/ BatchEdit
    PROVE  \E kind, r, c : kind # "MarkStaticConfig" /\ Edit(kind, r, c)
  <1> DEFINE Enters == \E kind, r, c : kind # "MarkStaticConfig" /\ Edit(kind, r, c)
  <1>1. ASSUME NEW r, NEW c, NEW a, NEW iso, NEW ip, AddRoute(r, c, a, iso, ip) PROVE Enters
    BY <1>1 DEF AddRoute
  <1>2. ASSUME NEW r, NEW c, AddRouteConfig(r, c) PROVE Enters
    BY <1>2 DEF AddRouteConfig
  <1>3. ASSUME NEW r, NEW ip, RemoveRouteForClient(r, ip) PROVE Enters
    BY <1>3 DEF RemoveRouteForClient
  <1>4. ASSUME NEW r, NEW b, RemoveRoute(r, b) PROVE Enters
    BY <1>4 DEF RemoveRoute
  <1>5. ASSUME NEW r, NEW b, SetRouteEnabled(r, b) PROVE Enters
    BY <1>5 DEF SetRouteEnabled
  <1>6. ASSUME NEW old, NEW new, NEW c, RenameRoute(old, new, c) PROVE Enters
    BY <1>6 DEF RenameRoute
  <1>7. ASSUME NEW c, NEW ds, AddClusterConfig(c, ds) PROVE Enters
    BY <1>7 DEF AddClusterConfig
  <1>8. ASSUME NEW c, NEW ds, CreateCluster(c, ds) PROVE Enters
    BY <1>8 DEF CreateCluster
  <1>9. ASSUME NEW c, NEW ds, UpdateCluster(c, ds) PROVE Enters
    BY <1>9 DEF UpdateCluster
  <1>10. ASSUME NEW c, RemoveCluster(c) PROVE Enters
    BY <1>10 DEF RemoveCluster
  <1>11. ASSUME NEW old, NEW new, NEW ds, RenameCluster(old, new, ds) PROVE Enters
    BY <1>11 DEF RenameCluster
  <1>12. ASSUME NEW doc, ImportBatch(doc) PROVE Enters
    BY <1>12 DEF ImportBatch
  <1>13. ASSUME NEW doc, ReplaceAllConfig(doc) PROVE Enters
    BY <1>13 DEF ReplaceAllConfig
  <1>14. ASSUME NEW ids, BatchDeleteClusters(ids) PROVE Enters
    BY <1>14 DEF BatchDeleteClusters
  <1>15. ASSUME NEW ids, NEW b, BatchDeleteRoutes(ids, b) PROVE Enters
    BY <1>15 DEF BatchDeleteRoutes
  <1>16. ASSUME NEW ids, NEW b, BatchSetRoutesEnabled(ids, b) PROVE Enters
    BY <1>16 DEF BatchSetRoutesEnabled
  <1> HIDE DEF Enters
  <1>17. RouteEdit => Enters
    BY <1>1, <1>2, <1>3, <1>4, <1>5, <1>6 DEF RouteEdit
  <1>18. ClusterEdit => Enters
    BY <1>7, <1>8, <1>9, <1>10, <1>11 DEF ClusterEdit, AddCluster
  <1>19. BatchEdit => Enters
    BY <1>12, <1>13, <1>14, <1>15, <1>16 DEF BatchEdit
  <1>20. Enters
    BY <1>17, <1>18, <1>19
  <1> QED
    BY <1>20 DEF Enters

\* Every edit, and every start, leaves the operation before its publish or the proxy unserved;
\* no other step but the publish touches working set or provider.
LEMMA NextServed == ServedMatchesWorkingSet /\ [Next]_vars => ServedMatchesWorkingSet'
  <1> SUFFICES ASSUME ServedMatchesWorkingSet, [Next]_vars PROVE ServedMatchesWorkingSet'
    OBVIOUS
  <1>1. ASSUME NEW kind, NEW r, NEW c, Edit(kind, r, c)
        PROVE  ServedMatchesWorkingSet'
    BY <1>1 DEF Edit, OpAt, ServedMatchesWorkingSet
  <1>2. CASE RouteEdit \/ ClusterEdit \/ BatchEdit
    BY <1>1, <1>2, EditsEnter
  <1>3. CASE Publish
    BY <1>3 DEF Publish, ServedMatchesWorkingSet, memory
  <1>4. CASE PublishFails \/ Lifecycle
    BY <1>4 DEF PublishFails, Lifecycle, FirstStart, Restart, RestartLoadFails, Start, ServedMatchesWorkingSet
  <1>5. ASSUME op.pc # "publish", UNCHANGED <<memory, provider, served>>
        PROVE  ServedMatchesWorkingSet'
    BY <1>5 DEF ServedMatchesWorkingSet, memory
  <1>6. CASE OpStep /\ ~Publish /\ ~PublishFails
    BY <1>5, <1>6
    DEF OpStep, SaveRoute, SaveCluster, SaveDestinations, DeleteStaleRoute, SaveRoutes,
        DeleteStaleDestinations, DeleteStaleCluster, SaveClusters, SaveDestinationsOf,
        CallThrows, UniqueIndexThrows, SaveFails, SavePcs
  <1>7. CASE RefreshConfig \/ SaveDynamicConfig
    BY <1>5, <1>7 DEF RefreshConfig, SaveDynamicConfig
  <1>8. CASE UNCHANGED vars
    BY <1>8 DEF vars, ServedMatchesWorkingSet
  <1> QED
    BY <1>2, <1>3, <1>4, <1>6, <1>7, <1>8 DEF Next

\* Publication: after an operation has published and until the next edit, the proxy serves
\* exactly the enabled routes and the sanitized clusters of the working set, at its version.
THEOREM Served == Spec => []ServedMatchesWorkingSet
  <1>1. Init => ServedMatchesWorkingSet
    BY DEF Init, ServedMatchesWorkingSet
  <1> QED
    BY <1>1, NextServed, PTL DEF Spec

\* What a step may not do to the tables: remove the row of a route or cluster that is live.
KeepsLiveRows ==
    /\ \A r \in RouteIds : (dbRoutes[r] # None /\ routes[r] # None) => dbRoutes'[r] # None
    /\ \A c \in ClusterIds : (dbClusters[c] # None /\ clusters[c] # None) => dbClusters'[c] # None

\* No step removes a live row: rows are deleted by id only after the id left the working set,
\* and a full save writes a row for every live record.
LEMMA NextKeepsLiveRows == DurInv /\ [Next]_vars => KeepsLiveRows
  <1> SUFFICES ASSUME DurInv, [Next]_vars PROVE KeepsLiveRows
    OBVIOUS
  <1>t. /\ \A r \in RouteIds : routes[r] \in Route \cup {None}
        /\ \A c \in ClusterIds : clusters[c] \in Cluster \cup {None}
        /\ dbRoutes \in [RouteIds -> RouteRow \cup {None}]
        /\ dbClusters \in [ClusterIds -> ClusterRow \cup {None}]
    BY DEF DurInv, TypeOK
  <1>1. ASSUME UNCHANGED <<dbRoutes, dbClusters>> PROVE KeepsLiveRows
    BY <1>1 DEF KeepsLiveRows
  <1>2. CASE RouteEdit \/ ClusterEdit \/ BatchEdit
    <2>1. ASSUME NEW kind, NEW r, NEW c, Edit(kind, r, c) PROVE KeepsLiveRows
      BY <1>1, <2>1 DEF Edit, database
    <2> QED
      BY <1>2, <2>1, EditsEnter
  <1>3. CASE SaveRoute
    BY <1>3, <1>t, EntityNull DEF SaveRoute, KeepsLiveRows
  <1>4. CASE SaveCluster
    BY <1>4, <1>t, EntityNull DEF SaveCluster, KeepsLiveRows
  <1>5. ASSUME NEW r \in RouteIds, DeleteStaleRoute(r) PROVE KeepsLiveRows
    BY <1>5, <1>t DEF DeleteStaleRoute, DurInv, Listed, StaleRoutes, KeepsLiveRows
  <1>6. CASE SaveRoutes
    BY <1>6, <1>t, EntityNull DEF SaveRoutes, KeepsLiveRows
  <1>7. CASE DeleteStaleCluster
    <2>1. clusters[op.cluster] = None
      BY <1>7 DEF DeleteStaleCluster, DurInv, FullSaveProgress
    <2> QED
      BY <1>7, <1>t, <2>1 DEF DeleteStaleCluster, KeepsLiveRows
  <1>8. CASE SaveClusters
    BY <1>8, <1>t, EntityNull DEF SaveClusters, KeepsLiveRows
  <1>9. CASE OpStep /\ ~SaveRoute /\ ~SaveCluster /\ ~SaveRoutes /\ ~DeleteStaleCluster /\ ~SaveClusters
             /\ ~(\E r \in RouteIds : DeleteStaleRoute(r))
    BY <1>1, <1>9
    DEF OpStep, Publish, PublishFails, SaveDestinations, DeleteStaleDestinations, SaveDestinationsOf,
        CallThrows, UniqueIndexThrows, SaveFails, database
  <1>10. CASE RefreshConfig \/ SaveDynamicConfig \/ Lifecycle \/ UNCHANGED vars
    BY <1>1, <1>10
    DEF RefreshConfig, SaveDynamicConfig, Lifecycle, FirstStart, Restart, RestartLoadFails, database, vars
  <1> QED
    BY <1>2, <1>3, <1>4, <1>5, <1>6, <1>7, <1>8, <1>9, <1>10 DEF Next

\* No step of any save, and no crash in the middle of one, removes the row of a route or a
\* cluster that is in the working set.
THEOREM LiveRowsKept == Spec => SaveKeepsLiveRows
  <1>1. DurInv /\ [Next]_vars => [KeepsLiveRows]_vars
    BY NextKeepsLiveRows
  <1>2. SaveKeepsLiveRows <=> [][KeepsLiveRows]_vars
    BY PTL DEF SaveKeepsLiveRows, KeepsLiveRows
  <1> QED
    BY <1>1, <1>2, InitDur, NextDur, PTL DEF Spec

-----------------------------------------------------------------------------
(* Uids.  UidsIdentify is inductive together with TypeOK: a new uid avoids *)
(* every uid in memory and in the tables, and the unique indexes refuse a  *)
(* row whose uid another row still holds.                                  *)

\* Every record of g keeps the uid it had in f or takes one of u, which no record of f uses
\* and which differ from one another.
KeepsOrDraws(S, f, g, u, New, used) ==
    /\ DOMAIN f = S /\ DOMAIN g = S
    /\ \A x \in S : f[x] # None => f[x].uid \in used
    /\ \A x \in New : u[x] \notin used
    /\ \A x, y \in New : x # y => u[x] # u[y]
    /\ \A x \in S : g[x] # None => \/ f[x] # None /\ g[x].uid = f[x].uid
                                   \/ x \in New /\ g[x].uid = u[x]

\* Uids that were apart stay apart.
LEMMA KeptOrFresh ==
    ASSUME NEW S, NEW f, NEW g, NEW u, NEW used, NEW New, Distinct(f), KeepsOrDraws(S, f, g, u, New, used)
    PROVE  Distinct(g)
  <1> SUFFICES ASSUME NEW x \in S, NEW y \in S, x # y, g[x] # None, g[y] # None
               PROVE  g[x].uid # g[y].uid
    BY DEF Distinct, KeepsOrDraws
  <1>1. f[x] # None /\ f[y] # None => f[x].uid # f[y].uid
    BY DEF Distinct, KeepsOrDraws
  <1> QED
    BY <1>1 DEF KeepsOrDraws

\* The same when a single record takes a new uid.
LEMMA OneDrawn ==
    ASSUME NEW S, NEW f, NEW g, DOMAIN f = S, DOMAIN g = S, Distinct(f), NEW used, NEW k \in S,
           \A x \in S : f[x] # None => f[x].uid \in used,
           g[k].uid \notin used,
           \A x \in S \ {k} : g[x] = f[x]
    PROVE  Distinct(g)
  BY DEF Distinct

\* A map whose records keep the uid they had has distinct uids if the old map had.
LEMMA KeptUids ==
    ASSUME NEW S, NEW f, NEW g, DOMAIN f = S, DOMAIN g = S, Distinct(f),
           \A x \in S : g[x] # None => f[x] # None /\ g[x].uid = f[x].uid
    PROVE  Distinct(g)
  BY DEF Distinct

\* Moving a record to an id that was free, under its uid, keeps uids distinct.
LEMMA MovedUid ==
    ASSUME NEW S, NEW f, NEW g, DOMAIN f = S, DOMAIN g = S, Distinct(f),
           NEW old \in S, NEW new \in S, f[old] # None, f[new] = None,
           g[old] = None, g[new].uid = f[old].uid,
           \A x \in S \ {old, new} : g[x] = f[x]
    PROVE  Distinct(g)
  <1> SUFFICES ASSUME NEW x \in S, NEW y \in S, x # y, g[x] # None, g[y] # None
               PROVE  g[x].uid # g[y].uid
    BY DEF Distinct
  <1>1. x # old /\ y # old
    OBVIOUS
  <1>2. CASE x = new
    BY <1>1, <1>2 DEF Distinct
  <1>3. CASE y = new
    BY <1>1, <1>3 DEF Distinct
  <1>4. CASE x # new /\ y # new
    BY <1>1, <1>4 DEF Distinct
  <1> QED
    BY <1>2, <1>3, <1>4

\* The uids in use include those of every live record and of every row.
LEMMA UsedUids ==
    /\ \A r \in RouteIds : routes[r] # None => routes[r].uid \in UsedRouteUids
    /\ \A c \in ClusterIds : clusters[c] # None => clusters[c].uid \in UsedClusterUids
    /\ \A r \in RouteIds : dbRoutes[r] # None => dbRoutes[r].uid \in StoredRouteUids
    /\ \A c \in ClusterIds : dbClusters[c] # None => dbClusters[c].uid \in StoredClusterUids
  BY DEF UsedRouteUids, UsedClusterUids, StoredRouteUids, StoredClusterUids, LiveRoutes, LiveClusters

\* A step that leaves the tables alone and uids distinct in memory keeps UidsIdentify.
LEMMA MemoryUids ==
    ASSUME UidsIdentify, UNCHANGED <<dbRoutes, dbClusters>>, Distinct(routes'), Distinct(clusters')
    PROVE  UidsIdentify'
  BY DEF UidsIdentify, Distinct

\* The operations on one route keep uids apart.
LEMMA RouteEditUids == TypeOK /\ UidsIdentify /\ RouteEdit => UidsIdentify'
  <1> SUFFICES ASSUME TypeOK, UidsIdentify, RouteEdit PROVE UidsIdentify'
    OBVIOUS
  <1>d. DOMAIN routes = RouteIds /\ DOMAIN clusters = ClusterIds
    BY DEF TypeOK
  <1>n. /\ \A r \in RouteIds : routes[r] # None => routes[r] \in Route
        /\ \A c \in ClusterIds : clusters[c] # None => clusters[c] \in Cluster
    BY DEF TypeOK
  <1>e. ASSUME NEW kind, NEW r, NEW c, Edit(kind, r, c) PROVE UNCHANGED <<dbRoutes, dbClusters>>
    BY <1>e DEF Edit, database
  <1>0. Distinct(routes) /\ Distinct(clusters)
    BY DEF UidsIdentify
  <1>u. ASSUME NEW r \in RouteIds, NEW c \in ClusterIds, HasFresh({r}, UsedRouteUids),
               routes' = [routes EXCEPT ![r] = UpsertedRoute(r, c)]
        PROVE  Distinct(routes')
    <2>1. DOMAIN routes' = RouteIds /\ \A x \in RouteIds \ {r} : routes'[x] = routes[x]
      BY <1>d, <1>u
    <2>2. CASE routes[r] = None
      <3>1. routes'[r].uid = Fresh({r}, UsedRouteUids)[r]
        BY <1>d, <1>u, <2>2 DEF UpsertedRoute
      <3>2. routes'[r].uid \notin UsedRouteUids
        BY <1>u, <3>1, FreshFacts
      <3> QED
        BY <1>0, <1>d, <2>1, <3>2, UsedUids, OneDrawn
    <2>3. CASE routes[r] # None
      <3>1. routes'[r].uid = routes[r].uid
        BY <1>d, <1>n, <1>u, <2>3 DEF UpsertedRoute, Route
      <3>2. \A x \in RouteIds : routes'[x] # None => routes[x] # None /\ routes'[x].uid = routes[x].uid
        BY <2>1, <2>3, <3>1
      <3> QED
        BY <1>0, <1>d, <2>1, <3>2, KeptUids
    <2> QED
      BY <2>2, <2>3
  <1>1. ASSUME NEW r \in RouteIds, NEW c \in ClusterIds, NEW a \in Addresses, NEW iso \in BOOLEAN,
               NEW ip \in (DestKeys \ {D1}) \cup {None}, AddRoute(r, c, a, iso, ip)
        PROVE  UidsIdentify'
    <2> DEFINE key == IF iso /\ ip # None THEN ip ELSE D1
               d == [address |-> a, health |-> FALSE]
    <2>1. Distinct(routes')
      BY <1>1, <1>u DEF AddRoute
    <2>2. CASE clusters[c] = None /\ HasFresh({c}, UsedClusterUids) /\
               clusters' = [clusters EXCEPT ![c] =
                    [uid |-> Fresh({c}, UsedClusterUids)[c], source |-> "dynamic",
                     dests |-> [NoDests EXCEPT ![key] = d]]]
      <3>1. DOMAIN clusters' = ClusterIds /\ clusters'[c].uid = Fresh({c}, UsedClusterUids)[c]
            /\ \A x \in ClusterIds \ {c} : clusters'[x] = clusters[x]
        BY <1>d, <2>2
      <3>2. clusters'[c].uid \notin UsedClusterUids
        BY <2>2, <3>1, FreshFacts
      <3>3. Distinct(clusters')
        BY <1>0, <1>d, <3>1, <3>2, UsedUids, OneDrawn
      <3> QED
        BY <1>1, <1>e, <2>1, <3>3, MemoryUids DEF AddRoute
    <2>3. CASE clusters[c] # None /\ clusters' = [clusters EXCEPT ![c].dests[D1] = d]
      <3>1. DOMAIN clusters' = ClusterIds /\ clusters'[c].uid = clusters[c].uid
            /\ \A x \in ClusterIds \ {c} : clusters'[x] = clusters[x]
        BY <1>d, <1>n, <2>3 DEF Cluster
      <3>k. \A x \in ClusterIds : clusters'[x] # None => clusters[x] # None /\ clusters'[x].uid = clusters[x].uid
        BY <2>3, <3>1
      <3>2. Distinct(clusters')
        BY <1>0, <1>d, <3>1, <3>k, KeptUids
      <3> QED
        BY <1>1, <1>e, <2>1, <3>2, MemoryUids DEF AddRoute
    <2>4. CASE clusters' = clusters
      BY <1>0, <1>1, <1>e, <2>1, <2>4, MemoryUids DEF AddRoute
    <2> QED
      BY <1>1, <2>2, <2>3, <2>4 DEF AddRoute
  <1>2. ASSUME NEW r \in RouteIds, NEW c \in ClusterIds, AddRouteConfig(r, c)
        PROVE  UidsIdentify'
    BY <1>0, <1>2, <1>e, <1>u, MemoryUids DEF AddRouteConfig
  <1>3. ASSUME NEW r \in RouteIds, routes' = [routes EXCEPT ![r] = None]
        PROVE  Distinct(routes')
    BY <1>0, <1>3, <1>d, KeptUids
  <1>4. ASSUME NEW r \in RouteIds, NEW ip \in DestKeys \ {D1}, RemoveRouteForClient(r, ip)
        PROVE  UidsIdentify'
    <2> DEFINE c == routes[r].cluster
               rest == [clusters[c].dests EXCEPT ![ip] = None]
    <2>1. c \in ClusterIds
      BY <1>4, <1>n DEF RemoveRouteForClient, Route
    <2>2. CASE clusters[c] # None /\ clusters' = [clusters EXCEPT ![c] =
                    IF rest = NoDests THEN None ELSE [clusters[c] EXCEPT !.dests = rest]]
      <3>1. /\ DOMAIN clusters' = ClusterIds
            /\ \A x \in ClusterIds \ {c} : clusters'[x] = clusters[x]
            /\ clusters'[c] # None => clusters'[c].uid = clusters[c].uid
        BY <1>d, <1>n, <2>1, <2>2 DEF Cluster
      <3>k. \A x \in ClusterIds : clusters'[x] # None => clusters[x] # None /\ clusters'[x].uid = clusters[x].uid
        BY <2>2, <3>1
      <3>2. Distinct(clusters')
        BY <1>0, <1>d, <3>1, <3>k, KeptUids
      <3> QED
        BY <1>3, <1>4, <1>e, <3>2, MemoryUids DEF RemoveRouteForClient
    <2>3. CASE clusters' = clusters
      BY <1>0, <1>3, <1>4, <1>e, <2>3, MemoryUids DEF RemoveRouteForClient
    <2> QED
      BY <1>4, <2>2, <2>3 DEF RemoveRouteForClient
  <1>5. ASSUME NEW r \in RouteIds, NEW b \in BOOLEAN, RemoveRoute(r, b)
        PROVE  UidsIdentify'
    <2>1. Distinct(clusters')
      BY <1>0, <1>5, <1>d, KeptUids DEF RemoveRoute
    <2> QED
      BY <1>3, <1>5, <1>e, <2>1, MemoryUids DEF RemoveRoute
  <1>6. ASSUME NEW r \in RouteIds, NEW b \in BOOLEAN, SetRouteEnabled(r, b)
        PROVE  UidsIdentify'
    <2>1. /\ DOMAIN routes' = RouteIds /\ routes'[r].uid = routes[r].uid
          /\ \A x \in RouteIds \ {r} : routes'[x] = routes[x]
      BY <1>6, <1>d, <1>n DEF SetRouteEnabled, Route
    <2>k. \A x \in RouteIds : routes'[x] # None => routes[x] # None /\ routes'[x].uid = routes[x].uid
      BY <1>6, <2>1 DEF SetRouteEnabled
    <2>2. Distinct(routes')
      BY <1>0, <1>d, <2>1, <2>k, KeptUids
    <2> QED
      BY <1>0, <1>6, <1>e, <2>2, MemoryUids DEF SetRouteEnabled
  <1>7. ASSUME NEW old \in RouteIds, NEW new \in RouteIds, NEW c \in ClusterIds \cup {None},
               RenameRoute(old, new, c)
        PROVE  UidsIdentify'
    <2>1. /\ old # new /\ routes[old] # None /\ routes[new] = None
          /\ DOMAIN routes' = RouteIds
          /\ routes'[old] = None /\ routes'[new].uid = routes[old].uid
          /\ \A x \in RouteIds \ {old, new} : routes'[x] = routes[x]
      BY <1>7, <1>d DEF RenameRoute
    <2>2. Distinct(routes')
      BY <1>0, <1>d, <2>1, MovedUid
    <2> QED
      BY <1>0, <1>7, <1>e, <2>2, MemoryUids DEF RenameRoute
  <1> QED
    BY <1>1, <1>2, <1>4, <1>5, <1>6, <1>7 DEF RouteEdit

\* The operations on one cluster keep uids apart.
LEMMA ClusterEditUids == TypeOK /\ UidsIdentify /\ ClusterEdit => UidsIdentify'
  <1> SUFFICES ASSUME TypeOK, UidsIdentify, ClusterEdit PROVE UidsIdentify'
    OBVIOUS
  <1>d. DOMAIN routes = RouteIds /\ DOMAIN clusters = ClusterIds
    BY DEF TypeOK
  <1>n. /\ \A r \in RouteIds : routes[r] # None => routes[r] \in Route
        /\ \A c \in ClusterIds : clusters[c] # None => clusters[c] \in Cluster
    BY DEF TypeOK
  <1>e. ASSUME NEW kind, NEW r, NEW c, Edit(kind, r, c) PROVE UNCHANGED <<dbRoutes, dbClusters>>
    BY <1>e DEF Edit, database
  <1>0. Distinct(routes) /\ Distinct(clusters)
    BY DEF UidsIdentify
  <1>k. ASSUME NEW c \in ClusterIds, clusters[c] # None, DOMAIN clusters' = ClusterIds,
               clusters'[c].uid = clusters[c].uid,
               \A x \in ClusterIds \ {c} : clusters'[x] = clusters[x]
        PROVE  Distinct(clusters')
    <2>1. \A x \in ClusterIds : clusters'[x] # None => clusters[x] # None /\ clusters'[x].uid = clusters[x].uid
      BY <1>k
    <2> QED
      BY <1>0, <1>d, <1>k, <2>1, KeptUids
  <1>f. ASSUME NEW c \in ClusterIds, HasFresh({c}, UsedClusterUids), DOMAIN clusters' = ClusterIds,
               clusters'[c].uid = Fresh({c}, UsedClusterUids)[c],
               \A x \in ClusterIds \ {c} : clusters'[x] = clusters[x]
        PROVE  Distinct(clusters')
    <2>1. clusters'[c].uid \notin UsedClusterUids
      BY <1>f, FreshFacts
    <2> QED
      BY <1>0, <1>d, <1>f, <2>1, UsedUids, OneDrawn
  <1>1. ASSUME NEW c \in ClusterIds, NEW ds, AddClusterConfig(c, ds)
        PROVE  UidsIdentify'
    <2>1. DOMAIN clusters' = ClusterIds /\ \A x \in ClusterIds \ {c} : clusters'[x] = clusters[x]
      BY <1>1, <1>d DEF AddClusterConfig
    <2>2. Distinct(clusters')
      <3>1. CASE clusters[c] = None
        <4>1. clusters'[c].uid = Fresh({c}, UsedClusterUids)[c]
          BY <1>1, <1>d, <3>1 DEF AddClusterConfig, UpsertedCluster
        <4> QED
          BY <1>1, <1>f, <2>1, <4>1 DEF AddClusterConfig
      <3>2. CASE clusters[c] # None
        <4>1. clusters'[c].uid = clusters[c].uid
          BY <1>1, <1>d, <1>n, <3>2 DEF AddClusterConfig, UpsertedCluster, Cluster
        <4> QED
          BY <1>k, <2>1, <3>2, <4>1
      <3> QED
        BY <3>1, <3>2
    <2> QED
      BY <1>0, <1>1, <1>e, <2>2, MemoryUids DEF AddClusterConfig
  <1>2. ASSUME NEW c \in ClusterIds, NEW ds, CreateCluster(c, ds)
        PROVE  UidsIdentify'
    <2>1. /\ DOMAIN clusters' = ClusterIds /\ \A x \in ClusterIds \ {c} : clusters'[x] = clusters[x]
          /\ clusters'[c].uid = Fresh({c}, UsedClusterUids)[c]
      BY <1>2, <1>d DEF CreateCluster
    <2>2. Distinct(clusters')
      BY <1>2, <1>f, <2>1 DEF CreateCluster
    <2> QED
      BY <1>0, <1>2, <1>e, <2>2, MemoryUids DEF CreateCluster
  <1>3. ASSUME NEW c \in ClusterIds, NEW ds, UpdateCluster(c, ds)
        PROVE  UidsIdentify'
    <2>1. /\ DOMAIN clusters' = ClusterIds /\ \A x \in ClusterIds \ {c} : clusters'[x] = clusters[x]
          /\ clusters[c] # None /\ clusters'[c].uid = clusters[c].uid
      BY <1>3, <1>d, <1>n DEF UpdateCluster, Cluster
    <2>2. Distinct(clusters')
      BY <1>k, <2>1
    <2> QED
      BY <1>0, <1>3, <1>e, <2>2, MemoryUids DEF UpdateCluster
  <1>4. ASSUME NEW c \in ClusterIds, RemoveCluster(c)
        PROVE  UidsIdentify'
    <2>1. Distinct(clusters')
      BY <1>0, <1>4, <1>d, KeptUids DEF RemoveCluster
    <2> QED
      BY <1>0, <1>4, <1>e, <2>1, MemoryUids DEF RemoveCluster
  <1>5. ASSUME NEW old \in ClusterIds, NEW new \in ClusterIds, NEW ds, RenameCluster(old, new, ds)
        PROVE  UidsIdentify'
    <2>1. /\ old # new /\ clusters[old] # None /\ clusters[new] = None
          /\ DOMAIN clusters' = ClusterIds
          /\ clusters'[old] = None /\ clusters'[new].uid = clusters[old].uid
          /\ \A x \in ClusterIds \ {old, new} : clusters'[x] = clusters[x]
      BY <1>5, <1>d DEF RenameCluster
    <2>2. Distinct(clusters')
      BY <1>0, <1>d, <2>1, MovedUid
    <2>3. ASSUME NEW r \in RouteIds, routes'[r] # None
          PROVE  routes[r] # None /\ routes'[r].uid = routes[r].uid
      <3>1. routes[r] \in Route \cup {None}
        BY <1>n
      <3> QED
        BY <1>5, <2>3, <3>1 DEF RenameCluster, Route
    <2>4. Distinct(routes')
      <3>1. DOMAIN routes' = RouteIds
        BY <1>5 DEF RenameCluster
      <3> QED
        BY <1>0, <1>d, <2>3, <3>1, KeptUids
    <2> QED
      BY <1>5, <1>e, <2>2, <2>4, MemoryUids DEF RenameCluster
  <1> QED
    BY <1>1, <1>2, <1>3, <1>4, <1>5 DEF ClusterEdit, AddCluster

\* A working set into which a document is merged, new records under new uids, keeps uids apart.
LEMMA ImportedUids ==
    ASSUME TypeOK, UidsIdentify, NEW doc, NEW cs,
           HasFresh(NewRoutesOf(doc), UsedRouteUids), HasFresh(NewClustersOf(doc), UsedClusterUids),
           NEW rs, NEW cl, DOMAIN rs = RouteIds, DOMAIN cl = ClusterIds,
           \A r \in RouteIds : rs[r] \in
                {None, ImportedRoutes(doc, cs, Fresh(NewRoutesOf(doc), UsedRouteUids))[r]},
           \A c \in ClusterIds : cl[c] \in
                {None, ImportedClusters(doc, Fresh(NewClustersOf(doc), UsedClusterUids))[c]}
    PROVE  Distinct(rs) /\ Distinct(cl)
  <1>d. DOMAIN routes = RouteIds /\ DOMAIN clusters = ClusterIds
    BY DEF TypeOK
  <1>n. /\ \A r \in RouteIds : routes[r] # None => routes[r] \in Route
        /\ \A c \in ClusterIds : clusters[c] # None => clusters[c] \in Cluster
    BY DEF TypeOK
  <1>0. Distinct(routes) /\ Distinct(clusters)
    BY DEF UidsIdentify
  <1>1. Distinct(rs)
    <2> DEFINE u == Fresh(NewRoutesOf(doc), UsedRouteUids)
    <2>1. /\ \A x \in NewRoutesOf(doc) : u[x] \notin UsedRouteUids
          /\ \A x, y \in NewRoutesOf(doc) : x # y => u[x] # u[y]
      BY FreshFacts
    <2>2. \A r \in RouteIds : rs[r] # None => \/ routes[r] # None /\ rs[r].uid = routes[r].uid
                                              \/ r \in NewRoutesOf(doc) /\ rs[r].uid = u[r]
      <3> SUFFICES ASSUME NEW r \in RouteIds, rs[r] # None
                   PROVE  \/ routes[r] # None /\ rs[r].uid = routes[r].uid
                          \/ r \in NewRoutesOf(doc) /\ rs[r].uid = u[r]
        OBVIOUS
      <3> HIDE DEF u
      <3>1. rs[r] = ImportedRoutes(doc, cs, u)[r]
        BY DEF u
      <3>2. CASE routes[r] # None
        <4>1. routes[r] \in Route
          BY <1>n, <3>2
        <4>2. CASE doc.routes[r] = None
          BY <3>1, <3>2, <4>2 DEF ImportedRoutes
        <4>3. CASE doc.routes[r] # None
          BY <3>1, <3>2, <4>1, <4>3 DEF ImportedRoutes, Route
        <4> QED
          BY <4>2, <4>3
      <3>3. CASE routes[r] = None
        <4>1. CASE doc.routes[r] = None
          BY <3>1, <3>3, <4>1 DEF ImportedRoutes
        <4>2. CASE doc.routes[r] # None
          <5>0. rs[r] = [uid |-> u[r], cluster |-> doc.routes[r],
                         clusterUid |-> ResolveClusterUid(cs, doc.routes[r]),
                         source |-> "dynamic", enabled |-> TRUE]
            BY <3>1, <3>3, <4>2, Zenon DEF ImportedRoutes
          <5>1. rs[r].uid = u[r]
            BY <5>0
          <5>2. r \in NewRoutesOf(doc)
            BY <3>3, <4>2 DEF NewRoutesOf
          <5> QED
            BY <5>1, <5>2
        <4> QED
          BY <4>1, <4>2
      <3> QED
        BY <3>2, <3>3
    <2> HIDE DEF u
    <2>3. KeepsOrDraws(RouteIds, routes, rs, u, NewRoutesOf(doc), UsedRouteUids)
      BY <1>d, <2>1, <2>2, UsedUids DEF KeepsOrDraws
    <2> QED
      BY <1>0, <2>3, KeptOrFresh
  <1>2. Distinct(cl)
    <2> DEFINE u == Fresh(NewClustersOf(doc), UsedClusterUids)
    <2>1. /\ \A x \in NewClustersOf(doc) : u[x] \notin UsedClusterUids
          /\ \A x, y \in NewClustersOf(doc) : x # y => u[x] # u[y]
      BY FreshFacts
    <2>2. \A c \in ClusterIds : cl[c] # None => \/ clusters[c] # None /\ cl[c].uid = clusters[c].uid
                                                \/ c \in NewClustersOf(doc) /\ cl[c].uid = u[c]
      <3> SUFFICES ASSUME NEW c \in ClusterIds, cl[c] # None
                   PROVE  \/ clusters[c] # None /\ cl[c].uid = clusters[c].uid
                          \/ c \in NewClustersOf(doc) /\ cl[c].uid = u[c]
        OBVIOUS
      <3> HIDE DEF u
      <3>1. cl[c] = ImportedClusters(doc, u)[c]
        BY DEF u
      <3>2. CASE clusters[c] # None
        BY <1>n, <3>1, <3>2 DEF ImportedClusters, Cluster
      <3>3. CASE clusters[c] = None
        BY <3>1, <3>3 DEF ImportedClusters, NewClustersOf
      <3> QED
        BY <3>2, <3>3
    <2> HIDE DEF u
    <2>3. KeepsOrDraws(ClusterIds, clusters, cl, u, NewClustersOf(doc), UsedClusterUids)
      BY <1>d, <2>1, <2>2, UsedUids DEF KeepsOrDraws
    <2> QED
      BY <1>0, <2>3, KeptOrFresh
  <1> QED
    BY <1>1, <1>2

\* Import, rollback and the batch operations keep uids apart.
LEMMA BatchEditUids == TypeOK /\ UidsIdentify /\ BatchEdit => UidsIdentify'
  <1> SUFFICES ASSUME TypeOK, UidsIdentify, BatchEdit PROVE UidsIdentify'
    OBVIOUS
  <1>d. DOMAIN routes = RouteIds /\ DOMAIN clusters = ClusterIds
    BY DEF TypeOK
  <1>n. \A r \in RouteIds : routes[r] # None => routes[r] \in Route
    BY DEF TypeOK
  <1>e. ASSUME NEW kind, NEW r, NEW c, Edit(kind, r, c) PROVE UNCHANGED <<dbRoutes, dbClusters>>
    BY <1>e DEF Edit, database
  <1>0. Distinct(routes) /\ Distinct(clusters)
    BY DEF UidsIdentify
  <1>1. ASSUME NEW doc, ImportBatch(doc)
        PROVE  UidsIdentify'
    <2>1. /\ routes' = ImportedRoutes(doc, clusters', Fresh(NewRoutesOf(doc), UsedRouteUids))
          /\ clusters' = ImportedClusters(doc, Fresh(NewClustersOf(doc), UsedClusterUids))
          /\ HasFresh(NewRoutesOf(doc), UsedRouteUids) /\ HasFresh(NewClustersOf(doc), UsedClusterUids)
      BY <1>1 DEF ImportBatch
    <2>2. DOMAIN routes' = RouteIds /\ DOMAIN clusters' = ClusterIds
      BY <2>1 DEF ImportedRoutes, ImportedClusters
    <2>3. Distinct(routes') /\ Distinct(clusters')
      BY <2>1, <2>2, ImportedUids
    <2> QED
      BY <1>1, <1>e, <2>3, MemoryUids DEF ImportBatch
  <1>2. ASSUME NEW doc, ReplaceAllConfig(doc)
        PROVE  UidsIdentify'
    <2>1. /\ DOMAIN routes' = RouteIds /\ DOMAIN clusters' = ClusterIds
          /\ HasFresh(NewRoutesOf(doc), UsedRouteUids) /\ HasFresh(NewClustersOf(doc), UsedClusterUids)
      BY <1>2 DEF ReplaceAllConfig
    <2>2. /\ \A r \in RouteIds : routes'[r] \in
                {None, ImportedRoutes(doc, clusters', Fresh(NewRoutesOf(doc), UsedRouteUids))[r]}
          /\ \A c \in ClusterIds : clusters'[c] \in
                {None, ImportedClusters(doc, Fresh(NewClustersOf(doc), UsedClusterUids))[c]}
      BY <1>2 DEF ReplaceAllConfig
    <2>3. Distinct(routes') /\ Distinct(clusters')
      BY <2>1, <2>2, ImportedUids
    <2> QED
      BY <1>2, <1>e, <2>3, MemoryUids DEF ReplaceAllConfig
  <1>3. ASSUME NEW ids, BatchDeleteClusters(ids)
        PROVE  UidsIdentify'
    <2>1. Distinct(clusters')
      BY <1>0, <1>3, <1>d, KeptUids DEF BatchDeleteClusters
    <2> QED
      BY <1>0, <1>3, <1>e, <2>1, MemoryUids DEF BatchDeleteClusters
  <1>4. ASSUME NEW ids, NEW b, BatchDeleteRoutes(ids, b)
        PROVE  UidsIdentify'
    <2>1. /\ DOMAIN routes' = RouteIds /\ \A r \in RouteIds : routes'[r] \in {None, routes[r]}
          /\ DOMAIN clusters' = ClusterIds /\ \A c \in ClusterIds : clusters'[c] \in {None, clusters[c]}
      BY <1>4, <1>d DEF BatchDeleteRoutes
    <2>2. Distinct(routes')
      BY <1>0, <1>d, <2>1, KeptUids
    <2>3. Distinct(clusters')
      BY <1>0, <1>d, <2>1, KeptUids
    <2> QED
      BY <1>4, <1>e, <2>2, <2>3, MemoryUids DEF BatchDeleteRoutes
  <1>5. ASSUME NEW ids, NEW b, BatchSetRoutesEnabled(ids, b)
        PROVE  UidsIdentify'
    <2>1. DOMAIN routes' = RouteIds
      BY <1>5 DEF BatchSetRoutesEnabled
    <2>2. ASSUME NEW r \in RouteIds, routes'[r] # None
          PROVE  routes[r] # None /\ routes'[r].uid = routes[r].uid
      BY <1>5, <1>n, <2>2 DEF BatchSetRoutesEnabled, Route
    <2>3. Distinct(routes')
      BY <1>0, <1>d, <2>1, <2>2, KeptUids
    <2> QED
      BY <1>0, <1>5, <1>e, <2>3, MemoryUids DEF BatchSetRoutesEnabled
  <1> QED
    BY <1>1, <1>2, <1>3, <1>4, <1>5 DEF BatchEdit

\* A row carries the uid of its record, and a loaded record the uid of its row.
LEMMA RowUids ==
    ASSUME TypeOK
    PROVE  /\ \A r \in RouteIds : routes[r] # None => RouteEntity(routes[r]).uid = routes[r].uid
           /\ \A c \in ClusterIds : clusters[c] # None => ClusterEntity(clusters[c]).uid = clusters[c].uid
           /\ \A r \in RouteIds : dbRoutes[r] # None => LoadRoute(dbRoutes[r]).uid = dbRoutes[r].uid
           /\ \A c \in ClusterIds : \A ds : dbClusters[c] # None =>
                  LoadCluster(dbClusters[c], ds).uid = dbClusters[c].uid
  BY DEF RouteEntity, ClusterEntity, LoadRoute, LoadCluster

\* The steps of publish and save keep uids apart: a row is written only where the unique
\* index accepts it, or together with all records of the working set.
LEMMA OpStepUids == DurInv /\ UidsIdentify /\ OpStep => UidsIdentify'
  <1> SUFFICES ASSUME DurInv, TypeOK, UidsIdentify, OpStep PROVE UidsIdentify'
    BY DEF DurInv
  <1>d. /\ DOMAIN routes = RouteIds /\ DOMAIN clusters = ClusterIds
        /\ DOMAIN dbRoutes = RouteIds /\ DOMAIN dbClusters = ClusterIds
    BY DEF TypeOK
  <1>0. Distinct(routes) /\ Distinct(clusters) /\ Distinct(dbRoutes) /\ Distinct(dbClusters)
    BY DEF UidsIdentify
  <1>u. ASSUME UNCHANGED <<routes, clusters, dbRoutes, dbClusters>> PROVE UidsIdentify'
    BY <1>u DEF UidsIdentify, Distinct
  <1>r. ASSUME UNCHANGED <<routes, clusters, dbClusters>>, Distinct(dbRoutes') PROVE UidsIdentify'
    BY <1>r DEF UidsIdentify, Distinct
  <1>c. ASSUME UNCHANGED <<routes, clusters, dbRoutes>>, Distinct(dbClusters') PROVE UidsIdentify'
    BY <1>c DEF UidsIdentify, Distinct
  <1>1. CASE PublishFails
    <2>1. Distinct(routes') /\ Distinct(clusters')
      BY <1>0, <1>1 DEF PublishFails, memory, Distinct
    <2> QED
      BY <1>1, <2>1, MemoryUids DEF PublishFails, database
  <1>2. CASE SaveRoute
    <2>1. DOMAIN dbRoutes' = RouteIds /\ \A x \in RouteIds \ {op.route} : dbRoutes'[x] = dbRoutes[x]
      BY <1>2, <1>d DEF SaveRoute
    <2>2. ASSUME op.route \in RouteIds, dbRoutes'[op.route] # None
          PROVE  routes[op.route] # None /\ dbRoutes'[op.route].uid = routes[op.route].uid
      <3>1. dbRoutes'[op.route] = RouteEntity(routes[op.route])
        BY <1>2, <1>d, <2>2 DEF SaveRoute
      <3> QED
        BY <2>2, <3>1, RowUids DEF RouteEntity
    <2>3. ASSUME NEW y \in RouteIds, y # op.route, op.route \in RouteIds,
                 dbRoutes'[op.route] # None, dbRoutes[y] # None
          PROVE  dbRoutes'[op.route].uid # dbRoutes[y].uid
      BY <1>2, <2>2, <2>3 DEF SaveRoute, RouteClash
    <2>4. Distinct(dbRoutes')
      BY <1>0, <1>d, <2>1, <2>3 DEF Distinct
    <2> QED
      BY <1>2, <1>r, <2>4 DEF SaveRoute, memory
  <1>3. CASE SaveCluster
    <2>1. DOMAIN dbClusters' = ClusterIds
          /\ \A x \in ClusterIds \ {op.cluster} : dbClusters'[x] = dbClusters[x]
      BY <1>3, <1>d DEF SaveCluster
    <2>2. ASSUME op.cluster \in ClusterIds, dbClusters'[op.cluster] # None
          PROVE  clusters[op.cluster] # None /\ dbClusters'[op.cluster].uid = clusters[op.cluster].uid
      <3>1. dbClusters'[op.cluster] = ClusterEntity(clusters[op.cluster])
        BY <1>3, <1>d, <2>2 DEF SaveCluster
      <3> QED
        BY <2>2, <3>1, RowUids DEF ClusterEntity
    <2>3. ASSUME NEW y \in ClusterIds, y # op.cluster, op.cluster \in ClusterIds,
                 dbClusters'[op.cluster] # None, dbClusters[y] # None
          PROVE  dbClusters'[op.cluster].uid # dbClusters[y].uid
      BY <1>3, <2>2, <2>3 DEF SaveCluster, ClusterClash
    <2>4. Distinct(dbClusters')
      BY <1>0, <1>d, <2>1, <2>3 DEF Distinct
    <2> QED
      BY <1>3, <1>c, <2>4 DEF SaveCluster, memory
  <1>4. ASSUME NEW r \in RouteIds, DeleteStaleRoute(r)
        PROVE  UidsIdentify'
    <2>1. Distinct(dbRoutes')
      BY <1>0, <1>4, <1>d, KeptUids DEF DeleteStaleRoute
    <2> QED
      BY <1>4, <1>r, <2>1 DEF DeleteStaleRoute, memory
  <1>5. CASE SaveRoutes
    <2>1. DOMAIN dbRoutes' = RouteIds
      BY <1>5 DEF SaveRoutes
    <2>2. ASSUME NEW r \in RouteIds, dbRoutes'[r] # None
          PROVE  routes[r] # None /\ dbRoutes'[r].uid = routes[r].uid
      BY <1>5, <2>2, WrittenRows, RowUids DEF RouteEntity
    <2>3. Distinct(dbRoutes')
      BY <1>0, <1>d, <2>1, <2>2, KeptUids
    <2> QED
      BY <1>5, <1>r, <2>3 DEF SaveRoutes, memory
  <1>6. CASE DeleteStaleCluster
    <2>1. Distinct(dbClusters')
      BY <1>0, <1>6, <1>d, KeptUids DEF DeleteStaleCluster
    <2> QED
      BY <1>6, <1>c, <2>1 DEF DeleteStaleCluster, memory
  <1>7. CASE SaveClusters
    <2>1. DOMAIN dbClusters' = ClusterIds
      BY <1>7 DEF SaveClusters
    <2>2. ASSUME NEW c \in ClusterIds, dbClusters'[c] # None
          PROVE  clusters[c] # None /\ dbClusters'[c].uid = clusters[c].uid
      BY <1>7, <2>2, WrittenRows, RowUids DEF ClusterEntity
    <2>3. Distinct(dbClusters')
      BY <1>0, <1>d, <2>1, <2>2, KeptUids
    <2> QED
      BY <1>7, <1>c, <2>3 DEF SaveClusters, memory
  <1>8. CASE Publish \/ SaveDestinations \/ CallThrows \/ UniqueIndexThrows
    BY <1>8, <1>u DEF Publish, SaveDestinations, CallThrows, UniqueIndexThrows, SaveFails, memory, database
  <1>9. CASE \E c \in ClusterIds : DeleteStaleDestinations(c) \/ SaveDestinationsOf(c)
    BY <1>9, <1>u DEF DeleteStaleDestinations, SaveDestinationsOf, memory
  <1> QED
    BY <1>1, <1>2, <1>3, <1>4, <1>5, <1>6, <1>7, <1>8, <1>9 DEF OpStep

\* A process start, from whatever a crash left in the tables, keeps uids apart.
LEMMA LifecycleUids == TypeOK /\ UidsIdentify /\ Lifecycle => UidsIdentify'
  <1> SUFFICES ASSUME TypeOK, UidsIdentify, NEW doc, NEW ok \in BOOLEAN, Start(doc, ok),
                      UNCHANGED <<dbRoutes, dbClusters>>
               PROVE  UidsIdentify'
    BY DEF Lifecycle, FirstStart, Restart, RestartLoadFails, database
  <1> DEFINE rs == LoadedRoutes(ok)
             cs == LoadedClusters(ok)
             newR == {r \in RouteIds : doc.routes[r] # None /\ rs[r] = None}
             newC == {c \in ClusterIds : doc.clusters[c] # None /\ cs[c] = None}
             ru == Fresh(newR, StoredRouteUids)
             cu == Fresh(newC, StoredClusterUids)
  <1>1. /\ HasFresh(newR, StoredRouteUids) /\ HasFresh(newC, StoredClusterUids)
        /\ routes' = MarkStaticRoutes(rs, cs, doc, ru)
        /\ clusters' = MarkStaticClusters(cs, doc, cu)
    BY DEF Start
  <1>3. rs \in RouteMap /\ cs \in ClusterMap
    BY LoadedTypes
  <1>n. \A c \in ClusterIds : LoadCluster(None, dbDests[c]) = None
    BY DEF LoadCluster
  <1>4. /\ \A r \in RouteIds : rs[r] # None => dbRoutes[r] # None /\ rs[r].uid = dbRoutes[r].uid
        /\ \A c \in ClusterIds : cs[c] # None => dbClusters[c] # None /\ cs[c].uid = dbClusters[c].uid
    BY <1>n, RowUids DEF LoadedRoutes, LoadedClusters, LoadRoute
  <1>5. Distinct(rs) /\ Distinct(cs)
    BY <1>4 DEF UidsIdentify, Distinct, TypeOK, LoadedRoutes, LoadedClusters
  <1>m. /\ \A r \in RouteIds : doc.routes[r] # None /\ rs[r] = None => r \in newR
        /\ \A c \in ClusterIds : doc.clusters[c] # None /\ cs[c] = None => c \in newC
    OBVIOUS
  <1> HIDE DEF rs, cs, newR, newC
  <1>2. /\ \A x \in newR : ru[x] \notin StoredRouteUids
        /\ \A x, y \in newR : x # y => ru[x] # ru[y]
        /\ \A x \in newC : cu[x] \notin StoredClusterUids
        /\ \A x, y \in newC : x # y => cu[x] # cu[y]
    BY <1>1, FreshFacts
  <1> HIDE DEF ru, cu
  <1>6. \A r \in RouteIds : routes'[r] # None => \/ rs[r] # None /\ routes'[r].uid = rs[r].uid
                                                 \/ r \in newR /\ routes'[r].uid = ru[r]
    <2> SUFFICES ASSUME NEW r \in RouteIds, routes'[r] # None
                 PROVE  \/ rs[r] # None /\ routes'[r].uid = rs[r].uid
                        \/ r \in newR /\ routes'[r].uid = ru[r]
      OBVIOUS
    <2>1. rs[r] \in Route \cup {None}
      BY <1>3 DEF RouteMap
    <2>2. CASE doc.routes[r] # None /\ rs[r] # None
      BY <1>1, <2>1, <2>2 DEF MarkStaticRoutes, Route
    <2>3. CASE doc.routes[r] # None /\ rs[r] = None
      BY <1>1, <1>m, <2>3 DEF MarkStaticRoutes
    <2>4. CASE doc.routes[r] = None
      BY <1>1, <2>4 DEF MarkStaticRoutes
    <2> QED
      BY <2>2, <2>3, <2>4
  <1>7. \A c \in ClusterIds : clusters'[c] # None => \/ cs[c] # None /\ clusters'[c].uid = cs[c].uid
                                                     \/ c \in newC /\ clusters'[c].uid = cu[c]
    <2> SUFFICES ASSUME NEW c \in ClusterIds, clusters'[c] # None
                 PROVE  \/ cs[c] # None /\ clusters'[c].uid = cs[c].uid
                        \/ c \in newC /\ clusters'[c].uid = cu[c]
      OBVIOUS
    <2>1. cs[c] \in Cluster \cup {None}
      BY <1>3 DEF ClusterMap
    <2>2. CASE doc.clusters[c] # None /\ cs[c] # None
      BY <1>1, <2>1, <2>2 DEF MarkStaticClusters, Cluster
    <2>3. CASE doc.clusters[c] # None /\ cs[c] = None
      BY <1>1, <1>m, <2>3 DEF MarkStaticClusters
    <2>4. CASE doc.clusters[c] = None
      BY <1>1, <2>4 DEF MarkStaticClusters
    <2> QED
      BY <2>2, <2>3, <2>4
  <1>8. /\ DOMAIN routes' = RouteIds /\ DOMAIN clusters' = ClusterIds
        /\ DOMAIN rs = RouteIds /\ DOMAIN cs = ClusterIds
    BY <1>1, <1>3 DEF MarkStaticRoutes, MarkStaticClusters, RouteMap, ClusterMap
  <1>9. /\ \A r \in RouteIds : rs[r] # None => rs[r].uid \in StoredRouteUids
        /\ \A c \in ClusterIds : cs[c] # None => cs[c].uid \in StoredClusterUids
    BY <1>4, UsedUids
  <1>10. KeepsOrDraws(RouteIds, rs, routes', ru, newR, StoredRouteUids)
    BY <1>2, <1>6, <1>8, <1>9 DEF KeepsOrDraws
  <1>11. KeepsOrDraws(ClusterIds, cs, clusters', cu, newC, StoredClusterUids)
    BY <1>2, <1>7, <1>8, <1>9 DEF KeepsOrDraws
  <1>12. Distinct(routes') /\ Distinct(clusters')
    BY <1>5, <1>10, <1>11, KeptOrFresh
  <1> QED
    BY <1>12, MemoryUids

\* A uid identifies one route and one cluster, in memory and in the tables, through every
\* sequence of renames, imports, rollbacks, failing saves, crashes and starts: what is attached
\* by uid (plugin bindings) stays with its record.  (A save may still be refused: a row that an
\* earlier save left behind half way can hold the uid of a record that has moved on.)
THEOREM UidsStayUnique == Spec => []UidsIdentify
  <1>1. Init => UidsIdentify
    BY DEF Init, UidsIdentify, Distinct
  <1>2. DurInv /\ UidsIdentify /\ [Next]_vars => UidsIdentify'
    <2>1. TypeOK /\ UidsIdentify /\ (RefreshConfig \/ SaveDynamicConfig \/ UNCHANGED vars) => UidsIdentify'
      BY DEF RefreshConfig, SaveDynamicConfig, vars, memory, database, UidsIdentify, Distinct
    <2> QED
      BY <2>1, RouteEditUids, ClusterEditUids, BatchEditUids, OpStepUids, LifecycleUids DEF Next, DurInv
  <1> QED
    BY <1>1, <1>2, InitDur, NextDur, PTL DEF Spec
-----------------------------------------------------------------------------
(* Restarts. *)

\* What the tables hold, some save was given: each row as a whole, and the destinations of
\* a cluster as a whole.  A save in progress writes the working set it was given.
RowsGiven ==
    /\ \A r \in RouteIds : dbRoutes[r] \in since.routes[r]
    /\ \A c \in ClusterIds : \E cl \in since.clusters[c] : dbClusters[c] = ClusterEntity(cl)
    /\ \A c \in ClusterIds : \E cl \in since.clusters[c] : dbDests[c] = DestEntities(cl)
WorkingSetGiven ==
    /\ \A r \in RouteIds : RouteEntity(routes[r]) \in since.routes[r]
    /\ \A c \in ClusterIds : clusters[c] \in since.clusters[c]
GivenInv == RowsGiven /\ (op.pc \in SavePcs => WorkingSetGiven)

\* Handing the working set over adds its records and forgets none.
LEMMA GivenFacts ==
    ASSUME NEW past, NEW rs, NEW cs
    PROVE  /\ \A r \in RouteIds : Given(past, rs, cs).routes[r] = past.routes[r] \cup {RouteEntity(rs[r])}
           /\ \A c \in ClusterIds : Given(past, rs, cs).clusters[c] = past.clusters[c] \cup {cs[c]}
           /\ \A r \in RouteIds : Forgotten.routes[r] = {}
           /\ \A c \in ClusterIds : Forgotten.clusters[c] = {}
  BY DEF Given, Forgotten

\* A step that leaves the tables alone and hands over more keeps what is given.
LEMMA MoreGiven ==
    ASSUME GivenInv, UNCHANGED <<dbRoutes, dbClusters, dbDests>>,
           \/ since' = Given(since, routes', clusters')
           \/ since' = since /\ op'.pc \notin SavePcs
    PROVE  GivenInv'
  <1>1. CASE since' = Given(since, routes', clusters')
    <2>1. /\ \A r \in RouteIds : since'.routes[r] = since.routes[r] \cup {RouteEntity(routes'[r])}
          /\ \A c \in ClusterIds : since'.clusters[c] = since.clusters[c] \cup {clusters'[c]}
      BY <1>1, GivenFacts
    <2>2. RowsGiven'
      BY <2>1 DEF GivenInv, RowsGiven
    <2>3. WorkingSetGiven'
      BY <2>1 DEF WorkingSetGiven
    <2> QED
      BY <2>2, <2>3 DEF GivenInv
  <1>2. CASE since' = since /\ op'.pc \notin SavePcs
    BY <1>2 DEF GivenInv, RowsGiven
  <1> QED
    BY <1>1, <1>2

\* A save that ends forgets only when the tables are in step.
LEMMA FinishGiven ==
    ASSUME DurInv', NEW outcome, Finish(outcome), op \in Op, UNCHANGED <<routes, clusters>>,
           since' = since => RowsGiven'
    PROVE  GivenInv'
  <1>1. op'.pc = "idle" \/ (op'.pc = "publish" /\ op'.kind = "MarkStaticConfig")
    BY DEF Finish, Idle, OpAt, Op
  <1>2. CASE since' = since
    BY <1>1, <1>2 DEF GivenInv, SavePcs
  <1>3. CASE outcome = "no"
    <2>1. dirty' = "no" /\ since' = Given(Forgotten, routes, clusters)
      BY <1>3 DEF Finish
    <2>2. InSync'
      BY <1>1, <2>1 DEF DurInv, Settled
    <2>3. /\ \A r \in RouteIds : since'.routes[r] = {RouteEntity(routes[r])}
          /\ \A c \in ClusterIds : since'.clusters[c] = {clusters[c]}
      BY <2>1, GivenFacts
    <2>4. RowsGiven'
      BY <2>2, <2>3 DEF RowsGiven, InSync, RoutesInSync, ClustersInSync, DestsInSync
    <2> QED
      BY <1>1, <2>4 DEF GivenInv, SavePcs
  <1> QED
    BY <1>2, <1>3 DEF Finish

\* A call of a save writes what the save was given, or removes the row of a record that is
\* gone.
LEMMA SaveGiven ==
    ASSUME DurInv, DurInv', GivenInv, OpStep, ~Publish, ~PublishFails
    PROVE  GivenInv'
  <1>p. op.pc \in SavePcs
    BY DEF OpStep, SaveRoute, SaveCluster, SaveDestinations, DeleteStaleRoute, SaveRoutes,
           DeleteStaleDestinations, DeleteStaleCluster, SaveClusters, SaveDestinationsOf,
           CallThrows, UniqueIndexThrows, SaveFails, SavePcs, Pcs
  <1>g. RowsGiven /\ WorkingSetGiven
    BY <1>p DEF GivenInv
  <1>t. /\ op \in Op /\ DOMAIN dbRoutes = RouteIds /\ DOMAIN dbClusters = ClusterIds
        /\ DOMAIN dbDests = ClusterIds
    BY DEF DurInv, TypeOK
  <1>m. UNCHANGED <<routes, clusters>>
    BY DEF OpStep, SaveRoute, SaveCluster, SaveDestinations, DeleteStaleRoute, SaveRoutes,
           DeleteStaleDestinations, DeleteStaleCluster, SaveClusters, SaveDestinationsOf,
           CallThrows, UniqueIndexThrows, SaveFails, memory
  \* Each table is untouched, or an entry takes what the working set has for it.
  <1>r. \A r \in RouteIds : dbRoutes'[r] = dbRoutes[r] \/ dbRoutes'[r] = RouteEntity(routes[r])
    <2>1. ASSUME NEW r \in RouteIds, DeleteStaleRoute(r)
          PROVE  routes[r] = None /\ \A x \in RouteIds : dbRoutes'[x] = IF x = r THEN None ELSE dbRoutes[x]
      BY <1>t, <2>1 DEF DeleteStaleRoute, DurInv, Listed, StaleRoutes
    <2>2. CASE \E r \in RouteIds : DeleteStaleRoute(r)
      BY <2>1, <2>2 DEF RouteEntity
    <2>3. CASE SaveRoutes
      BY <2>3, WrittenRows
    <2>4. CASE SaveRoute
      BY <1>t, <2>4 DEF SaveRoute
    <2>5. CASE UNCHANGED dbRoutes
      BY <2>5
    <2> QED
      BY <2>2, <2>3, <2>4, <2>5
      DEF OpStep, SaveCluster, SaveDestinations, DeleteStaleDestinations, DeleteStaleCluster,
          SaveClusters, SaveDestinationsOf, CallThrows, UniqueIndexThrows, SaveFails, database
  <1>c. \A c \in ClusterIds : dbClusters'[c] = dbClusters[c] \/ dbClusters'[c] = ClusterEntity(clusters[c])
    <2>1. CASE DeleteStaleCluster
      <3>1. clusters[op.cluster] = None
        BY <2>1 DEF DeleteStaleCluster, DurInv, FullSaveProgress
      <3> QED
        BY <1>t, <2>1, <3>1 DEF DeleteStaleCluster, ClusterEntity
    <2>2. CASE SaveClusters
      BY <2>2, WrittenRows
    <2>3. CASE SaveCluster
      BY <1>t, <2>3 DEF SaveCluster
    <2>4. CASE UNCHANGED dbClusters
      BY <2>4
    <2> QED
      BY <2>1, <2>2, <2>3, <2>4
      DEF OpStep, SaveRoute, SaveDestinations, DeleteStaleRoute, SaveRoutes, DeleteStaleDestinations,
          SaveDestinationsOf, CallThrows, UniqueIndexThrows, SaveFails, database
  <1>d. \A c \in ClusterIds : dbDests'[c] = dbDests[c] \/ dbDests'[c] = DestEntities(clusters[c])
    <2>1. ASSUME NEW c \in ClusterIds, DeleteStaleDestinations(c)
          PROVE  clusters[c] = None /\ \A x \in ClusterIds : dbDests'[x] = IF x = c THEN NoDests ELSE dbDests[x]
      BY <1>t, <2>1 DEF DeleteStaleDestinations, DurInv, Listed, StaleClusters
    <2>2. CASE \E c \in ClusterIds : DeleteStaleDestinations(c)
      BY <2>1, <2>2 DEF DestEntities
    <2>3. CASE SaveDestinations
      BY <1>t, <2>3 DEF SaveDestinations
    <2>4. ASSUME NEW c \in ClusterIds, SaveDestinationsOf(c)
          PROVE  \A x \in ClusterIds : dbDests'[x] = IF x = c THEN DestEntities(clusters[c]) ELSE dbDests[x]
      BY <1>t, <2>4 DEF SaveDestinationsOf
    <2>5. CASE \E c \in ClusterIds : SaveDestinationsOf(c)
      BY <2>4, <2>5
    <2>6. CASE UNCHANGED dbDests
      BY <2>6
    <2> QED
      BY <2>2, <2>3, <2>5, <2>6
      DEF OpStep, SaveRoute, SaveCluster, DeleteStaleRoute, SaveRoutes, DeleteStaleCluster,
          SaveClusters, CallThrows, UniqueIndexThrows, SaveFails, database
  <1>1. since' = since => RowsGiven'
    <2> SUFFICES ASSUME since' = since PROVE RowsGiven'
      OBVIOUS
    <2>1. \A r \in RouteIds : dbRoutes'[r] \in since.routes[r]
      BY <1>g, <1>r DEF RowsGiven, WorkingSetGiven
    <2>2. \A c \in ClusterIds : \E cl \in since.clusters[c] : dbClusters'[c] = ClusterEntity(cl)
      BY <1>g, <1>c DEF RowsGiven, WorkingSetGiven
    <2>3. \A c \in ClusterIds : \E cl \in since.clusters[c] : dbDests'[c] = DestEntities(cl)
      BY <1>g, <1>d DEF RowsGiven, WorkingSetGiven
    <2> QED
      BY <2>1, <2>2, <2>3 DEF RowsGiven
  <1>2. CASE since' = since
    BY <1>1, <1>2, <1>g, <1>m DEF GivenInv, WorkingSetGiven
  <1>3. CASE \E outcome : Finish(outcome)
    BY <1>1, <1>3, <1>m, <1>t, FinishGiven
  <1> QED
    BY <1>2, <1>3
    DEF OpStep, SaveRoute, SaveCluster, SaveDestinations, DeleteStaleRoute, SaveRoutes,
        DeleteStaleDestinations, DeleteStaleCluster, SaveClusters, SaveDestinationsOf,
        CallThrows, UniqueIndexThrows, SaveFails, FinishFull, FinishIncremental

\* Every step keeps what the tables hold among what the saves were given.
LEMMA NextGiven == DurInv /\ DurInv' /\ GivenInv /\ [Next]_vars => GivenInv'
  <1> SUFFICES ASSUME DurInv, DurInv', GivenInv, [Next]_vars PROVE GivenInv'
    OBVIOUS
  <1>1. CASE RouteEdit \/ ClusterEdit \/ BatchEdit
    <2>1. ASSUME NEW kind, NEW r, NEW c, Edit(kind, r, c) PROVE GivenInv'
      <3>1. UNCHANGED <<dbRoutes, dbClusters, dbDests, since>> /\ op'.pc = "publish"
        BY <2>1 DEF Edit, OpAt, database
      <3> QED
        BY <3>1, MoreGiven DEF SavePcs
    <2> QED
      BY <1>1, <2>1, EditsEnter
  <1>2. CASE RefreshConfig
    <2>1. UNCHANGED <<dbRoutes, dbClusters, dbDests, since>> /\ op'.pc = "publish"
      BY <1>2 DEF RefreshConfig, OpAt, database
    <2> QED
      BY <2>1, MoreGiven DEF SavePcs
  <1>3. CASE SaveDynamicConfig
    BY <1>3, MoreGiven DEF SaveDynamicConfig, memory, database
  <1>4. CASE Publish
    <2>1. CASE op.kind = "RefreshConfig"
      <3>1. UNCHANGED <<dbRoutes, dbClusters, dbDests, since>> /\ op'.pc = "idle"
        BY <1>4, <2>1 DEF Publish, FirstSaveStep, Idle, OpAt, database
      <3> QED
        BY <3>1, MoreGiven DEF SavePcs
    <2>2. CASE op.kind # "RefreshConfig"
      BY <1>4, <2>2, MoreGiven DEF Publish, memory, database
    <2> QED
      BY <2>1, <2>2
  <1>5. CASE PublishFails
    <2>1. UNCHANGED <<dbRoutes, dbClusters, dbDests, since>> /\ op'.pc = "idle"
      BY <1>5 DEF PublishFails, Idle, OpAt, database
    <2> QED
      BY <2>1, MoreGiven DEF SavePcs
  <1>6. CASE OpStep /\ ~Publish /\ ~PublishFails
    BY <1>6, SaveGiven
  <1>7. CASE Lifecycle
    <2>1. UNCHANGED <<dbRoutes, dbClusters, dbDests>> /\ \E doc, ok : Start(doc, ok)
      BY <1>7 DEF Lifecycle, FirstStart, Restart, RestartLoadFails, database
    <2> QED
      BY <2>1, MoreGiven DEF Start
  <1>8. CASE UNCHANGED vars
    BY <1>8 DEF vars, GivenInv, RowsGiven, WorkingSetGiven
  <1> QED
    BY <1>1, <1>2, <1>3, <1>4, <1>5, <1>6, <1>7, <1>8 DEF Next

\* Empty tables, and an empty working set that was handed over.
LEMMA InitGiven == Init => GivenInv
  <1> SUFFICES ASSUME Init PROVE GivenInv
    OBVIOUS
  <1>1. /\ \A r \in RouteIds : since.routes[r] = {RouteEntity(routes[r])} /\ routes[r] = None
        /\ \A c \in ClusterIds : since.clusters[c] = {clusters[c]} /\ clusters[c] = None
    BY GivenFacts DEF Init
  <1>2. RowsGiven
    BY <1>1 DEF Init, RowsGiven, RouteEntity, ClusterEntity, DestEntities
  <1> QED
    BY <1>2 DEF Init, Idle, OpAt, GivenInv, SavePcs

\* What a restart must bring back, wherever the process died.
Recovers ==
    \A doc \in AppSettings : Restart(doc) =>
        /\ \A r \in RouteIds : doc.routes[r] = None =>
              IF routes'[r] = None
              THEN \E row \in since.routes[r] : row = None \/ row.source = "config"
              ELSE routes'[r].enabled /\ RouteEntity(routes'[r]) \in since.routes[r]
        /\ \A c \in ClusterIds : doc.clusters[c] = None =>
              IF clusters'[c] = None
              THEN \E cl \in since.clusters[c] : cl = None \/ cl.source = "config"
              ELSE \E cl, other \in since.clusters[c] :
                     clusters'[c] = LoadCluster(ClusterEntity(cl), DestEntities(other))

\* A restart reads back what the tables hold, row by row, and drops only the records of an
\* earlier appsettings.json.
LEMMA RestartStep == TypeOK /\ GivenInv => Recovers
  <1> SUFFICES ASSUME TypeOK, RowsGiven, NEW doc \in AppSettings, Restart(doc)
               PROVE  /\ \A r \in RouteIds : doc.routes[r] = None =>
                            IF routes'[r] = None
                            THEN \E row \in since.routes[r] : row = None \/ row.source = "config"
                            ELSE routes'[r].enabled /\ RouteEntity(routes'[r]) \in since.routes[r]
                      /\ \A c \in ClusterIds : doc.clusters[c] = None =>
                            IF clusters'[c] = None
                            THEN \E cl \in since.clusters[c] : cl = None \/ cl.source = "config"
                            ELSE \E cl, other \in since.clusters[c] :
                                   clusters'[c] = LoadCluster(ClusterEntity(cl), DestEntities(other))
    BY DEF Recovers, GivenInv
  <1>1. PICK ru, cu : /\ routes' = MarkStaticRoutes(LoadedRoutes(TRUE), LoadedClusters(TRUE), doc, ru)
                      /\ clusters' = MarkStaticClusters(LoadedClusters(TRUE), doc, cu)
    BY DEF Restart, Start
  <1>2. ASSUME NEW r \in RouteIds, doc.routes[r] = None
        PROVE  IF routes'[r] = None
               THEN \E row \in since.routes[r] : row = None \/ row.source = "config"
               ELSE routes'[r].enabled /\ RouteEntity(routes'[r]) \in since.routes[r]
    <2> DEFINE rt == LoadedRoutes(TRUE)[r]
    <2>1. dbRoutes[r] \in since.routes[r] /\ dbRoutes[r] \in RouteRow \cup {None}
      BY DEF RowsGiven, TypeOK
    <2>2. routes'[r] = IF rt # None /\ rt.source = "config" THEN None ELSE rt
      BY <1>1, <1>2 DEF MarkStaticRoutes
    <2>3. rt = LoadRoute(dbRoutes[r])
      BY DEF LoadedRoutes
    <2> HIDE DEF rt
    <2>4. CASE dbRoutes[r] = None
      BY <2>1, <2>2, <2>3, <2>4 DEF LoadRoute
    <2>5. CASE dbRoutes[r] # None
      <3>1. rt = [uid |-> dbRoutes[r].uid, cluster |-> dbRoutes[r].cluster,
                  clusterUid |-> dbRoutes[r].clusterUid, source |-> dbRoutes[r].source, enabled |-> TRUE]
        BY <2>3, <2>5 DEF LoadRoute
      <3>2. rt \in Route
        BY <2>1, <2>5, <3>1 DEF Route, RouteRow
      <3>3. rt # None
        BY <3>2, ConstantsAssumption
      <3>4. rt.enabled = TRUE /\ rt.source = dbRoutes[r].source
        BY <3>1
      <3>5. RouteEntity(rt) = dbRoutes[r]
        BY <2>1, <2>5, <3>1, <3>3 DEF RouteEntity, RouteRow
      <3>6. CASE rt.source = "config"
        BY <2>1, <2>2, <3>3, <3>4, <3>6
      <3>7. CASE rt.source # "config"
        BY <2>1, <2>2, <3>3, <3>4, <3>5, <3>7
      <3> QED
        BY <3>6, <3>7
    <2> QED
      BY <2>4, <2>5
  <1>3. ASSUME NEW c \in ClusterIds, doc.clusters[c] = None
        PROVE  IF clusters'[c] = None
               THEN \E cl \in since.clusters[c] : cl = None \/ cl.source = "config"
               ELSE \E cl, other \in since.clusters[c] :
                      clusters'[c] = LoadCluster(ClusterEntity(cl), DestEntities(other))
    <2>1. PICK cl \in since.clusters[c] : dbClusters[c] = ClusterEntity(cl)
      BY DEF RowsGiven
    <2>2. PICK other \in since.clusters[c] : dbDests[c] = DestEntities(other)
      BY DEF RowsGiven
    <2>3. cl \in Cluster \cup {None}
      BY <2>1 DEF TypeOK, Since
    <2> DEFINE loaded == LoadCluster(ClusterEntity(cl), DestEntities(other))
    <2>4. clusters'[c] = IF loaded # None /\ loaded.source = "config" THEN None ELSE loaded
      BY <1>1, <1>3, <2>1, <2>2 DEF MarkStaticClusters, LoadedClusters
    <2>5. cl # None => loaded.source = cl.source
      <3> SUFFICES ASSUME cl # None PROVE loaded.source = cl.source
        OBVIOUS
      <3>1. ClusterEntity(cl) # None /\ ClusterEntity(cl).source = cl.source
        BY <2>3, EntityNull DEF ClusterEntity
      <3> QED
        BY <3>1 DEF LoadCluster
    <2> HIDE DEF loaded
    <2>6. CASE clusters'[c] # None
      BY <2>4, <2>6 DEF loaded
    <2>7. CASE clusters'[c] = None /\ cl = None
      BY <2>7
    <2>8. CASE clusters'[c] = None /\ cl # None
      <3>1. ClusterEntity(cl) \in ClusterRow /\ DestEntities(other) \in Dests
        <4>1. other \in Cluster \cup {None}
          BY <2>2 DEF TypeOK, Since
        <4> QED
          BY <2>3, <2>8, <4>1, EntityTypes, EntityNull
      <3>2. loaded = [uid |-> ClusterEntity(cl).uid, source |-> ClusterEntity(cl).source,
                      dests |-> LoadDests(DestEntities(other))]
        BY <2>3, <2>8, EntityNull DEF loaded, LoadCluster
      <3>3. loaded \in Cluster
        BY <3>1, <3>2, EntityTypes DEF Cluster, ClusterRow
      <3>4. loaded # None
        BY <3>3, ConstantsAssumption
      <3> QED
        BY <2>1, <2>4, <2>5, <2>8, <3>4
    <2> QED
      BY <2>6, <2>7, <2>8
  <1> QED
    BY <1>2, <1>3

\* Recovery: wherever a process dies, in the middle of a save, after a throwing one or at
\* rest, the next start has every route and cluster that appsettings.json does not name as
\* some save was given it since the last complete one, or as that one left it; a route comes
\* back enabled, a cluster without its health addresses, perhaps with the destinations of
\* another such save.  For any number of edits, faults and restarts before it.
THEOREM Recovered == Spec => RestartRecovers
  <1>1. TypeOK /\ GivenInv /\ [Next]_vars => [Recovers]_vars
    BY RestartStep
  <1>2. RestartRecovers <=> [][Recovers]_vars
    BY PTL DEF RestartRecovers, Recovers
  <1>3. Spec => []DurInv
    BY InitDur, NextDur, PTL DEF Spec
  <1> QED
    BY <1>1, <1>2, <1>3, InitGiven, NextGiven, TypeCorrect, PTL DEF Spec

\* While the save of a start that could read the tables runs, every stored dynamic route is in
\* the working set.
StartInv ==
    (op.kind = "MarkStaticConfig" /\ op.loaded) =>
        \A r \in RouteIds : (dbRoutes[r] # None /\ dbRoutes[r].source # "config") => routes[r] # None

\* What no step of that save may do.
KeepsDynamicRows ==
    (op.kind = "MarkStaticConfig" /\ op.loaded) =>
        \A r \in RouteIds : (dbRoutes[r] # None /\ dbRoutes[r].source # "config") => dbRoutes'[r] # None

\* A start that reads the tables takes every stored dynamic route into the working set.
LEMMA StartLoads ==
    ASSUME TypeOK, NEW doc \in AppSettings, NEW ok \in BOOLEAN, Start(doc, ok), UNCHANGED dbRoutes
    PROVE  StartInv'
  <1> SUFFICES ASSUME ok = TRUE, NEW r \in RouteIds, dbRoutes[r] # None, dbRoutes[r].source # "config"
               PROVE  routes'[r] # None
    BY DEF Start, StartInv, OpAt
  <1>1. PICK ru : routes' = MarkStaticRoutes(LoadedRoutes(TRUE), LoadedClusters(TRUE), doc, ru)
    BY DEF Start
  <1> DEFINE rt == LoadedRoutes(TRUE)[r]
  <1>2. rt = LoadRoute(dbRoutes[r]) /\ dbRoutes[r] \in RouteRow
    BY DEF LoadedRoutes, TypeOK
  <1>a. rt = [uid |-> dbRoutes[r].uid, cluster |-> dbRoutes[r].cluster,
              clusterUid |-> dbRoutes[r].clusterUid, source |-> dbRoutes[r].source, enabled |-> TRUE]
    BY <1>2 DEF LoadRoute
  <1> HIDE DEF rt
  <1>3. rt \in Route /\ rt.source # "config"
    BY <1>2, <1>a DEF Route, RouteRow
  <1>4. rt # None
    BY <1>3, ConstantsAssumption
  <1>5. doc.routes[r] # None => routes'[r] = [rt EXCEPT !.cluster = doc.routes[r],
                                     !.clusterUid = ResolveClusterUid(LoadedClusters(TRUE), doc.routes[r])]
    BY <1>1, <1>4, Zenon DEF MarkStaticRoutes, rt
  <1>6. doc.routes[r] = None => routes'[r] = rt
    BY <1>1, <1>3, <1>4 DEF MarkStaticRoutes, rt
  <1>7. CASE doc.routes[r] # None
    <2>1. doc.routes[r] \in ClusterIds
      BY <1>7, ConstantsAssumption DEF Document
    <2>2. ResolveClusterUid(LoadedClusters(TRUE), doc.routes[r]) \in Uids \cup {None}
      BY <2>1, LoadedTypes, ResolveType
    <2>3. routes'[r] \in Route
      BY <1>3, <1>5, <1>7, <2>1, <2>2 DEF Route
    <2> QED
      BY <2>3, ConstantsAssumption
  <1> QED
    BY <1>4, <1>6, <1>7

\* The steps of the save leave the dynamic rows and their records in place.
LEMMA NextStart == DurInv /\ StartInv /\ [Next]_vars => StartInv' /\ KeepsDynamicRows
  <1> SUFFICES ASSUME DurInv, TypeOK, StartInv, [Next]_vars PROVE StartInv' /\ KeepsDynamicRows
    BY DEF DurInv
  <1>t. /\ \A r \in RouteIds : routes[r] # None => RouteEntity(routes[r]) # None
                                                 /\ RouteEntity(routes[r]).source = routes[r].source
        /\ dbRoutes \in [RouteIds -> RouteRow \cup {None}]
    <2>1. \A r \in RouteIds : routes[r] # None => RouteEntity(routes[r]) # None
      BY EntityNull DEF TypeOK
    <2> QED
      BY <2>1 DEF TypeOK, RouteEntity
  <1>k. ASSUME UNCHANGED dbRoutes PROVE KeepsDynamicRows
    BY <1>k DEF KeepsDynamicRows
  <1>n. ASSUME op'.kind # "MarkStaticConfig" PROVE StartInv'
    BY <1>n DEF StartInv
  <1>s. ASSUME UNCHANGED <<routes, dbRoutes>>, op'.kind = op.kind, op'.loaded = op.loaded
        PROVE  StartInv'
    BY <1>s DEF StartInv
  <1>0. op \in Op
    BY DEF TypeOK
  <1>1. CASE RouteEdit \/ ClusterEdit \/ BatchEdit
    <2>1. ASSUME NEW kind, NEW r, NEW c, kind # "MarkStaticConfig", Edit(kind, r, c)
          PROVE  StartInv' /\ KeepsDynamicRows
      BY <2>1, <1>k, <1>n DEF Edit, OpAt, database
    <2> QED
      BY <1>1, <2>1, EditsEnter
  <1>2. CASE RefreshConfig \/ SaveDynamicConfig
    BY <1>2, <1>k, <1>n DEF RefreshConfig, SaveDynamicConfig, OpAt, database
  <1>3. CASE Lifecycle
    <2>1. UNCHANGED dbRoutes /\ \E doc \in AppSettings, ok \in BOOLEAN : Start(doc, ok)
      BY <1>3 DEF Lifecycle, FirstStart, Restart, RestartLoadFails, database
    <2> QED
      BY <2>1, <1>k, StartLoads
  <1>f. ASSUME NEW outcome, Finish(outcome), UNCHANGED <<routes, dbRoutes>> PROVE StartInv'
    <2>1. CASE op.kind = "MarkStaticConfig"
      BY <1>0, <1>f, <1>s, <2>1 DEF Finish, Op
    <2>2. CASE op.kind # "MarkStaticConfig"
      BY <1>f, <1>n, <2>2 DEF Finish, Idle, OpAt
    <2> QED
      BY <2>1, <2>2
  <1>4. CASE Publish
    BY <1>0, <1>4, <1>k, <1>s, <1>n DEF Publish, Idle, OpAt, Op, memory, database
  <1>5. CASE PublishFails
    BY <1>5, <1>k, <1>n DEF PublishFails, Idle, OpAt, database
  <1>6. CASE SaveRoute
    <2>1. KeepsDynamicRows
      BY <1>6, <1>t DEF SaveRoute, StartInv, KeepsDynamicRows
    <2>2. StartInv'
      <3>1. op'.kind = "MarkStaticConfig" /\ op'.loaded => op.kind = "MarkStaticConfig" /\ op.loaded
        BY <1>0, <1>6 DEF SaveRoute, FinishIncremental, Finish, Idle, OpAt, Op
      <3>2. ASSUME NEW r \in RouteIds, dbRoutes'[r] # None
            PROVE  dbRoutes'[r] = dbRoutes[r] \/ routes[r] # None
        BY <1>6, <1>t, <3>2 DEF SaveRoute, RouteEntity
      <3> QED
        BY <1>6, <3>1, <3>2 DEF SaveRoute, StartInv, memory
    <2> QED
      BY <2>1, <2>2
  <1>7. ASSUME NEW r \in RouteIds, DeleteStaleRoute(r)
        PROVE  StartInv' /\ KeepsDynamicRows
    <2>1. /\ dbRoutes' = [dbRoutes EXCEPT ![r] = None] /\ routes' = routes
          /\ op'.kind = op.kind /\ op'.loaded = op.loaded
      BY <1>0, <1>7 DEF DeleteStaleRoute, Op, memory
    <2>2. routes[r] = None
      BY <1>7 DEF DeleteStaleRoute, DurInv, Listed, StaleRoutes
    <2> QED
      BY <2>1, <2>2, <1>t DEF StartInv, KeepsDynamicRows
  <1>8. CASE SaveRoutes
    <2>1. KeepsDynamicRows
      BY <1>8, <1>t DEF SaveRoutes, StartInv, KeepsDynamicRows
    <2>2. StartInv'
      <3>1. op'.kind = op.kind /\ op'.loaded = op.loaded /\ routes' = routes
        BY <1>0, <1>8 DEF SaveRoutes, Op, memory
      <3> QED
        BY <1>8, <3>1, WrittenRows DEF StartInv, RouteEntity
    <2> QED
      BY <2>1, <2>2
  <1>9. CASE SaveDestinations
    BY <1>9, <1>f, <1>k DEF SaveDestinations, FinishIncremental, memory
  <1>10. CASE SaveCluster \/ DeleteStaleCluster \/ \E c \in ClusterIds : DeleteStaleDestinations(c)
    BY <1>0, <1>10, <1>k, <1>s DEF SaveCluster, DeleteStaleCluster, DeleteStaleDestinations, Op, memory
  <1>11. CASE SaveClusters
    BY <1>0, <1>11, <1>f, <1>k, <1>s DEF SaveClusters, FinishFull, Op, memory
  <1>12. ASSUME NEW c \in ClusterIds, SaveDestinationsOf(c)
         PROVE  StartInv' /\ KeepsDynamicRows
    BY <1>0, <1>12, <1>f, <1>k, <1>s DEF SaveDestinationsOf, FinishFull, Op, memory
  <1>13. CASE CallThrows \/ UniqueIndexThrows
    BY <1>13, <1>f, <1>k DEF CallThrows, UniqueIndexThrows, SaveFails, memory, database
  <1>14. CASE UNCHANGED vars
    BY <1>14, <1>k, <1>s DEF vars
  <1> QED
    BY <1>1, <1>2, <1>3, <1>4, <1>5, <1>6, <1>7, <1>8, <1>9, <1>10, <1>11, <1>12, <1>13, <1>14
    DEF Next, OpStep

\* The save of a start that could read the tables deletes no row that came from the API or the
\* dashboard, whatever a crash left in the tables and whatever appsettings.json says.
THEOREM DynamicRowsKept == Spec => StartKeepsDynamicRows
  <1>1. Init => StartInv
    BY DEF Init, Idle, OpAt, StartInv
  <1>2. DurInv /\ StartInv /\ [Next]_vars => [KeepsDynamicRows]_vars
    BY NextStart
  <1>3. StartKeepsDynamicRows <=> [][KeepsDynamicRows]_vars
    BY PTL DEF StartKeepsDynamicRows, KeepsDynamicRows
  <1> QED
    BY <1>1, <1>2, <1>3, NextStart, InitDur, NextDur, PTL DEF Spec
-----------------------------------------------------------------------------
(* References. *)

\* What no step but the three exceptions may do.
KeepsReferences ==
    (\E r \in RouteIds : Dangles(r)) =>
        \/ \E r \in RouteIds, ip \in DestKeys \ {D1} : RemoveRouteForClient(r, ip)
        \/ \E doc \in Documents : ReplaceAllConfig(doc)
        \/ op'.kind = "MarkStaticConfig" \/ op.kind = "MarkStaticConfig"

\* A non-empty set of naturals has a least member.
LEMMA LeastNatural ==
    ASSUME NEW T, T \subseteq Nat, T # {}
    PROVE  \E m \in T : \A n \in T : ~(n < m)
  <1>1. \E m \in T : \A n \in T : <<n, m>> \notin OpToRel(<, Nat)
    BY NatLessThanWellFounded, WFMin
  <1> QED
    BY <1>1 DEF OpToRel

\* A batch deletes every route it names: the first position that names a live route finds it.
LEMMA NamedIsFound ==
    ASSUME NEW ids \in Seq(RouteIds), NEW r \in LiveRoutes, NEW i \in DOMAIN ids, ids[i] = r
    PROVE  \E j \in Found(ids) : ids[j] = r
  <1> DEFINE T == {j \in DOMAIN ids : ids[j] = r}
  <1>1. T \subseteq Nat /\ T # {} /\ DOMAIN ids = 1 .. Len(ids) /\ Len(ids) \in Nat
    OBVIOUS
  <1>2. PICK m \in T : \A n \in T : ~(n < m)
    BY <1>1, LeastNatural
  <1>3. \A j \in 1 .. m - 1 : ids[j] # r
    BY <1>1, <1>2
  <1> QED
    BY <1>2, <1>3 DEF Found, LiveRoutes

\* No batch deletion takes the cluster of a route it leaves: that route is not among the batch
\* and so counts for every set of survivors.
LEMMA BatchKeepsReferences ==
    ASSUME TypeOK, NEW ids \in Batches, NEW b, BatchDeleteRoutes(ids, b), NEW r \in RouteIds, Dangles(r)
    PROVE  FALSE
  <1> DEFINE deleted == {ids[i] : i \in Found(ids)}
             c == routes[r].cluster
  <1>0. ids \in Seq(RouteIds)
    BY ConstantsAssumption
  <1>1. r \notin deleted /\ r \in LiveRoutes
    BY DEF BatchDeleteRoutes, Dangles, LiveRoutes
  <1>2. c \in Referenced(deleted) \ Survivors(ids)
    BY DEF BatchDeleteRoutes, Dangles, TypeOK, Route
  <1>3. PICK i \in Found(ids) : TRUE
    BY <1>2 DEF Referenced
  <1>4. r \notin {ids[j] : j \in 1 .. i}
    <2> SUFFICES ASSUME NEW j \in 1 .. i, ids[j] = r PROVE FALSE
      OBVIOUS
    <2>1. j \in DOMAIN ids
      BY <1>0, <1>3 DEF Found
    <2> QED
      BY <1>0, <1>1, <2>1, NamedIsFound
  <1>5. c \in Referenced(LiveRoutes \ {ids[j] : j \in 1 .. i})
    BY <1>1, <1>4 DEF Referenced
  <1> QED
    BY <1>2, <1>3, <1>5 DEF Survivors

\* The edits keep the references of the routes they leave.
LEMMA NextKeepsReferences == TypeOK /\ [Next]_vars => KeepsReferences
  <1> SUFFICES ASSUME TypeOK, [Next]_vars, NEW r \in RouteIds, Dangles(r),
                      ~(\E x \in RouteIds, ip \in DestKeys \ {D1} : RemoveRouteForClient(x, ip)),
                      ~(\E doc \in Documents : ReplaceAllConfig(doc)),
                      op'.kind # "MarkStaticConfig", op.kind # "MarkStaticConfig"
               PROVE  FALSE
    BY DEF KeepsReferences
  <1> DEFINE c == routes[r].cluster
  <1>d. /\ routes[r] # None /\ clusters[c] # None /\ routes'[r] # None
        /\ routes'[r].cluster = c /\ clusters'[c] = None
        /\ routes[r] \in Route /\ c \in ClusterIds /\ clusters[c] \in Cluster
    BY DEF Dangles, TypeOK, Route
  <1>t. TypeOK'
    BY NextType
  <1>c. \A cl \in Cluster : cl # None
    BY ConstantsAssumption
  <1>f. routes \in [RouteIds -> Route \cup {None}] /\ clusters \in [ClusterIds -> Cluster \cup {None}]
    BY DEF TypeOK
  <1>u. clusters' # clusters
    BY <1>d
  <1> HIDE DEF c
  <1>1. ASSUME NEW x \in RouteIds, NEW k \in ClusterIds, NEW a \in Addresses, NEW iso \in BOOLEAN,
               NEW ip \in (DestKeys \ {D1}) \cup {None}, AddRoute(x, k, a, iso, ip)
        PROVE  FALSE
    <2>1. k = c
      BY <1>1, <1>d, <1>f DEF AddRoute
    <2>2. clusters' = [clusters EXCEPT ![c].dests[D1] = [address |-> a, health |-> FALSE]]
      BY <1>1, <1>d, <1>u, <2>1 DEF AddRoute
    <2>3. clusters'[c] = [clusters[c] EXCEPT !.dests[D1] = [address |-> a, health |-> FALSE]]
      BY <1>d, <1>f, <2>2
    <2>4. [clusters[c].dests EXCEPT ![D1] = [address |-> a, health |-> FALSE]] \in Dests
      BY <1>d, ConstantsAssumption DEF Cluster, Dests, Dest
    <2>5. clusters'[c] \in Cluster
      BY <1>d, <2>3, <2>4 DEF Cluster
    <2> QED
      BY <1>c, <1>d, <2>5
  <1>2. ASSUME NEW x \in RouteIds, NEW b \in BOOLEAN, RemoveRoute(x, b)
        PROVE  FALSE
    <2>1. r # x
      BY <1>2, <1>d, <1>f DEF RemoveRoute
    <2>2. routes[x].cluster = c /\ c \notin Referenced(LiveRoutes \ {x})
      BY <1>2, <1>d, <1>f DEF RemoveRoute
    <2> QED
      BY <1>d, <2>1, <2>2 DEF Referenced, LiveRoutes, c
  <1>3. CASE RouteEdit
    BY <1>1, <1>2, <1>3, <1>u DEF RouteEdit, AddRouteConfig, SetRouteEnabled, RenameRoute
  <1>4. ASSUME NEW k \in ClusterIds, NEW ds \in Dests, AddClusterConfig(k, ds)
        PROVE  FALSE
    <2>1. UpsertedCluster(k, ds) \in Cluster
      BY <1>4, UpsertedClusterType DEF AddClusterConfig
    <2> QED
      BY <1>4, <1>c, <1>d, <1>f, <2>1 DEF AddClusterConfig
  <1>5. ASSUME NEW k \in ClusterIds, NEW ds, CreateCluster(k, ds)
        PROVE  FALSE
    BY <1>5, <1>d, <1>f DEF CreateCluster
  <1>6. ASSUME NEW k \in ClusterIds, NEW ds \in DestInputs \cup {None}, UpdateCluster(k, ds)
        PROVE  FALSE
    <2>1. clusters[k] \in Cluster
      BY <1>6, <1>f DEF UpdateCluster
    <2>2. (IF ds = None THEN clusters[k].dests ELSE LoadDests(ds)) \in Dests
      BY <2>1, ConstantsAssumption, EntityTypes DEF Cluster
    <2>3. clusters'[k] \in Cluster
      BY <1>6, <1>f, <2>1, <2>2 DEF UpdateCluster, Cluster
    <2> QED
      BY <1>6, <1>c, <1>d, <1>f, <2>3 DEF UpdateCluster
  <1>7. ASSUME NEW k \in ClusterIds, RemoveCluster(k)
        PROVE  FALSE
    <2>1. k = c /\ c \notin Referenced(LiveRoutes)
      BY <1>7, <1>d, <1>f DEF RemoveCluster
    <2> QED
      BY <1>d, <2>1 DEF Referenced, LiveRoutes, c
  <1>8. ASSUME NEW old \in ClusterIds, NEW new \in ClusterIds, NEW ds, RenameCluster(old, new, ds)
        PROVE  FALSE
    <2>1. c = old /\ old # new
      BY <1>8, <1>d, <1>f DEF RenameCluster
    <2>2. routes'[r].cluster = new
      BY <1>8, <1>d, <2>1 DEF RenameCluster, Route, c
    <2> QED
      BY <1>d, <2>1, <2>2
  <1>9. CASE ClusterEdit
    <2>1. \A ds \in DestInputs : ds \in Dests /\ LoadDests(ds) \in Dests
      BY ConstantsAssumption, EntityTypes
    <2> QED
      BY <1>4, <1>5, <1>6, <1>7, <1>8, <1>9, <2>1 DEF ClusterEdit, AddCluster
  <1>10. ASSUME NEW doc \in Documents, ImportBatch(doc)
         PROVE  FALSE
    <2>1. clusters'[c] \in {clusters[c], [clusters[c] EXCEPT !.dests = doc.clusters[c]]}
      BY <1>10, <1>d DEF ImportBatch, ImportedClusters
    <2>2. clusters'[c] = [clusters[c] EXCEPT !.dests = doc.clusters[c]] /\ doc.clusters[c] # None
      BY <1>10, <1>d, <2>1 DEF ImportBatch, ImportedClusters
    <2>3. doc.clusters[c] \in Dests
      BY <1>d, <2>2, ConstantsAssumption DEF Document
    <2>4. clusters'[c] \in Cluster
      BY <1>d, <2>2, <2>3 DEF Cluster
    <2> QED
      BY <1>c, <1>d, <2>4
  <1>11. ASSUME NEW ids, BatchDeleteClusters(ids)
         PROVE  FALSE
    <2>1. c \notin Referenced(LiveRoutes)
      BY <1>11, <1>d DEF BatchDeleteClusters
    <2> QED
      BY <1>d, <2>1 DEF Referenced, LiveRoutes, c
  <1>12. CASE BatchEdit
    BY <1>10, <1>11, <1>12, <1>u, BatchKeepsReferences DEF BatchEdit, BatchSetRoutesEnabled
  <1>13. CASE RefreshConfig \/ SaveDynamicConfig \/ UNCHANGED vars
    BY <1>13, <1>u DEF RefreshConfig, SaveDynamicConfig, memory, vars
  <1>14. CASE OpStep
    BY <1>14, <1>u
    DEF OpStep, Publish, PublishFails, SaveRoute, SaveCluster, SaveDestinations, DeleteStaleRoute,
        SaveRoutes, DeleteStaleDestinations, DeleteStaleCluster, SaveClusters, SaveDestinationsOf,
        CallThrows, UniqueIndexThrows, SaveFails, memory
  <1>15. CASE Lifecycle
    BY <1>15 DEF Lifecycle, FirstStart, Restart, RestartLoadFails, Start, OpAt
  <1> QED
    BY <1>3, <1>9, <1>12, <1>13, <1>14, <1>15 DEF Next

\* Cluster removal, rename, orphan clean-up and every batch, of any length, leave a route that
\* keeps naming its cluster with that cluster; only the removal for one client ip, a rollback to
\* a document and a process start may take it away.
THEOREM ReferencesKept == Spec => EditsKeepReferences
  <1>1. TypeOK /\ [Next]_vars => [KeepsReferences]_vars
    BY NextKeepsReferences
  <1>2. EditsKeepReferences <=> [][KeepsReferences]_vars
    BY PTL DEF EditsKeepReferences, KeepsReferences
  <1> QED
    BY <1>1, <1>2, TypeCorrect, PTL DEF Spec
=============================================================================
