---------------------- MODULE SnapshotPublicationProofs ----------------------
(***************************************************************************)
(* Theorems about SnapshotPublication, for every value of its constants.   *)
(***************************************************************************)
EXTENDS SnapshotPublication, TLAPS

MuPcs == {"idle", "version", "routes", "prepare", "apply", "commit", "publish",
          "rollback", "refresh", "refreshing"}
PubRecord == [pc : {"idle", "version", "compile", "publish", "apply"},
              by : {"edit", "refresh", "mutation"}, version : Nat, rows : Rows]
MuRecord == [pc : MuPcs, want : Rows, ids : SUBSET Bindings, todo : SUBSET Bindings,
             lost : SUBSET Bindings, prev : Rows, rows : Rows, version : Nat, routes : Routing]
DiscRecord == [pc : {"idle", "version", "compile", "publish", "update"},
               version : Nat, rows : Rows, routes : Routing]
Counts == \A k \in Kinds : count[k] \in 0 .. Limit[k]

\* What Counts needs to be kept by an event.
Counted == /\ Counts
           /\ count \in [Kinds -> Nat]
-----------------------------------------------------------------------------
\* The records the threads begin with are well typed.
LEMMA IdleTypes ==
    /\ NoRows \in Rows
    /\ \A n \in Nat : StaticRoutes(n) \in Routing
    /\ IdlePub \in PubRecord /\ IdleMu \in MuRecord /\ IdleDisc \in DiscRecord
  BY DEF NoRows, Rows, StaticRoutes, Routing, IdlePub, PubRecord, IdleMu, MuRecord, MuPcs, IdleDisc, DiscRecord

\* Disabled rows are dropped, the others kept.
LEMMA EnabledType == \A rows \in Rows : Enabled(rows) \in Rows
  BY DEF Rows, Enabled

\* An event raises the counter of its kind below its limit.
LEMMA HappensCounts ==
    ASSUME NEW kind \in Kinds, Counted, Happens(kind)
    PROVE  /\ Counted' /\ count'[kind] = count[kind] + 1
           /\ \A k \in Kinds \ {kind} : count'[k] = count[k]
  <1>1. count' = [count EXCEPT ![kind] = @ + 1] /\ count[kind] < Limit[kind]
    BY DEF Happens
  <1>2. count \in [Kinds -> Nat] /\ Limit \in [Kinds -> Nat] /\ \A k \in Kinds : count[k] \in 0 .. Limit[k]
    BY PublicationAssumption DEF Counted, Counts
  <1>3. count'[kind] = count[kind] + 1 /\ \A k \in Kinds \ {kind} : count'[k] = count[k]
    BY <1>1, <1>2
  <1>4. count[kind] \in Nat /\ Limit[kind] \in Nat /\ count[kind] + 1 \in 0 .. Limit[kind]
    BY <1>1, <1>2
  <1>5. count' \in [Kinds -> Nat]
    BY <1>1, <1>2, <1>4
  <1>6. \A k \in Kinds : count'[k] \in 0 .. Limit[k]
    BY <1>2, <1>3, <1>4
  <1> QED
    BY <1>3, <1>5, <1>6 DEF Counted, Counts

\* The type invariant, with what the controller knows of the ids it works through.
TypeInv ==
    /\ ws \in 0 .. MaxEdits
    /\ db \in Rows
    /\ snap \in [version : Nat, routes : Routing, rows : Rows]
    /\ prov \in [version : Nat, routes : Routing]
    /\ pub \in PubRecord
    /\ mu \in MuRecord
    /\ mu.todo \subseteq mu.ids /\ (mu.pc \in {"apply", "rollback"} => mu.todo # {})
    /\ (mu.pc \in {"version", "routes", "prepare"} => mu.todo # {})
    /\ (mu.pc \in {"commit", "publish"} => mu.ids # {})
    /\ disc \in DiscRecord
    /\ pre \in [pc : {"idle", "write"}, id : Bindings \cup {None}, row : Configs \cup {None}]
    /\ (pre.pc = "write" => pre.id \in Bindings)
    /\ Counted

\* The threads of the publisher.
LEMMA PublisherType ==
    TypeInv /\ (Edit \/ RefreshConfig \/ PublishStep) => TypeInv'
  <1> SUFFICES ASSUME TypeInv, Edit \/ RefreshConfig \/ PublishStep PROVE TypeInv'
    OBVIOUS
  <1>m. MaxEdits \in Nat /\ ws \in Nat /\ StaticRoutes(ws) \in Routing
    BY PublicationAssumption, IdleTypes DEF TypeInv
  <1>i. IdleMu \in MuRecord /\ IdlePub \in PubRecord /\ IdleMu.pc = "idle" /\ IdleMu.todo = {} /\ IdleMu.ids = {}
    BY IdleTypes DEF IdleMu
  <1>p. pub \in PubRecord
    BY DEF TypeInv
  <1>s. ASSUME NEW by \in {"edit", "refresh", "mutation"}, StartPublish(by) PROVE pub' \in PubRecord
    BY <1>s, <1>i DEF StartPublish, PubRecord
  <1>e. ASSUME EndsMutation
        PROVE  /\ mu' \in MuRecord
               /\ mu'.todo \subseteq mu'.ids /\ (mu'.pc \in {"apply", "rollback"} => mu'.todo # {})
               /\ (mu'.pc \in {"version", "routes", "prepare"} => mu'.todo # {})
               /\ (mu'.pc \in {"commit", "publish"} => mu'.ids # {})
    BY <1>e, <1>i DEF EndsMutation, TypeInv
  <1>1. CASE Edit
    <2>1. ws' \in 0 .. MaxEdits
      BY <1>1, <1>m DEF Edit, TypeInv
    <2> QED
      BY <1>1, <1>s, <2>1 DEF Edit, TypeInv, Counted, Counts
  <1>2. CASE RefreshConfig
    BY <1>2, <1>s, HappensCounts DEF RefreshConfig, TypeInv, Kinds
  <1>3. CASE ChooseVersion
    <2>1. (IF snap.version + 1 > ws THEN snap.version + 1 ELSE ws) \in Nat
      BY <1>m DEF TypeInv
    <2>2. pub' \in PubRecord
      BY <1>3, <1>p, <2>1 DEF ChooseVersion, PubRecord
    <2> QED
      BY <1>3, <2>2 DEF ChooseVersion, TypeInv, Counted, Counts
  <1>4. CASE CompileStored
    <2>1. pub' \in PubRecord
      BY <1>4, <1>p, EnabledType DEF CompileStored, PubRecord, TypeInv
    <2> QED
      BY <1>4, <2>1 DEF CompileStored, TypeInv, Counted, Counts
  <1>5. CASE PublishSnapshot
    <2>1. pub' \in PubRecord
      BY <1>5, <1>p DEF PublishSnapshot, PubRecord
    <2>2. snap' \in [version : Nat, routes : Routing, rows : Rows]
      BY <1>5, <1>m, <1>p DEF PublishSnapshot, Publishes, Candidate, PubRecord
    <2> QED
      BY <1>5, <2>1, <2>2 DEF PublishSnapshot, TypeInv, Counted, Counts
  <1>6. CASE ApplyFromDynamic
    <2>1. prov' \in [version : Nat, routes : Routing] /\ pub' \in PubRecord
      BY <1>6, <1>m, <1>i DEF ApplyFromDynamic
    <2> QED
      BY <1>6, <1>e, <2>1 DEF ApplyFromDynamic, TypeInv, Counted, Counts
  <1>7. CASE PublishFails
    <2>1. Counted'
      BY <1>7, HappensCounts DEF PublishFails, TypeInv, Kinds, Counted, Counts
    <2> QED
      BY <1>7, <1>e, <1>i, <2>1 DEF PublishFails, TypeInv
  <1> QED
    BY <1>1, <1>2, <1>3, <1>4, <1>5, <1>6, <1>7 DEF PublishStep

\* The request that changes bindings.
LEMMA MutationType ==
    TypeInv /\ (MutationStep \/ \E ids \in SUBSET Bindings, c \in Configs \cup {None} : BeginMutation(ids, c))
        => TypeInv'
  <1> SUFFICES ASSUME TypeInv,
                      MutationStep \/ \E ids \in SUBSET Bindings, c \in Configs \cup {None} : BeginMutation(ids, c)
               PROVE  TypeInv'
    OBVIOUS
  <1>m. ws \in Nat /\ StaticRoutes(ws) \in Routing
    BY PublicationAssumption, IdleTypes DEF TypeInv
  <1>i. IdleMu \in MuRecord /\ IdlePub \in PubRecord /\ IdleMu.pc = "idle" /\ IdleMu.todo = {} /\ IdleMu.ids = {}
    BY IdleTypes DEF IdleMu
  <1>p. mu \in MuRecord
    BY DEF TypeInv
  <1>d. ASSUME UNCHANGED <<ws, db, snap, prov, pub, disc, pre>>, mu' = IdleMu, Counted'
        PROVE  TypeInv'
    BY <1>d, <1>i DEF TypeInv
  <1>c. ASSUME UNCHANGED count PROVE Counted'
    BY <1>c DEF TypeInv, Counted, Counts
  <1>f. ASSUME Happens("fault") PROVE Counted'
    BY <1>f, HappensCounts DEF TypeInv, Kinds
  <1>1. ASSUME NEW ids \in SUBSET Bindings, NEW c \in Configs \cup {None}, BeginMutation(ids, c)
        PROVE  TypeInv'
    <2>1. /\ [b \in Bindings |-> IF b \in ids THEN c ELSE None] \in Rows
          /\ [b \in Bindings |-> IF b \in ids THEN c ELSE db[b]] \in Rows
      BY DEF Rows, TypeInv
    <2>2. mu' \in MuRecord
      BY <1>1, <1>i, <2>1 DEF BeginMutation, MuRecord, MuPcs, TypeInv
    <2>3. mu'.todo = ids /\ mu'.ids = ids /\ mu'.pc = "version" /\ ids # {}
      BY <1>1, <1>i DEF BeginMutation, MuRecord
    <2>4. Counted'
      BY <1>1, HappensCounts DEF BeginMutation, TypeInv, Kinds
    <2> QED
      BY <1>1, <2>2, <2>3, <2>4 DEF BeginMutation, TypeInv
  <1>2. CASE ReadVersion
    <2>1. snap.version + 1 \in Nat
      BY DEF TypeInv
    <2>2. mu' \in MuRecord
      BY <1>2, <1>p, <2>1 DEF ReadVersion, MuRecord, MuPcs
    <2> QED
      BY <1>2, <1>c, <1>p, <2>2 DEF ReadVersion, TypeInv, MuRecord
  <1>3. CASE ReadRoutes
    <2>1. mu' \in MuRecord
      BY <1>3, <1>p, <1>m DEF ReadRoutes, MuRecord, MuPcs
    <2> QED
      BY <1>3, <1>c, <1>p, <2>1 DEF ReadRoutes, TypeInv, MuRecord
  <1>4. ASSUME NEW ok \in BOOLEAN, Prepare(ok) PROVE TypeInv'
    <2>1. CASE mu' = IdleMu
      BY <1>4, <1>c, <1>d, <2>1 DEF Prepare
    <2>2. CASE mu' = [mu EXCEPT !.pc = "apply"]
      <3>1. mu' \in MuRecord
        BY <1>p, <2>2 DEF MuRecord, MuPcs
      <3> QED
        BY <1>4, <1>c, <1>p, <2>2, <3>1 DEF Prepare, TypeInv, MuRecord
    <2> QED
      BY <1>4, <2>1, <2>2 DEF Prepare
  <1>5. ASSUME NEW b \in Bindings, ApplyRow(b) PROVE TypeInv'
    <2>1. db' \in Rows
      BY <1>5, <1>p DEF ApplyRow, Rows, TypeInv, MuRecord
    <2>2. mu' \in MuRecord
      BY <1>5, <1>p DEF ApplyRow, MuRecord, MuPcs
    <2>3. /\ mu'.todo = mu.todo \ {b} /\ mu'.ids = mu.ids /\ mu.todo # {}
          /\ mu'.pc = IF mu.todo = {b} THEN "commit" ELSE "apply"
      BY <1>5, <1>p DEF ApplyRow, MuRecord
    <2>4. mu'.todo \subseteq mu'.ids /\ (mu'.pc = "apply" => mu'.todo # {}) /\ mu'.ids # {}
      BY <1>5, <2>3 DEF ApplyRow, TypeInv
    <2> QED
      BY <1>5, <1>c, <2>1, <2>2, <2>3, <2>4 DEF ApplyRow, TypeInv
  <1>6. CASE ApplyFails
    BY <1>6, <1>d, <1>f DEF ApplyFails
  <1>7. CASE CommitRuntime
    <2>1. mu' \in MuRecord
      BY <1>7, <1>p DEF CommitRuntime, MuRecord, MuPcs
    <2> QED
      BY <1>7, <1>c, <1>p, <2>1 DEF CommitRuntime, TypeInv, MuRecord
  <1>r. ASSUME mu' = [mu EXCEPT !.pc = "rollback", !.todo = mu.ids], mu.pc \in {"commit", "publish"},
               UNCHANGED <<ws, db, snap, prov, pub, disc, pre>>, Counted'
        PROVE  TypeInv'
    <2>1. mu' \in MuRecord
      BY <1>r, <1>p DEF MuRecord, MuPcs
    <2> QED
      BY <1>r, <1>p, <2>1 DEF TypeInv, MuRecord
  <1>8. CASE CommitFails
    BY <1>8, <1>f, <1>r DEF CommitFails
  <1>9. CASE PublishMutation
    <2>1. CASE Publishes(MutationSnapshot) /\ mu' = [mu EXCEPT !.pc = "refresh"]
      <3>1. mu' \in MuRecord
        BY <1>p, <2>1 DEF MuRecord, MuPcs
      <3>2. snap' \in [version : Nat, routes : Routing, rows : Rows]
        BY <1>p, <2>1, EnabledType DEF Publishes, MutationSnapshot, MuRecord
      <3> QED
        BY <1>9, <1>c, <1>p, <2>1, <3>1, <3>2 DEF PublishMutation, TypeInv, MuRecord
    <2>2. CASE mu' = [mu EXCEPT !.pc = "rollback", !.todo = mu.ids] /\ UNCHANGED snap
      BY <1>9, <1>c, <1>r, <2>2 DEF PublishMutation
    <2> QED
      BY <1>9, <2>1, <2>2 DEF PublishMutation
  <1>10. ASSUME NEW b \in Bindings, RollbackRow(b) PROVE TypeInv'
    <2>1. CASE Happens("fault") /\ mu' = IdleMu /\ UNCHANGED db
      BY <1>10, <1>d, <1>f, <2>1 DEF RollbackRow
    <2>2. CASE /\ db' = [db EXCEPT ![b] = mu.prev[b]]
               /\ mu' = IF mu.todo = {b} THEN IdleMu ELSE [mu EXCEPT !.todo = @ \ {b}]
               /\ UNCHANGED count
      <3>1. db' \in Rows
        BY <1>p, <2>2 DEF Rows, TypeInv, MuRecord
      <3>2. CASE mu' = IdleMu
        BY <1>10, <1>c, <1>i, <2>2, <3>1, <3>2 DEF RollbackRow, TypeInv
      <3>3. CASE mu' = [mu EXCEPT !.todo = @ \ {b}] /\ mu.todo # {b}
        <4>1. mu' \in MuRecord
          BY <1>p, <3>3 DEF MuRecord
        <4>2. mu'.todo = mu.todo \ {b} /\ mu'.ids = mu.ids /\ mu'.pc = "rollback"
          BY <1>10, <1>p, <3>3 DEF RollbackRow, MuRecord
        <4>3. mu'.todo \subseteq mu'.ids /\ mu'.todo # {}
          BY <1>10, <3>3, <4>2 DEF RollbackRow, TypeInv
        <4> QED
          BY <1>10, <1>c, <2>2, <3>1, <4>1, <4>2, <4>3 DEF RollbackRow, TypeInv
      <3> QED
        BY <2>2, <3>2, <3>3
    <2> QED
      BY <1>10, <2>1, <2>2 DEF RollbackRow
  <1>11. CASE RefreshAfterMutation
    <2>1. mu' \in MuRecord
      BY <1>11, <1>p DEF RefreshAfterMutation, MuRecord, MuPcs
    <2>2. pub' \in PubRecord
      BY <1>11, <1>i DEF RefreshAfterMutation, StartPublish, PubRecord
    <2> QED
      BY <1>11, <1>c, <1>p, <2>1, <2>2 DEF RefreshAfterMutation, TypeInv, MuRecord
  <1> QED
    BY <1>1, <1>2, <1>3, <1>4, <1>5, <1>6, <1>7, <1>8, <1>9, <1>10, <1>11 DEF MutationStep

\* What a preset's write means for the request that changes bindings: it may lose rows.
LEMMA OverwriteType ==
    ASSUME NEW c \in Configs, ApplyPresetWrite(c), mu \in MuRecord
    PROVE  /\ mu' \in MuRecord /\ mu.lost \subseteq mu'.lost
           /\ \E lost \in SUBSET Bindings : mu' = [mu EXCEPT !.lost = lost]
           /\ \A f \in {"pc", "want", "ids", "todo", "prev", "rows", "version", "routes"} : mu'[f] = mu[f]
  <1>1. mu = [mu EXCEPT !.lost = mu.lost] /\ mu.lost \in SUBSET Bindings
    BY DEF MuRecord
  <1>2. mu.lost \cup ({pre.id} \cap (mu.ids \ mu.todo)) \in SUBSET Bindings
    BY DEF MuRecord
  <1>3. PICK lost \in SUBSET Bindings : mu' = [mu EXCEPT !.lost = lost] /\ mu.lost \subseteq lost
    BY <1>1, <1>2 DEF ApplyPresetWrite
  <1> QED
    BY <1>3 DEF MuRecord

\* The discovery loop and ApplyPreset.
LEMMA DiscoveryType ==
    TypeInv /\ (\/ \E e \in Endpoints : DiscoverEndpoints(e)
                \/ DiscoveryStep
                \/ \E b \in Bindings : ApplyPresetRead(b)
                \/ \E c \in Configs : ApplyPresetWrite(c)) => TypeInv'
  <1> SUFFICES ASSUME TypeInv,
                      \/ \E e \in Endpoints : DiscoverEndpoints(e)
                      \/ DiscoveryStep
                      \/ \E b \in Bindings : ApplyPresetRead(b)
                      \/ \E c \in Configs : ApplyPresetWrite(c)
               PROVE  TypeInv'
    OBVIOUS
  <1>i. IdleDisc \in DiscRecord
    BY IdleTypes
  <1>p. disc \in DiscRecord /\ snap.version \in Nat /\ prov.version \in Nat /\ prov.routes \in Routing
    BY DEF TypeInv
  <1>c. ASSUME UNCHANGED count PROVE Counted'
    BY <1>c DEF TypeInv, Counted, Counts
  <1>1. ASSUME NEW e \in Endpoints, DiscoverEndpoints(e) PROVE TypeInv'
    <2>1. [prov.routes EXCEPT !.eps = e] \in Routing
      BY <1>p DEF Routing
    <2>2. disc' \in DiscRecord
      BY <1>1, <1>i, <2>1 DEF DiscoverEndpoints, DiscRecord
    <2>3. Counted'
      BY <1>1, HappensCounts DEF DiscoverEndpoints, TypeInv, Kinds
    <2> QED
      BY <1>1, <2>2, <2>3 DEF DiscoverEndpoints, TypeInv
  <1>2. CASE DiscoveryVersion
    <2>1. disc' \in DiscRecord
      <3>1. disc' = [disc EXCEPT !.pc = "compile", !.version = snap.version + 1] /\ snap.version + 1 \in Nat
        BY <1>2, <1>p DEF DiscoveryVersion
      <3> QED
        BY <3>1, <1>p DEF DiscRecord
    <2> QED
      BY <1>2, <1>c, <2>1 DEF DiscoveryVersion, TypeInv
  <1>3. CASE DiscoveryCompile
    <2>1. disc' \in DiscRecord
      <3>1. Enabled(db) \in Rows
        BY EnabledType DEF TypeInv
      <3>2. CASE disc' = [disc EXCEPT !.pc = "publish", !.rows = Enabled(db)]
        BY <3>1, <3>2, <1>p DEF DiscRecord
      <3>3. CASE disc' = IdleDisc
        BY <3>3, <1>i
      <3> QED
        BY <1>3, <3>2, <3>3 DEF DiscoveryCompile
    <2>2. Counted'
      BY <1>3, <1>c, HappensCounts DEF DiscoveryCompile, TypeInv, Kinds
    <2> QED
      BY <1>3, <2>1, <2>2 DEF DiscoveryCompile, TypeInv
  <1>4. CASE DiscoveryPublish
    <2>1. disc' \in DiscRecord
      BY <1>4, <1>i, <1>p DEF DiscoveryPublish, DiscRecord
    <2>2. snap' \in [version : Nat, routes : Routing, rows : Rows]
      BY <1>4, <1>p DEF DiscoveryPublish, Publishes, DiscoverySnapshot, DiscRecord, TypeInv
    <2> QED
      BY <1>4, <1>c, <2>1, <2>2 DEF DiscoveryPublish, TypeInv
  <1>5. CASE DiscoveryUpdate
    <2>1. prov' \in [version : Nat, routes : Routing]
      BY <1>5, <1>p DEF DiscoveryUpdate, DiscRecord
    <2> QED
      BY <1>5, <1>c, <1>i, <2>1 DEF DiscoveryUpdate, TypeInv
  <1>6. ASSUME NEW b \in Bindings, ApplyPresetRead(b) PROVE TypeInv'
    <2>1. db[b] \in Configs \cup {None}
      BY DEF TypeInv, Rows
    <2>2. Counted'
      BY <1>6, HappensCounts DEF ApplyPresetRead, TypeInv, Kinds
    <2> QED
      BY <1>6, <2>1, <2>2 DEF ApplyPresetRead, TypeInv
  <1>7. ASSUME NEW c \in Configs, ApplyPresetWrite(c) PROVE TypeInv'
    <2>1. db' \in Rows
      BY <1>7 DEF ApplyPresetWrite, TypeInv, Rows
    <2>2. mu' \in MuRecord /\ mu'.pc = mu.pc /\ mu'.ids = mu.ids /\ mu'.todo = mu.todo
      BY <1>7, OverwriteType DEF TypeInv
    <2> QED
      BY <1>7, <1>c, <2>1, <2>2 DEF ApplyPresetWrite, IdlePre, TypeInv
  <1> QED
    BY <1>1, <1>2, <1>3, <1>4, <1>5, <1>6, <1>7 DEF DiscoveryStep

\* Every step keeps the types.
LEMMA NextType == TypeInv /\ [Next]_vars => TypeInv'
  <1>1. TypeInv /\ UNCHANGED vars => TypeInv'
    BY DEF vars, TypeInv, Counted, Counts
  <1> QED
    BY <1>1, PublisherType, MutationType, DiscoveryType DEF Next

\* The gateway starts with what it has loaded.
LEMMA InitType == Init => TypeInv
  <1> SUFFICES ASSUME Init PROVE TypeInv
    OBVIOUS
  <1>1. db \in Rows
    BY DEF Init, Rows
  <1>2. snap \in [version : Nat, routes : Routing, rows : Rows] /\ prov \in [version : Nat, routes : Routing]
    BY <1>1, IdleTypes, EnabledType DEF Init
  <1>3. /\ mu.pc = "idle" /\ mu.todo = {} /\ mu \in MuRecord /\ pub \in PubRecord /\ disc \in DiscRecord
        /\ pre = [pc |-> "idle", id |-> None, row |-> None]
    BY IdleTypes DEF Init, IdleMu, IdlePre
  <1>4. Counted
    BY PublicationAssumption DEF Init, Counted, Counts
  <1>5. ws \in 0 .. MaxEdits
    BY PublicationAssumption DEF Init
  <1> QED
    BY <1>1, <1>2, <1>3, <1>4, <1>5 DEF TypeInv

\* Type correctness: whatever the publishers, the binding changes, the discovery loop, the
\* presets and failing calls interleave to, the snapshot, the provider's configuration, the table
\* and each thread keep their declared shapes, and no thread works through ids it was not given.
THEOREM TypeCorrect == Spec => []TypeOK
  <1>1. TypeInv => TypeOK
    BY DEF TypeInv, TypeOK, PubRecord, MuRecord, MuPcs, DiscRecord, Counted, Counts
  <1> QED
    BY <1>1, InitType, NextType, PTL DEF Spec
-----------------------------------------------------------------------------
(* Why the snapshot is never behind the routes YARP serves.  A binding     *)
(* change reads the version before it reads the working set, outside the   *)
(* semaphore.  If nobody published since, its routes are at least those of *)
(* the snapshot; if somebody did, its version is no longer newer.          *)

HasRoutes == {"prepare", "apply", "commit", "publish"}

VersionRead == (mu.pc = "routes" \/ mu.pc \in HasRoutes) => mu.version <= snap.version + 1
FreshEnough == (mu.pc \in HasRoutes /\ mu.version > snap.version) => mu.routes.ws >= snap.routes.ws
NotAhead == snap.routes.ws <= ws /\ (mu.pc \in HasRoutes => mu.routes.ws <= ws)
ApplyCurrent == pub.pc = "apply" => snap.routes.ws = ws
NotBehind == snap.routes.ws >= prov.routes.ws

OrderInv ==
    /\ TypeInv
    /\ disc.pc # "idle" => count["discovery"] > 0
    /\ count["discovery"] = 0 => VersionRead /\ FreshEnough /\ NotAhead /\ ApplyCurrent /\ NotBehind

\* Every step keeps it.
LEMMA NextOrder == OrderInv /\ [Next]_vars => OrderInv'
  <1> SUFFICES ASSUME OrderInv, [Next]_vars PROVE OrderInv'
    OBVIOUS
  <1>t. TypeInv /\ TypeInv'
    BY NextType DEF OrderInv
  <1> DEFINE quiet == count["discovery"] = 0
             Order == VersionRead /\ FreshEnough /\ NotAhead /\ ApplyCurrent /\ NotBehind
  <1>0. /\ ws \in Nat /\ snap.version \in Nat /\ snap.routes.ws \in Nat /\ prov.routes.ws \in Nat
        /\ mu.version \in Nat /\ mu.routes.ws \in Nat /\ mu.pc \in MuPcs /\ pub.version \in Nat
        /\ mu \in MuRecord /\ pub \in PubRecord
    BY <1>t, PublicationAssumption DEF TypeInv, MuRecord, PubRecord, Routing
  <1>k. ASSUME UNCHANGED <<disc, count>>, quiet /\ Order => Order' PROVE OrderInv'
    BY <1>t, <1>k DEF OrderInv, VersionRead, FreshEnough, NotAhead, ApplyCurrent, NotBehind
  <1>h. ASSUME NEW kind \in Kinds \ {"discovery"}, Happens(kind), UNCHANGED disc, quiet /\ Order => Order'
        PROVE  OrderInv'
    <2>1. count'["discovery"] = count["discovery"]
      BY <1>h, <1>t, HappensCounts DEF Kinds, TypeInv
    <2> QED
      BY <1>t, <1>h, <2>1 DEF OrderInv, VersionRead, FreshEnough, NotAhead, ApplyCurrent, NotBehind
  <1>m. ASSUME UNCHANGED <<ws, snap, prov, pub>>, mu'.pc \notin HasRoutes, mu'.pc # "routes"
        PROVE  Order => Order'
    BY <1>m DEF VersionRead, FreshEnough, NotAhead, ApplyCurrent, NotBehind
  <1>s. ASSUME UNCHANGED <<ws, snap, prov, pub>>, mu'.version = mu.version, mu'.routes = mu.routes,
               mu.pc \in HasRoutes
        PROVE  Order => Order'
    BY <1>s DEF VersionRead, FreshEnough, NotAhead, ApplyCurrent, NotBehind
  <1>e. EndsMutation => mu' = mu \/ mu'.pc = "idle"
    BY DEF EndsMutation, IdleMu
  <1>1. CASE Edit
    <2>1. Order => Order'
      BY <1>0, <1>1 DEF Edit, StartPublish, IdlePub, VersionRead, FreshEnough, NotAhead, ApplyCurrent, NotBehind
    <2> QED
      BY <1>1, <1>k, <2>1 DEF Edit
  <1>2. CASE RefreshConfig
    <2>1. Order => Order'
      BY <1>0, <1>2 DEF RefreshConfig, StartPublish, IdlePub, VersionRead, FreshEnough, NotAhead, ApplyCurrent,
                        NotBehind
    <2> QED
      BY <1>2, <1>h, <2>1 DEF RefreshConfig, Kinds
  <1>3. CASE ChooseVersion \/ CompileStored
    <2>1. Order => Order'
      BY <1>0, <1>3 DEF ChooseVersion, CompileStored, PubRecord, VersionRead, FreshEnough, NotAhead,
                        ApplyCurrent, NotBehind
    <2> QED
      BY <1>3, <1>k, <2>1 DEF ChooseVersion, CompileStored
  <1>4. CASE PublishSnapshot
    <2>1. snap'.version > snap.version /\ snap'.version \in Nat /\ snap'.routes.ws = ws
      BY <1>0, <1>4 DEF PublishSnapshot, Publishes, Candidate, StaticRoutes
    <2>2. /\ UNCHANGED <<ws, prov, mu>>
      BY <1>4 DEF PublishSnapshot
    <2>3. Order => Order'
      <3> SUFFICES ASSUME Order PROVE Order'
        OBVIOUS
      <3>1. VersionRead' /\ FreshEnough'
        BY <1>0, <2>1, <2>2 DEF VersionRead, FreshEnough
      <3>2. NotAhead' /\ ApplyCurrent' /\ NotBehind'
        BY <1>0, <2>1, <2>2 DEF NotAhead, ApplyCurrent, NotBehind
      <3> QED
        BY <3>1, <3>2
    <2> QED
      BY <1>4, <1>k, <2>3 DEF PublishSnapshot
  <1>5. CASE ApplyFromDynamic
    <2>1. pub'.pc = "idle" /\ prov'.routes.ws = ws /\ pub.pc = "apply" /\ UNCHANGED <<ws, snap>>
      BY <1>5 DEF ApplyFromDynamic, IdlePub, StaticRoutes
    <2>2. mu' = mu \/ mu'.pc = "idle"
      BY <1>5, <1>e DEF ApplyFromDynamic
    <2>3. Order => Order'
      BY <1>0, <2>1, <2>2 DEF VersionRead, FreshEnough, NotAhead, ApplyCurrent, NotBehind, HasRoutes
    <2> QED
      BY <1>5, <1>k, <2>3 DEF ApplyFromDynamic
  <1>6. CASE PublishFails
    <2>1. pub'.pc = "idle" /\ UNCHANGED <<ws, snap, prov, disc>> /\ (mu' = mu \/ mu'.pc = "idle")
      BY <1>6, <1>e DEF PublishFails, IdlePub
    <2>2. Order => Order'
      BY <1>0, <2>1 DEF VersionRead, FreshEnough, NotAhead, ApplyCurrent, NotBehind, HasRoutes
    <2> QED
      BY <1>6, <1>h, <1>k, <2>1, <2>2 DEF PublishFails, Kinds
  <1>7. ASSUME NEW ids \in SUBSET Bindings, NEW c \in Configs \cup {None}, BeginMutation(ids, c)
        PROVE  OrderInv'
    <2>1. mu'.pc = "version"
      BY <1>7 DEF BeginMutation, IdleMu
    <2> QED
      BY <1>7, <1>h, <1>m, <2>1 DEF BeginMutation, Kinds, HasRoutes
  <1>8. CASE ReadVersion
    <2>1. mu'.pc = "routes" /\ mu'.version = snap.version + 1 /\ UNCHANGED <<ws, snap, prov, pub>>
      BY <1>0, <1>8 DEF ReadVersion, MuRecord
    <2>2. Order => Order'
      BY <1>0, <2>1 DEF VersionRead, FreshEnough, NotAhead, ApplyCurrent, NotBehind, HasRoutes
    <2> QED
      BY <1>8, <1>k, <2>2 DEF ReadVersion
  <1>9. CASE ReadRoutes
    <2>1. /\ mu.pc = "routes" /\ mu'.pc = "prepare" /\ mu'.version = mu.version /\ mu'.routes.ws = ws
          /\ UNCHANGED <<ws, snap, prov, pub>>
      BY <1>0, <1>9 DEF ReadRoutes, MuRecord, StaticRoutes
    <2>2. Order => Order'
      BY <1>0, <2>1 DEF VersionRead, FreshEnough, NotAhead, ApplyCurrent, NotBehind, HasRoutes
    <2> QED
      BY <1>9, <1>k, <2>2 DEF ReadRoutes
  <1>10. ASSUME NEW ok \in BOOLEAN, Prepare(ok) PROVE OrderInv'
    <2>1. CASE mu' = IdleMu
      BY <1>10, <1>k, <1>m, <2>1 DEF Prepare, IdleMu, HasRoutes
    <2>2. CASE mu' = [mu EXCEPT !.pc = "apply"]
      <3>1. mu'.version = mu.version /\ mu'.routes = mu.routes /\ mu.pc \in HasRoutes
        BY <1>0, <1>10, <2>2 DEF Prepare, MuRecord, HasRoutes
      <3> QED
        BY <1>10, <1>k, <1>s, <3>1 DEF Prepare
    <2> QED
      BY <1>10, <2>1, <2>2 DEF Prepare
  <1>11. ASSUME NEW b \in Bindings, ApplyRow(b) PROVE OrderInv'
    <2>1. mu'.version = mu.version /\ mu'.routes = mu.routes /\ mu.pc \in HasRoutes
      BY <1>0, <1>11 DEF ApplyRow, MuRecord, HasRoutes
    <2> QED
      BY <1>11, <1>k, <1>s, <2>1 DEF ApplyRow
  <1>12. CASE ApplyFails
    BY <1>12, <1>h, <1>m DEF ApplyFails, IdleMu, HasRoutes, Kinds
  <1>13. CASE CommitRuntime
    <2>1. mu'.version = mu.version /\ mu'.routes = mu.routes /\ mu.pc \in HasRoutes
      BY <1>0, <1>13 DEF CommitRuntime, MuRecord, HasRoutes
    <2> QED
      BY <1>13, <1>k, <1>s, <2>1 DEF CommitRuntime
  <1>14. CASE CommitFails
    <2>1. mu'.pc = "rollback"
      BY <1>0, <1>14 DEF CommitFails, MuRecord
    <2> QED
      BY <1>14, <1>h, <1>m, <2>1 DEF CommitFails, HasRoutes, Kinds
  <1>15. CASE PublishMutation
    <2>1. CASE Publishes(MutationSnapshot) /\ mu' = [mu EXCEPT !.pc = "refresh"]
      <3>1. /\ mu.pc = "publish" /\ mu.version > snap.version /\ snap'.version = mu.version
            /\ snap'.routes = mu.routes /\ UNCHANGED <<ws, prov, pub>> /\ mu'.pc = "refresh"
        BY <1>0, <1>15, <2>1 DEF PublishMutation, Publishes, MutationSnapshot, MuRecord
      <3>2. Order => Order'
        <4> SUFFICES ASSUME Order PROVE Order'
          OBVIOUS
        <4>1. snap'.routes.ws >= snap.routes.ws /\ snap'.routes.ws <= ws
          BY <1>0, <3>1 DEF FreshEnough, NotAhead, HasRoutes
        <4>2. VersionRead' /\ FreshEnough'
          BY <3>1 DEF VersionRead, FreshEnough, HasRoutes
        <4>3. NotAhead' /\ NotBehind'
          BY <1>0, <3>1, <4>1 DEF NotAhead, NotBehind, HasRoutes
        <4>4. ApplyCurrent'
          BY <1>0, <3>1, <4>1 DEF ApplyCurrent
        <4> QED
          BY <4>2, <4>3, <4>4
      <3> QED
        BY <1>15, <1>k, <3>2 DEF PublishMutation
    <2>2. CASE mu' = [mu EXCEPT !.pc = "rollback", !.todo = mu.ids] /\ UNCHANGED snap
      <3>1. mu'.pc = "rollback"
        BY <1>0, <2>2 DEF MuRecord
      <3> QED
        BY <1>15, <1>k, <1>m, <2>2, <3>1 DEF PublishMutation, HasRoutes
    <2> QED
      BY <1>15, <2>1, <2>2 DEF PublishMutation
  <1>16. ASSUME NEW b \in Bindings, RollbackRow(b) PROVE OrderInv'
    <2>1. mu'.pc \in {"idle", "rollback"} /\ UNCHANGED <<ws, snap, prov, pub, disc>>
      BY <1>0, <1>16 DEF RollbackRow, IdleMu, MuRecord
    <2>2. Order => Order'
      BY <1>m, <2>1 DEF HasRoutes
    <2> QED
      BY <1>16, <1>h, <1>k, <2>1, <2>2 DEF RollbackRow, Kinds
  <1>17. CASE RefreshAfterMutation
    <2>1. mu'.pc = "refreshing" /\ pub'.pc = "version" /\ UNCHANGED <<ws, snap, prov>>
      BY <1>0, <1>17 DEF RefreshAfterMutation, StartPublish, IdlePub, MuRecord
    <2>2. Order => Order'
      BY <2>1 DEF VersionRead, FreshEnough, NotAhead, ApplyCurrent, NotBehind, HasRoutes
    <2> QED
      BY <1>17, <1>k, <2>2 DEF RefreshAfterMutation
  <1>18. ASSUME NEW e \in Endpoints, DiscoverEndpoints(e) PROVE OrderInv'
    <2>1. count'["discovery"] = count["discovery"] + 1 /\ count["discovery"] \in Nat
      BY <1>18, <1>t, HappensCounts DEF DiscoverEndpoints, Kinds, TypeInv, Counted
    <2> QED
      BY <1>t, <2>1 DEF OrderInv
  <1>19. CASE DiscoveryStep
    <2>1. disc.pc # "idle" /\ count["discovery"] \in Nat
      BY <1>19, <1>t DEF DiscoveryStep, DiscoveryVersion, DiscoveryCompile, DiscoveryPublish, DiscoveryUpdate,
                  TypeInv, Counted, Kinds
    <2>2. count'["discovery"] > 0
      BY <1>19, <1>t, <2>1, HappensCounts
      DEF OrderInv, DiscoveryStep, DiscoveryVersion, DiscoveryCompile, DiscoveryPublish, DiscoveryUpdate,
          TypeInv, Kinds
    <2> QED
      BY <1>t, <2>2 DEF OrderInv
  <1>20. ASSUME NEW b \in Bindings, ApplyPresetRead(b) PROVE OrderInv'
    <2>1. UNCHANGED <<ws, snap, prov, pub, mu, disc>>
      BY <1>20 DEF ApplyPresetRead
    <2>2. Order => Order'
      BY <2>1 DEF VersionRead, FreshEnough, NotAhead, ApplyCurrent, NotBehind
    <2> QED
      BY <1>20, <1>h, <2>1, <2>2 DEF ApplyPresetRead, Kinds
  <1>21. ASSUME NEW c \in Configs, ApplyPresetWrite(c) PROVE OrderInv'
    <2>1. /\ UNCHANGED <<ws, snap, prov, pub, disc, count>>
          /\ mu'.pc = mu.pc /\ mu'.version = mu.version /\ mu'.routes = mu.routes
      BY <1>0, <1>21, OverwriteType DEF ApplyPresetWrite
    <2>2. Order => Order'
      BY <2>1 DEF VersionRead, FreshEnough, NotAhead, ApplyCurrent, NotBehind
    <2> QED
      BY <1>k, <2>1, <2>2
  <1>22. CASE UNCHANGED vars
    <2>1. Order => Order'
      BY <1>22 DEF vars, VersionRead, FreshEnough, NotAhead, ApplyCurrent, NotBehind
    <2> QED
      BY <1>22, <1>k, <2>1 DEF vars
  <1> QED
    BY <1>1, <1>2, <1>3, <1>4, <1>5, <1>6, <1>7, <1>8, <1>9, <1>10, <1>11, <1>12, <1>13, <1>14, <1>15, <1>16,
       <1>17, <1>18, <1>19, <1>20, <1>21, <1>22
    DEF Next, PublishStep, MutationStep

\* The loaded configuration is published before anything runs.
LEMMA InitOrder == Init => OrderInv
  BY InitType DEF Init, OrderInv, VersionRead, FreshEnough, NotAhead, ApplyCurrent, NotBehind, HasRoutes,
     IdleMu, IdlePub, IdleDisc, StaticRoutes, Kinds

\* Until a discovery cycle runs, the snapshot the plugins execute is never older than the routes
\* YARP serves, for any number of edits, refreshes, binding changes of any size, presets and
\* failing calls: the version check of GatewaySnapshotPublisher makes up for the semaphore that a
\* binding change does not take.
THEOREM NeverBehind == Spec => []SnapshotNotBehindRoutes
  <1>1. OrderInv => SnapshotNotBehindRoutes
    BY DEF OrderInv, NotBehind, SnapshotNotBehindRoutes
  <1> QED
    BY <1>1, InitOrder, NextOrder, PTL DEF Spec
-----------------------------------------------------------------------------
(* Why a binding change that reports success is in force.  The rows it has *)
(* written stay in the table unless a preset changes them; its refresh     *)
(* compiles the table after that, and what others publish between was      *)
(* compiled later still or has a version that is too old.                  *)

Applied == {"apply", "commit", "publish", "refresh", "refreshing"}
\* The rows the change has written, still as it wrote them.
Kept == (mu.ids \ mu.todo) \ mu.lost
Holds(rows) == \A b \in Kept : rows[b] = Enabled(mu.want)[b]

Stored == mu.pc \in Applied => \A b \in Kept : db[b] = mu.want[b]
AllApplied == mu.pc \in Applied \ {"apply"} => mu.todo = {}
NoneApplied == mu.pc \in {"version", "routes", "prepare"} => mu.todo = mu.ids
Refreshes == pub.by = "mutation" /\ pub.pc # "idle" => mu.pc = "refreshing"
RefreshCompiled == pub.by = "mutation" /\ pub.pc = "publish" => Holds(pub.rows)
RefreshPublished == pub.by = "mutation" /\ pub.pc = "apply" => Holds(snap.rows)
DiscoveryOnTime == disc.version <= snap.version + 1
DiscoveryAgrees ==
    disc.pc = "publish" /\ disc.version > snap.version /\ mu.pc \in {"refresh", "refreshing"}
        => Holds(disc.rows)

VisibleInv ==
    /\ TypeInv
    /\ Stored /\ AllApplied /\ NoneApplied
    /\ Refreshes /\ RefreshCompiled /\ RefreshPublished
    /\ DiscoveryOnTime /\ DiscoveryAgrees

\* What is read from the table while the change's rows are in it agrees with the change.
LEMMA StoredHolds == Stored /\ mu.pc \in Applied /\ TypeInv => Holds(Enabled(db))
  <1> SUFFICES ASSUME Stored, mu.pc \in Applied, TypeInv, NEW b \in Kept
               PROVE  Enabled(db)[b] = Enabled(mu.want)[b]
    BY DEF Holds
  <1>1. db[b] = mu.want[b]
    BY DEF Stored
  <1>2. b \in Bindings
    BY DEF Kept, TypeInv, MuRecord
  <1> QED
    BY <1>1, <1>2 DEF Enabled

\* The publisher's threads keep it.
LEMMA PublisherVisible ==
    VisibleInv /\ (Edit \/ RefreshConfig \/ PublishStep) => VisibleInv'
  <1> SUFFICES ASSUME VisibleInv, Edit \/ RefreshConfig \/ PublishStep PROVE VisibleInv'
    OBVIOUS
  <1>t. TypeInv /\ TypeInv'
    BY PublisherType DEF VisibleInv
  <1>0. mu \in MuRecord /\ pub \in PubRecord /\ disc \in DiscRecord /\ snap.version \in Nat /\ disc.version \in Nat
    BY <1>t DEF TypeInv, DiscRecord
  <1>1. ASSUME Edit \/ RefreshConfig \/ ChooseVersion \/ CompileStored PROVE VisibleInv'
    <2>1. UNCHANGED <<db, snap, disc, mu>>
      BY <1>1 DEF Edit, RefreshConfig, ChooseVersion, CompileStored
    <2>2. pub'.by = "mutation" => pub.by = "mutation" /\ pub.pc # "idle"
      BY <1>0, <1>1 DEF Edit, RefreshConfig, ChooseVersion, CompileStored, StartPublish, IdlePub, PubRecord
    <2>3. pub'.pc # "apply" /\ (pub'.pc = "publish" => pub'.rows = Enabled(db))
      BY <1>0, <1>1 DEF Edit, RefreshConfig, ChooseVersion, CompileStored, StartPublish, IdlePub, PubRecord
    <2>4. Refreshes' /\ RefreshPublished'
      BY <2>1, <2>2, <2>3 DEF VisibleInv, Refreshes, RefreshPublished
    <2>5. RefreshCompiled'
      <3> SUFFICES ASSUME pub'.by = "mutation", pub'.pc = "publish" PROVE Holds(pub.rows)'
        BY DEF RefreshCompiled
      <3>1. mu.pc \in Applied
        BY <2>2 DEF VisibleInv, Refreshes, Applied
      <3>2. Holds(Enabled(db))
        BY <1>t, <3>1, StoredHolds DEF VisibleInv
      <3> QED
        BY <2>1, <2>3, <3>2 DEF Holds, Kept
    <2>6. Stored' /\ AllApplied' /\ NoneApplied' /\ DiscoveryOnTime' /\ DiscoveryAgrees'
      BY <2>1 DEF VisibleInv, Stored, AllApplied, NoneApplied, DiscoveryOnTime, DiscoveryAgrees, Holds, Kept
    <2> QED
      BY <1>t, <2>4, <2>5, <2>6 DEF VisibleInv
  <1>2. CASE PublishSnapshot
    <2>1. /\ UNCHANGED <<db, disc, mu>> /\ pub.pc = "publish" /\ pub'.pc = "apply" /\ pub'.by = pub.by
          /\ snap'.version > snap.version /\ snap'.rows = pub.rows /\ snap'.version \in Nat
      BY <1>0, <1>2 DEF PublishSnapshot, Publishes, Candidate, PubRecord
    <2>2. Refreshes' /\ RefreshCompiled' /\ RefreshPublished'
      BY <2>1 DEF VisibleInv, Refreshes, RefreshCompiled, RefreshPublished, Holds, Kept
    <2>3. DiscoveryOnTime'
      BY <1>0, <2>1 DEF VisibleInv, DiscoveryOnTime
    <2>4. DiscoveryAgrees'
      BY <1>0, <2>1 DEF VisibleInv, DiscoveryAgrees, Holds, Kept
    <2>5. Stored' /\ AllApplied' /\ NoneApplied'
      BY <2>1 DEF VisibleInv, Stored, AllApplied, NoneApplied, Kept
    <2> QED
      BY <1>t, <2>2, <2>3, <2>4, <2>5 DEF VisibleInv
  <1>3. CASE ApplyFromDynamic \/ PublishFails
    <2>1. UNCHANGED <<db, snap, disc>> /\ pub'.pc = "idle" /\ (mu' = mu \/ mu'.pc = "idle")
      BY <1>3 DEF ApplyFromDynamic, PublishFails, EndsMutation, IdlePub, IdleMu
    <2>2. Refreshes' /\ RefreshCompiled' /\ RefreshPublished' /\ DiscoveryOnTime'
      BY <2>1 DEF VisibleInv, Refreshes, RefreshCompiled, RefreshPublished, DiscoveryOnTime
    <2>3. Stored' /\ AllApplied' /\ NoneApplied' /\ DiscoveryAgrees'
      BY <2>1 DEF VisibleInv, Stored, AllApplied, NoneApplied, DiscoveryAgrees, Applied, Holds, Kept
    <2> QED
      BY <1>t, <2>2, <2>3 DEF VisibleInv
  <1> QED
    BY <1>1, <1>2, <1>3 DEF PublishStep

\* So does the request that changes bindings.
LEMMA MutationVisible ==
    VisibleInv /\ (MutationStep \/ \E ids \in SUBSET Bindings, c \in Configs \cup {None} : BeginMutation(ids, c))
        => VisibleInv'
  <1> SUFFICES ASSUME VisibleInv,
                      MutationStep \/ \E ids \in SUBSET Bindings, c \in Configs \cup {None} : BeginMutation(ids, c)
               PROVE  VisibleInv'
    OBVIOUS
  <1>t. TypeInv /\ TypeInv'
    BY MutationType DEF VisibleInv
  <1>0. mu \in MuRecord /\ pub \in PubRecord /\ snap.version \in Nat /\ disc.version \in Nat
    BY <1>t DEF TypeInv, DiscRecord
  <1>q. ASSUME mu.pc # "refreshing", UNCHANGED pub PROVE Refreshes' /\ RefreshCompiled' /\ RefreshPublished'
    BY <1>q DEF VisibleInv, Refreshes, RefreshCompiled, RefreshPublished
  \* Before it writes and once it rolls back, nothing is claimed of its rows.
  <1>n. ASSUME mu.pc # "refreshing", UNCHANGED <<snap, pub, disc>>, mu'.pc \notin Applied, NoneApplied'
        PROVE  VisibleInv'
    <2>1. Stored' /\ AllApplied' /\ DiscoveryOnTime' /\ DiscoveryAgrees'
      BY <1>n DEF VisibleInv, Stored, AllApplied, DiscoveryOnTime, DiscoveryAgrees, Applied
    <2> QED
      BY <1>n, <1>q, <1>t, <2>1 DEF VisibleInv
  <1>1. ASSUME NEW ids \in SUBSET Bindings, NEW c \in Configs \cup {None}, BeginMutation(ids, c)
        PROVE  VisibleInv'
    <2>1. mu'.pc = "version" /\ mu'.todo = ids /\ mu'.ids = ids
      BY <1>1 DEF BeginMutation, IdleMu
    <2> QED
      BY <1>1, <1>n, <2>1 DEF BeginMutation, NoneApplied, Applied
  <1>2. CASE ReadVersion \/ ReadRoutes
    <2>1. /\ mu.pc \in {"version", "routes"} /\ mu'.pc \in {"routes", "prepare"}
          /\ mu'.todo = mu.todo /\ mu'.ids = mu.ids /\ UNCHANGED <<snap, pub, disc>>
      BY <1>0, <1>2 DEF ReadVersion, ReadRoutes, MuRecord
    <2> QED
      BY <1>n, <2>1 DEF VisibleInv, NoneApplied, Applied
  <1>3. ASSUME NEW ok \in BOOLEAN, Prepare(ok) PROVE VisibleInv'
    <2>1. CASE mu' = IdleMu
      BY <1>3, <1>n, <2>1 DEF Prepare, IdleMu, NoneApplied, Applied
    <2>2. CASE mu' = [mu EXCEPT !.pc = "apply"]
      <3>1. /\ mu.pc = "prepare" /\ mu'.pc = "apply" /\ mu'.todo = mu.todo /\ mu'.ids = mu.ids
            /\ UNCHANGED <<snap, pub, disc>>
        BY <1>0, <1>3, <2>2 DEF Prepare, MuRecord
      <3>2. Kept' = {}
        BY <3>1 DEF VisibleInv, NoneApplied, Kept
      <3>3. Stored' /\ AllApplied' /\ NoneApplied' /\ DiscoveryOnTime' /\ DiscoveryAgrees'
        BY <3>1, <3>2 DEF VisibleInv, Stored, AllApplied, NoneApplied, DiscoveryOnTime, DiscoveryAgrees
      <3> QED
        BY <1>q, <1>t, <3>1, <3>3 DEF VisibleInv
    <2> QED
      BY <1>3, <2>1, <2>2 DEF Prepare
  <1>4. ASSUME NEW b \in Bindings, ApplyRow(b) PROVE VisibleInv'
    <2>1. /\ mu.pc = "apply" /\ mu'.pc = IF mu.todo = {b} THEN "commit" ELSE "apply"
          /\ mu'.want = mu.want /\ mu'.ids = mu.ids /\ mu'.todo = mu.todo \ {b} /\ mu'.lost = mu.lost
          /\ db' = [db EXCEPT ![b] = mu.want[b]] /\ UNCHANGED <<snap, pub, disc>>
      BY <1>0, <1>4 DEF ApplyRow, MuRecord
    <2>2. Stored'
      <3> SUFFICES ASSUME NEW a \in Kept' PROVE db'[a] = mu'.want[a]
        BY DEF Stored
      <3>1. a = b \/ a \in Kept
        BY <2>1 DEF Kept
      <3>2. a \in Bindings
        BY <1>t DEF Kept, TypeInv, MuRecord
      <3>3. db \in [Bindings -> Configs \cup {None}]
        BY <1>t DEF TypeInv, Rows
      <3>4. a \in Kept => db[a] = mu.want[a]
        BY <2>1 DEF VisibleInv, Stored, Applied
      <3> QED
        BY <2>1, <3>1, <3>2, <3>3, <3>4
    <2>3. AllApplied' /\ NoneApplied' /\ DiscoveryOnTime' /\ DiscoveryAgrees'
      BY <2>1 DEF VisibleInv, AllApplied, NoneApplied, DiscoveryOnTime, DiscoveryAgrees, Applied
    <2> QED
      BY <1>q, <1>t, <2>1, <2>2, <2>3 DEF VisibleInv
  <1>5. CASE ApplyFails
    BY <1>5, <1>n DEF ApplyFails, IdleMu, NoneApplied, Applied
  <1>6. CASE CommitRuntime
    <2>1. /\ mu.pc = "commit" /\ mu'.pc = "publish" /\ mu'.want = mu.want /\ mu'.ids = mu.ids
          /\ mu'.todo = mu.todo /\ mu'.lost = mu.lost /\ UNCHANGED <<db, snap, pub, disc>>
      BY <1>0, <1>6 DEF CommitRuntime, MuRecord
    <2>2. Stored' /\ AllApplied' /\ NoneApplied' /\ DiscoveryOnTime' /\ DiscoveryAgrees'
      BY <2>1 DEF VisibleInv, Stored, AllApplied, NoneApplied, DiscoveryOnTime, DiscoveryAgrees, Applied, Kept
    <2> QED
      BY <1>q, <1>t, <2>1, <2>2 DEF VisibleInv
  <1>7. CASE CommitFails
    <2>1. mu'.pc = "rollback"
      BY <1>0, <1>7 DEF CommitFails, MuRecord
    <2> QED
      BY <1>7, <1>n, <2>1 DEF CommitFails, NoneApplied, Applied
  <1>8. CASE PublishMutation
    <2>1. CASE Publishes(MutationSnapshot) /\ mu' = [mu EXCEPT !.pc = "refresh"]
      <3>1. /\ mu.pc = "publish" /\ mu'.pc = "refresh" /\ mu'.want = mu.want /\ mu'.ids = mu.ids
            /\ mu'.todo = mu.todo /\ mu'.lost = mu.lost /\ UNCHANGED <<db, pub, disc>>
            /\ snap'.version = mu.version /\ mu.version > snap.version /\ mu.version \in Nat
        BY <1>0, <1>8, <2>1 DEF PublishMutation, Publishes, MutationSnapshot, MuRecord
      <3>2. DiscoveryOnTime' /\ disc'.version <= snap'.version
        BY <1>0, <3>1 DEF VisibleInv, DiscoveryOnTime
      <3>3. DiscoveryAgrees'
        BY <1>0, <3>1, <3>2 DEF DiscoveryAgrees
      <3>4. Stored' /\ AllApplied' /\ NoneApplied'
        BY <3>1 DEF VisibleInv, Stored, AllApplied, NoneApplied, Applied, Kept
      <3> QED
        BY <1>q, <1>t, <3>1, <3>2, <3>3, <3>4 DEF VisibleInv
    <2>2. CASE mu' = [mu EXCEPT !.pc = "rollback", !.todo = mu.ids] /\ UNCHANGED snap
      <3>1. mu'.pc = "rollback"
        BY <1>0, <2>2 DEF MuRecord
      <3> QED
        BY <1>8, <1>n, <2>2, <3>1 DEF PublishMutation, NoneApplied, Applied
    <2> QED
      BY <1>8, <2>1, <2>2 DEF PublishMutation
  <1>9. ASSUME NEW b \in Bindings, RollbackRow(b) PROVE VisibleInv'
    <2>1. mu.pc = "rollback" /\ mu'.pc \in {"idle", "rollback"} /\ UNCHANGED <<snap, pub, disc>>
      BY <1>0, <1>9 DEF RollbackRow, IdleMu, MuRecord
    <2> QED
      BY <1>n, <2>1 DEF NoneApplied, Applied
  <1>10. CASE RefreshAfterMutation
    <2>1. /\ mu.pc = "refresh" /\ mu'.pc = "refreshing" /\ mu'.want = mu.want /\ mu'.ids = mu.ids
          /\ mu'.todo = mu.todo /\ mu'.lost = mu.lost /\ UNCHANGED <<db, snap, disc>> /\ pub'.pc = "version"
      BY <1>0, <1>10 DEF RefreshAfterMutation, StartPublish, IdlePub, MuRecord
    <2>2. Refreshes' /\ RefreshCompiled' /\ RefreshPublished'
      BY <2>1 DEF Refreshes, RefreshCompiled, RefreshPublished
    <2>3. Stored' /\ AllApplied' /\ NoneApplied' /\ DiscoveryOnTime' /\ DiscoveryAgrees'
      BY <2>1 DEF VisibleInv, Stored, AllApplied, NoneApplied, DiscoveryOnTime, DiscoveryAgrees, Applied, Holds, Kept
    <2> QED
      BY <1>t, <2>2, <2>3 DEF VisibleInv
  <1> QED
    BY <1>1, <1>2, <1>3, <1>4, <1>5, <1>6, <1>7, <1>8, <1>9, <1>10 DEF MutationStep

\* So do the discovery loop and the presets.
LEMMA DiscoveryVisible ==
    VisibleInv /\ (\/ \E e \in Endpoints : DiscoverEndpoints(e)
                   \/ DiscoveryStep
                   \/ \E b \in Bindings : ApplyPresetRead(b)
                   \/ \E c \in Configs : ApplyPresetWrite(c)) => VisibleInv'
  <1> SUFFICES ASSUME VisibleInv,
                      \/ \E e \in Endpoints : DiscoverEndpoints(e)
                      \/ DiscoveryStep
                      \/ \E b \in Bindings : ApplyPresetRead(b)
                      \/ \E c \in Configs : ApplyPresetWrite(c)
               PROVE  VisibleInv'
    OBVIOUS
  <1>t. TypeInv /\ TypeInv'
    BY DiscoveryType DEF VisibleInv
  <1>0. disc \in DiscRecord /\ snap.version \in Nat /\ disc.version \in Nat /\ mu \in MuRecord
    BY <1>t DEF TypeInv, DiscRecord
  <1>u. ASSUME UNCHANGED <<db, pub, mu>>
        PROVE  Stored' /\ AllApplied' /\ NoneApplied' /\ Refreshes' /\ RefreshCompiled'
    BY <1>u DEF VisibleInv, Stored, AllApplied, NoneApplied, Refreshes, RefreshCompiled, Holds, Kept
  <1>s. ASSUME UNCHANGED <<snap, pub, mu>> PROVE RefreshPublished'
    BY <1>s DEF VisibleInv, RefreshPublished, Holds, Kept
  \* A cycle that has no snapshot to publish yet, or none any more.
  <1>w. ASSUME UNCHANGED <<db, snap, pub, mu>>, disc'.pc # "publish", disc'.version <= snap.version + 1
        PROVE  VisibleInv'
    <2>1. DiscoveryOnTime' /\ DiscoveryAgrees'
      BY <1>w DEF DiscoveryOnTime, DiscoveryAgrees
    <2> QED
      BY <1>s, <1>t, <1>u, <1>w, <2>1 DEF VisibleInv
  <1>1. ASSUME NEW e \in Endpoints, DiscoverEndpoints(e) PROVE VisibleInv'
    <2>1. disc'.pc = "version" /\ disc'.version = 0 /\ UNCHANGED <<db, snap, pub, mu>>
      BY <1>1 DEF DiscoverEndpoints, IdleDisc
    <2>2. disc'.version <= snap.version + 1
      BY <1>0, <2>1
    <2> QED
      BY <1>w, <2>1, <2>2
  <1>2. CASE DiscoveryVersion
    <2>1. disc'.pc = "compile" /\ disc'.version = snap.version + 1
      BY <1>0, <1>2 DEF DiscoveryVersion, DiscRecord
    <2> QED
      BY <1>0, <1>2, <1>w, <2>1 DEF DiscoveryVersion
  <1>3. CASE DiscoveryCompile
    <2>1. CASE disc' = [disc EXCEPT !.pc = "publish", !.rows = Enabled(db)]
      <3>1. UNCHANGED <<db, snap, pub, mu>> /\ disc'.version = disc.version /\ disc'.rows = Enabled(db)
        BY <1>0, <1>3, <2>1 DEF DiscoveryCompile, DiscRecord
      <3>2. DiscoveryOnTime'
        BY <3>1 DEF VisibleInv, DiscoveryOnTime
      <3>3. mu.pc \in {"refresh", "refreshing"} => Holds(Enabled(db))
        BY <1>t, StoredHolds DEF VisibleInv, Applied
      <3>4. DiscoveryAgrees'
        BY <3>1, <3>3 DEF DiscoveryAgrees, Holds, Kept
      <3> QED
        BY <1>s, <1>t, <1>u, <3>1, <3>2, <3>4 DEF VisibleInv
    <2>2. CASE disc' = IdleDisc
      BY <1>0, <1>3, <1>w, <2>2 DEF DiscoveryCompile, IdleDisc
    <2> QED
      BY <1>3, <2>1, <2>2 DEF DiscoveryCompile
  <1>4. CASE DiscoveryPublish
    <2>1. CASE Publishes(DiscoverySnapshot) /\ disc' = [disc EXCEPT !.pc = "update"]
      <3>1. /\ UNCHANGED <<db, pub, mu>> /\ disc.pc = "publish" /\ disc.version > snap.version
            /\ disc'.pc = "update" /\ disc'.version = disc.version
            /\ snap'.version = disc.version /\ snap'.rows = disc.rows
        BY <1>0, <1>4, <2>1 DEF DiscoveryPublish, Publishes, DiscoverySnapshot, DiscRecord
      <3>2. RefreshPublished'
        BY <3>1 DEF VisibleInv, Refreshes, RefreshPublished, DiscoveryAgrees, Holds, Kept
      <3>3. DiscoveryOnTime' /\ DiscoveryAgrees'
        BY <1>0, <3>1 DEF DiscoveryOnTime, DiscoveryAgrees
      <3> QED
        BY <1>t, <1>u, <3>1, <3>2, <3>3 DEF VisibleInv
    <2>2. CASE disc' = IdleDisc /\ UNCHANGED snap
      BY <1>0, <1>4, <1>w, <2>2 DEF DiscoveryPublish, IdleDisc
    <2> QED
      BY <1>4, <2>1, <2>2 DEF DiscoveryPublish
  <1>5. CASE DiscoveryUpdate
    BY <1>0, <1>5, <1>w DEF DiscoveryUpdate, IdleDisc
  <1>6. ASSUME NEW b \in Bindings, ApplyPresetRead(b) PROVE VisibleInv'
    <2>1. UNCHANGED <<db, snap, pub, mu, disc>>
      BY <1>6 DEF ApplyPresetRead
    <2>2. DiscoveryOnTime' /\ DiscoveryAgrees'
      BY <2>1 DEF VisibleInv, DiscoveryOnTime, DiscoveryAgrees, Holds, Kept
    <2> QED
      BY <1>s, <1>t, <1>u, <2>1, <2>2 DEF VisibleInv
  <1>7. ASSUME NEW c \in Configs, ApplyPresetWrite(c) PROVE VisibleInv'
    <2>1. /\ UNCHANGED <<snap, pub, disc>> /\ db' = [db EXCEPT ![pre.id] = c] /\ pre.pc = "write"
          /\ mu'.pc = mu.pc /\ mu'.want = mu.want /\ mu'.ids = mu.ids /\ mu'.todo = mu.todo
          /\ mu.lost \subseteq mu'.lost
      BY <1>0, <1>7, OverwriteType DEF ApplyPresetWrite
    <2>2. Kept' \subseteq Kept
      BY <2>1 DEF Kept
    <2>3. Stored'
      <3> SUFFICES ASSUME mu'.pc \in Applied, NEW b \in Kept' PROVE db'[b] = mu'.want[b]
        BY DEF Stored
      <3>1. b \in Kept /\ b \in Bindings /\ db[b] = mu.want[b]
        BY <1>0, <2>1, <2>2 DEF VisibleInv, Stored, Kept, MuRecord
      <3>2. db \in [Bindings -> Configs \cup {None}] /\ pre.id \in Bindings
        BY <1>t, <2>1 DEF TypeInv, Rows
      <3>3. CASE b = pre.id
        <4>1. c # mu.want[pre.id] => pre.id \in mu'.lost
          BY <1>0, <1>7, <3>1, <3>3 DEF ApplyPresetWrite, Kept, MuRecord
        <4>2. b \notin mu'.lost
          BY DEF Kept
        <4> QED
          BY <2>1, <3>2, <3>3, <4>1, <4>2
      <3>4. CASE b # pre.id
        BY <2>1, <3>1, <3>2, <3>4
      <3> QED
        BY <3>3, <3>4
    <2>4. AllApplied' /\ NoneApplied' /\ Refreshes' /\ DiscoveryOnTime'
      BY <2>1 DEF VisibleInv, AllApplied, NoneApplied, Refreshes, DiscoveryOnTime
    <2>5. RefreshCompiled' /\ RefreshPublished' /\ DiscoveryAgrees'
      BY <2>1, <2>2 DEF VisibleInv, RefreshCompiled, RefreshPublished, DiscoveryAgrees, Holds, Enabled
    <2> QED
      BY <1>t, <2>3, <2>4, <2>5 DEF VisibleInv
  <1> QED
    BY <1>1, <1>2, <1>3, <1>4, <1>5, <1>6, <1>7 DEF DiscoveryStep

\* Every step keeps it.
LEMMA NextVisible == VisibleInv /\ [Next]_vars => VisibleInv'
  <1>1. VisibleInv /\ UNCHANGED vars => VisibleInv'
    <2> SUFFICES ASSUME VisibleInv, UNCHANGED vars PROVE VisibleInv'
      OBVIOUS
    <2>1. TypeInv'
      BY NextType DEF VisibleInv
    <2> QED
      BY <2>1 DEF vars, VisibleInv, Stored, AllApplied, NoneApplied, Refreshes, RefreshCompiled, RefreshPublished,
                  DiscoveryOnTime, DiscoveryAgrees, Holds, Kept
  <1> QED
    BY <1>1, PublisherVisible, MutationVisible, DiscoveryVisible DEF Next

\* No change of bindings, refresh or discovery cycle is under way at the start.
LEMMA InitVisible == Init => VisibleInv
  <1> SUFFICES ASSUME Init PROVE VisibleInv
    OBVIOUS
  <1>1. mu.pc = "idle" /\ pub.pc = "idle" /\ disc.pc = "idle" /\ disc.version = 0 /\ snap.version = 1
    BY DEF Init, IdleMu, IdlePub, IdleDisc
  <1> QED
    BY <1>1, InitType DEF VisibleInv, Stored, AllApplied, NoneApplied, Refreshes, RefreshCompiled, RefreshPublished,
                          DiscoveryOnTime, DiscoveryAgrees, Applied

\* A binding change that reports success is in force, for any number of bindings, edits,
\* refreshes, discovery cycles, presets and failing calls: what another publisher brings between
\* the change's refresh and its answer was compiled after the rows were written, or loses the
\* compare and swap of GatewaySnapshotPublisher.
THEOREM ReportedChangesVisible == Spec => CompletedMutationVisible
  <1> DEFINE Reports == MutationReports => \A b \in mu.ids \ mu.lost : snap.rows[b] = Enabled(mu.want)[b]
  <1>1. VisibleInv => Reports
    <2> SUFFICES ASSUME VisibleInv, MutationReports, NEW b \in mu.ids \ mu.lost
                 PROVE  snap.rows[b] = Enabled(mu.want)[b]
      OBVIOUS
    <2>1. mu.todo = {} /\ Holds(snap.rows)
      BY DEF MutationReports, VisibleInv, Refreshes, AllApplied, RefreshPublished, Applied
    <2> QED
      BY <2>1 DEF Holds, Kept
  <1>2. VisibleInv /\ [Next]_vars => [Reports]_vars
    BY <1>1
  <1> QED
    BY <1>2, InitVisible, NextVisible, PTL DEF Spec, CompletedMutationVisible

=============================================================================
