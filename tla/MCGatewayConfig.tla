--------------------------- MODULE MCGatewayConfig ---------------------------
(***************************************************************************)
(* Small instances of GatewayConfig.                                       *)
(***************************************************************************)
EXTENDS GatewayConfig

CONSTANTS r1, r2, c1, c2, d1, ip1, a1, blank

OneKey == {d1}
TwoKeys == {d1, ip1}
OneAddress == {a1, blank}
BlankOnly == {blank}

Only(key, a, h) == [k \in DestKeys |-> IF k = key THEN [address |-> a, health |-> h] ELSE None]
Plain == {Only(d1, a1, FALSE)}
Probed == {Only(d1, a1, TRUE)}
NoDestInputs == {NoDests}

EmptyDoc == [routes |-> [r \in RouteIds |-> None], clusters |-> [c \in ClusterIds |-> None]]
\* appsettings.json with nothing, or with route r1 on cluster c1.
StaticDoc == [routes |-> [r \in RouteIds |-> IF r = r1 THEN c1 ELSE None],
              clusters |-> [c \in ClusterIds |-> IF c = c1 THEN Only(d1, a1, FALSE) ELSE None]]
NoStatic == {EmptyDoc}
Static == {EmptyDoc, StaticDoc}
\* A configuration document that names both routes and one cluster.
Doc2 == [routes |-> [r \in RouteIds |-> c2],
         clusters |-> [c \in ClusterIds |-> IF c = c2 THEN Only(d1, a1, TRUE) ELSE None]]
OneDoc == {Doc2}
NoDocs == {}
PairBatch == {<<r1, r2>>}
NoBatches == {}
=============================================================================
