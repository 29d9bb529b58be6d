\* Edits, one fault and one restart, with fairness; no destinations.
CONSTANTS
    r1 = r1
    r2 = r2
    c1 = c1
    c2 = c2
    d1 = d1
    ip1 = ip1
    a1 = a1
    blank = blank
    None = None
    RouteIds = {r1, r2}
    ClusterIds = {c1, c2}
    Uids = {1, 2, 3, 4, 5}
    DestKeys <- OneKey
    D1 = d1
    Addresses <- BlankOnly
    Blank = blank
    DestInputs <- NoDestInputs
    Documents <- NoDocs
    AppSettings <- NoStatic
    Batches <- NoBatches
    MaxVersion = 2
    MaxFaults = 1
    MaxRestarts = 1
SPECIFICATION FairSpec
INVARIANTS DurableWhenClean ServedMatchesWorkingSet
PROPERTIES LockReleased SaveKeepsLiveRows RestartRecovers
