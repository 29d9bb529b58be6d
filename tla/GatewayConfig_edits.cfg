\* Every kind of edit on a static configuration, a restart, and no faults.
CONSTANTS
    r1 = r1
    r2 = r2
    c1 = c1
    c2 = c2
    d1 = d1
    ip1 = ip1
    a1 = a1
    blank = blank
    None = None
    RouteIds = {r1, r2}
    ClusterIds = {c1, c2}
    Uids = {1, 2, 3, 4, 5}
    DestKeys <- TwoKeys
    D1 = d1
    Addresses <- OneAddress
    Blank = blank
    DestInputs <- Probed
    Documents <- OneDoc
    AppSettings <- Static
    Batches <- PairBatch
    MaxVersion = 2
    MaxFaults = 0
    MaxRestarts = 1
SPECIFICATION Spec
INVARIANTS UidsIdentify
PROPERTIES SaveKeepsLiveRows RestartRecovers EditsKeepReferences
