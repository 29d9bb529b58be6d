\* One request that retries and one that does not, with exceptions, aborts, two trips and
\* a reset.
CONSTANTS
    Requests = {r1, r2}
    Retrying = {r1}
    Dests = {d1}
    AnyKey = AnyKey
    Null = Null
    MaxRetries = 1
    UseDifferentDestination = TRUE
    RetryOnExceptions = TRUE
    MaxHalfOpenAttempts = 1
    MinimumThroughput = 1
    FailureThreshold = 1
    RatioNum = 1
    RatioDen = 2
    MayShortCircuit = FALSE
    MayThrow = TRUE
    MayAbort = TRUE
    MaxSamples = 2
    MaxTrips = 2
    MaxResets = 1
SPECIFICATION FairSpec
INVARIANTS ProbesBounded FailureCounterExact
PROPERTIES RequestEnds
