\* Two destinations and no retry.
CONSTANTS
    Requests = {r1, r2}
    Retrying = {}
    Dests = {d1, d2}
    AnyKey = AnyKey
    Null = Null
    MaxRetries = 1
    UseDifferentDestination = TRUE
    RetryOnExceptions = TRUE
    MaxHalfOpenAttempts = 1
    MinimumThroughput = 1
    FailureThreshold = 1
    RatioNum = 1
    RatioDen = 2
    MayShortCircuit = FALSE
    MayThrow = FALSE
    MayAbort = FALSE
    MaxSamples = 2
    MaxTrips = 2
    MaxResets = 0
SPECIFICATION Spec
INVARIANTS HalfOpenHasProbe
