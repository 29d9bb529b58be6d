\* Three readers and three publications under endless traffic.
CONSTANTS
    Readers = {r1, r2, r3}
    MaxVersion = 3
    Null = Null
SPECIFICATION FairCacheSpec
PROPERTIES Converges
INVARIANTS CacheCoherent LockedAnswerExact
