\* Two requests and two swaps under fairness.
CONSTANTS
    Requests = {r1, r2}
    Transitions = {t1, t2}
    Domains = {d0, d1, d2}
    Empty = d0
    None = None
SPECIFICATION FairSpec
PROPERTIES RetiredIsDisposed RequestAdmitted
INVARIANTS ActiveCountsRequests SafeDrain CurrentIsOpen
