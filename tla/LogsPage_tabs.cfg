SPECIFICATION LogsSpec
CONSTANTS
  None = None
  q1 = q1
  q2 = q2
  Queries <- TwoQueries
  PagesOf <- TwoAndNone
  MaxRequests = 2
  MaxOps = 5
  VirtualFrom = 0
  MaxWritten = 1
  MaxLoads = 1
CHECK_DEADLOCK FALSE
INVARIANTS PollsAreWatched PageNumbersItems ShownDetailIsCached
PROPERTIES SpinnersEnd
