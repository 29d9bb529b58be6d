SPECIFICATION FairSpec
CONSTANTS
  Capacity = 1
  BatchSize = 2
  Attempts = 2
  MaxEntries = 3
  MaxFaults = 2
  MaxOps = 1
  MaxLoops = 2
INVARIANTS EntriesAccounted OneReader StopsReachAll NothingLostQuietly
PROPERTIES DeliversLog QueueMoves StopsEnd
CHECK_DEADLOCK FALSE
