SPECIFICATION Spec
CONSTANTS
  None = None
  MaxStreams = 2
  MaxCalls = 1
  MaxPanelOps = 2
CHECK_DEADLOCK FALSE
INVARIANTS ShownSessionIsCurrent FlagMeansStream
PROPERTIES WritesAreApproved StreamingFlagFalls
