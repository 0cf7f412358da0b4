SPECIFICATION FairSpec
CONSTANTS
  Limit = 3
  MaxItems = 2
  MaxChunks = 3
INVARIANTS ReturnsForAReason NothingLeftBehind DestinationIsWhole
PROPERTY EndsByDeadline
CHECK_DEADLOCK FALSE
