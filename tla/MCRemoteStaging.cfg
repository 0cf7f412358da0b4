SPECIFICATION FairSpec
CONSTANTS
  Sessions = {s1, s2}
  MaxSlots = 3
INVARIANTS TransfersAreWhole LeakIsExplained
PROPERTIES DestinationIsFinal SessionsEnd
CHECK_DEADLOCK FALSE
