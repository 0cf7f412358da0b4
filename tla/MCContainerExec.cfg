SPECIFICATION FairSpec
CONSTANTS
  MaxBytes = 2
  MaxChunk = 2
  MaxChunks = 2
INVARIANTS TruncationIsTrue CutEndsTheRead
PROPERTIES AbandonedReaderStops CallEnds
CHECK_DEADLOCK FALSE
