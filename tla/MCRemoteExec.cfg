SPECIFICATION MCSpec
CONSTANTS
  Seconds = 2
  TermGrace = 1
  LocalGrace = 2
  SettlePolls = 2
  Cap = 1
  Window = 1
  MaxWrites = 2
  MaxLag = 1
  Overrun = 2
INVARIANTS NoSpuriousTimeout NoLostOutput TruncationIsExact DeadlineHonoured
PROPERTIES ImplementsRemoteCommand
