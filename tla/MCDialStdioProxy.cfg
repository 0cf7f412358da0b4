SPECIFICATION FairSpec
CONSTANTS
  Conns = {c1, c2}
  Talkative = {c1}
  MaxReplies = 1
INVARIANTS StopSeesAll HandlerLeavesNothingOpen RepliesReachClient
PROPERTIES TornDown
CHECK_DEADLOCK FALSE
