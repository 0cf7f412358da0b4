SPECIFICATION PoolFairSpec
CONSTANTS
  Threads = {t1, t2}
  Labels = {prod, local}
  MaxClients = 4
  None = None
INVARIANTS PoolIsUsable OwnedOnce
PROPERTIES FailedReconnectKeepsClient CallsReturn
