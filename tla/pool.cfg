\* Two callers, two workers, a list for two requests.
SPECIFICATION FairSpec
CONSTANTS
  w1 = w1
  w2 = w2
  None = None
  Caller = {c1, c2}
  Workers <- TwoWorkers
  MaxRequest = 1
  MaxAppends = 2
  MaxIntr = 1
INVARIANTS
  ListLocked
  NoLostWakeup
  OnePlace
  PoolInv
PROPERTIES
  ImplementsJobQueue
  Served
\* With no request left the workers wait.
CHECK_DEADLOCK FALSE
