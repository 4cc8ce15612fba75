\* One more request than max_request_.
SPECIFICATION Spec
CONSTANTS
  w1 = w1
  w2 = w2
  None = None
  Caller = {c1}
  Workers <- TwoWorkers
  MaxRequest = 1
  MaxAppends = 3
  MaxIntr = 0
INVARIANTS
  QueueBound
\* With no request left the workers wait.
CHECK_DEADLOCK FALSE
