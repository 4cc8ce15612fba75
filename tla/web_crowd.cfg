CONSTANTS
  Client = {a, b, d, e}
  Fd = {f1, f2, f3}
  Worker = {w1, w2}
  None = None
  Stream <- CrowdStream
  BodyLen = 2
  MaxRequest = 1
  MaxFd = 3
  ReadSize = 7
  WriteSize = 1
  a = a
  b = b
  d = d
  e = e
  f1 = f1
  f2 = f2
  f3 = f3
SPECIFICATION Spec
INVARIANTS
  OneHand
  NotForgotten
PROPERTIES
  RefusedLost
SYMMETRY Crowd
CHECK_DEADLOCK FALSE
