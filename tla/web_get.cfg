CONSTANTS
  Client = {a, b}
  Fd = {f1, f2}
  Worker = {w1, w2}
  None = None
  Stream <- GetStream
  BodyLen = 2
  MaxRequest = 1
  MaxFd = 2
  ReadSize = 7
  WriteSize = 1
  a = a
  b = b
  d = d
  e = e
  f1 = f1
  f2 = f2
  f3 = f3
SPECIFICATION FairSpec
PROPERTIES
  GetAnswered
CHECK_DEADLOCK FALSE
