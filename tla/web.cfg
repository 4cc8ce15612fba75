CONSTANTS
  Client = {a, b}
  Fd = {f1, f2}
  Worker = {w1, w2}
  None = None
  Stream <- MixedStream
  BodyLen = 2
  MaxRequest = 1
  MaxFd = 1
  ReadSize = 7
  WriteSize = 1
  a = a
  b = b
  d = d
  e = e
  f1 = f1
  f2 = f2
  f3 = f3
SPECIFICATION FairSpec
INVARIANTS
  TypeOK
  AnswersIfReset
PROPERTIES
  BodyComplete
  RequestAnswered
CHECK_DEADLOCK FALSE
