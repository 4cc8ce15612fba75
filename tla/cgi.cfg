CONSTANTS
  N = 2
  Conn = {c1, c2}
  Segments <- MCSegments
  Impatient = {c1}
  c1 = c1
  c2 = c2
  MaxFault = 1
  MaxTerm = 1
SPECIFICATION FairSpec
INVARIANTS
  TypeOK
  NoOrphans
PROPERTIES
  LonelyAccepted
  RequestServed
  TermEnds
CHECK_DEADLOCK FALSE
