CONSTANTS
  N = 2
  Conn = {c1}
  Segments <- MCSegments
  Impatient = {c1}
  c1 = c1
  c2 = c2
  MaxFault = 2
  MaxTerm = 0
SPECIFICATION FairSpec
PROPERTIES
  AllGoneParentExits
CHECK_DEADLOCK FALSE
