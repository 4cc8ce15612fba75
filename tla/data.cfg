CONSTANTS
  Key = {1, 2, 3, 4, 5}
  Element = {0, 1, 2}
  MaxSize = 6
SPECIFICATION DataSpec
INVARIANTS
  Balanced
  SortsSort
  SearchesFind
  ScansAgree
  GreedyIsBest
PROPERTIES
  KeysKept
  FixupEnds
CHECK_DEADLOCK FALSE
