CONSTANTS
  Proc = {p1, p2}
  Key = {a, b, c}
  Val = {x, y, z}
  Blank = Blank
  Spaces = Spaces
  NoVal = NoVal
  NHash = 2
  Hash <- MCHash
  KeyLen <- MCKeyLen
  ValLen <- MCValLen
  DatLenMin = 2
  DatLenMax = 4
  PtrMax = 9
  IdxMax = 7
  DatMax = 2
  Calls <- KillCalls
  MaxCalls <- KillMax
  KillAt <- KillSafe
  p1 = p1
  p2 = p2
  p3 = p3
  a = a
  b = b
  c = c
  x = x
  y = y
  z = z
  w = w
  e = e
SPECIFICATION FairKVSpec
INVARIANTS
  ListInv
  DiskAgrees
  NothingLeaks
PROPERTIES
  Linearizable
  ScanReturnsStored
  EveryCallEnds
