CONSTANTS
  Proc = {p1, p2}
  Key = {a, b, c}
  Val = {x, y, z, w, e}
  Blank = Blank
  Spaces = Spaces
  NHash = 2
  Hash <- MCHash
  KeyLen <- MCKeyLen
  ValLen <- MCValLen
  DatLenMin = 2
  DatLenMin = 2
  DatLenMax = 4
  PtrMax = 9
  IdxMax = 7
  DatMax = 6
  Calls <- TwoCalls
  MaxCalls <- TwoMax
  KillAt = {}
  p1 = p1
  p2 = p2
  p3 = p3
  a = a
  b = b
  c = c
  x = x
  y = y
  z = z
  w = w
  e = e
  e = e
SPECIFICATION Spec
INVARIANTS
  LocksReleasedOnReturn
