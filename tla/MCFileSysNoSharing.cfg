SPECIFICATION Spec
CHECK_DEADLOCK FALSE
CONSTANTS
  NULL = NULL
  Proc = {p1, p2}
  Name = {a, b}
  BadName = {}
  Slots = 2
  Sectors = 8
  Sizes = {1}
  Id = {i1, i2, i3, i4}
  MaxCrash = 0
  MaxOpen = 1
INVARIANT NoSharing
