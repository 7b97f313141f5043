SPECIFICATION FilesSpec
SYMMETRY Symmetry
CONSTANTS
  NULL = NULL
  Proc = {p1}
  Name = {a, b, bad}
  BadName = {bad}
  Slots = 2
  Sectors = 8
  Sizes = {0, 2}
  Id = {i1, i2, i3, i4}
  MaxCrash = 1
  MaxOpen = 2
  File = {f1, f2}
  Length = 3
  SS = 2
  Byte = {1}
  Size = {1, 2, 4}
  Seek = {1, 4}
INVARIANTS NoSharing SpaceAccounted OpenCounts NoPanic TransfersExact DenyCounts
