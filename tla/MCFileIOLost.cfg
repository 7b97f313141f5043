SPECIFICATION IOSpec
CONSTANTS
  File = {f1, f2}
  Length = 3
  SS = 2
  Byte = {1, 2}
  Size = {1, 3}
  Seek = {1}
INVARIANTS BytesLand
