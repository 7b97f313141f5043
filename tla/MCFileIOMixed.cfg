SPECIFICATION IOSpec
CONSTANTS
  File = {f1, f2}
  Length = 3
  SS = 2
  Byte = {1, 2}
  Size = {3}
  Seek = {}
INVARIANTS SameCharacter
