SPECIFICATION CallSpec
CONSTANTS
  Caller = {p1, p2}
  File = {f1, f2}
  Name = {a, b}
  NoFile = NoFile
  MapSize = 3
  Length = 1
  Sizes = {1}
INVARIANT NoNullFile
\* A panic or SYS_HALT stops the machine.
CHECK_DEADLOCK FALSE
