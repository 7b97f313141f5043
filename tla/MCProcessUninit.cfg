CONSTANTS
  Proc = {root, p1, p2}
  root = root
  ExitStatus = {Error, zero}
  CreateFails = FALSE
  TID_ERROR = TID_ERROR
  Error = Error
  Garbage = Garbage
SPECIFICATION Spec
INVARIANT NeverUninitialised
\* Processes end, and the model stops at undefined behaviour.
CHECK_DEADLOCK FALSE
