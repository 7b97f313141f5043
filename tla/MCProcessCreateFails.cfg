CONSTANTS
  Proc = {root, p1, p2}
  root = root
  ExitStatus = {Error, zero}
  CreateFails = TRUE
  TID_ERROR = TID_ERROR
  Error = Error
  Garbage = Garbage
SPECIFICATION FairSpec
PROPERTY ExecReturns
\* Processes end, and the model stops at undefined behaviour.
CHECK_DEADLOCK FALSE
