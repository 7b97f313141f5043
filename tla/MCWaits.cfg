SPECIFICATION WaitsSpec
CONSTANTS
  Proc = {root, p1, p2}
  root = root
  ExitStatus = {Error, zero}
  CreateFails = FALSE
  TID_ERROR = TID_ERROR
  Error = Error
  Garbage = Garbage
  Worker <- MCWorker
  Program <- MCProgram
  NoWorker = NoWorker
INVARIANTS RecordFreedOnce FirstInFirstOut WaitersOnStack
PROPERTIES ParentSeesChild CallsReturn RemoveReturns
\* Processes and the workers' programs end, and the model stops at undefined
\* behaviour.
CHECK_DEADLOCK FALSE
