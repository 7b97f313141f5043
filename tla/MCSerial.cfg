SPECIFICATION FairSpec
CONSTANTS
  r1 = r1
  r2 = r2
  w1 = w1
  w2 = w2
  NULL = NULL
  Reader <- MCReader
  Writer <- MCWriter
  main = w1
  INTQ_BUFSIZE = 3
  BYTES = 3
  Length = 2
INVARIANTS NoByteLost IerRight StringsWhole
CHECK_DEADLOCK FALSE
PROPERTIES BytesFlow
