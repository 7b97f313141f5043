SPECIFICATION DiskFairSpec
CONSTANTS
  main_thread = main_thread
  t1 = t1
  NoHolder = NoHolder
  DiskThread <- MCDiskThread
  Sector = {0, 1}
  Value = {0, 1}
  MaxSpurious = 1
INVARIANTS DiskDataRight
PROPERTIES TransferEnds
\* The kernel stops when a command fails.
CHECK_DEADLOCK FALSE
