SPECIFICATION Spec
CONSTANTS
  main = main
  idle = idle
  NULL = NULL
  Thread = {main, idle, t1, t2, t3}
  idle_started = idle_started
  tid_lock = tid_lock
  Sema = {idle_started, s}
  Lock = {tid_lock, l}
  TIME_SLICE = 1
  MaxTid = 4
  MaxValue = 2
SYMMETRY Symmetry
INVARIANTS
  ElemDualPurpose
  NoThreadLost
  NoLostWakeup
  TidUnique
