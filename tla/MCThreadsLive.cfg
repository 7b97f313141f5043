SPECIFICATION FairSpec
CONSTANTS
  main = main
  idle = idle
  NULL = NULL
  Thread = {main, idle, t1, t2}
  idle_started = idle_started
  tid_lock = tid_lock
  Sema = {idle_started, s}
  Lock = {tid_lock, l}
  TIME_SLICE = 2
  MaxTid = 4
  MaxValue = 2
PROPERTIES
 ReadyRuns
 MutexRefinement
