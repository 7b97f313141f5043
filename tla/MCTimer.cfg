SPECIFICATION FairSpec
CONSTANTS
  Thread = {t1, t2, t3}
  Durations = {0, 1, 2}
  Zeroed = Zeroed
  Width = 4
  MaxTicks = 4
INVARIANTS SleepListOK
PROPERTIES WakesOnTime ReadySleeperWakes
\* A failed assertion halts the machine.
CHECK_DEADLOCK FALSE
