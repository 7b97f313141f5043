CONSTANTS
  Thread = {t1, t2}
  Durations = {0, 1, 2}
  Zeroed = Zeroed
  Width = 4
  MaxTicks = 4
SPECIFICATION FairSpec
PROPERTY SleepEnds
CHECK_DEADLOCK FALSE
