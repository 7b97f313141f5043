CONSTANTS
  Thread = {t1, t2}
  Durations <- WithNegative
  Zeroed = Zeroed
  Width = 4
  MaxTicks = 4
SPECIFICATION Spec
INVARIANT NoPanic
PROPERTY ExpiredWoken
CHECK_DEADLOCK FALSE
