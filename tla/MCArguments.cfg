SPECIFICATION ArgumentsSpec
CONSTANTS
  Lines <- MCLines
  MAX_ARGS = 4
  STACK_TOP = 64
  STACK_SIZE = 36
INVARIANTS SentinelNull
CHECK_DEADLOCK FALSE
