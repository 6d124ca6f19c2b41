CONSTANTS
  Ids = {1, 2}
  Delays = {0, 1, 2, 3}
  NANOS = 3
  FREQ = 2
  WORD = 13
  MaxTick = 5
SPECIFICATION TSpec
CHECK_DEADLOCK FALSE
INVARIANT NothingScheduled
