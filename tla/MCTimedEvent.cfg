CONSTANTS
  Ids = {1, 2}
  Delays = {0, 1, 2, 3}
  NANOS = 3
  FREQ = 2
  WORD = 13
  MaxTick = 5
SPECIFICATION TFairSpec
INVARIANTS OneOutcome DueInOrder TimerArmed
PROPERTY EventuallyRetired
CHECK_DEADLOCK FALSE
