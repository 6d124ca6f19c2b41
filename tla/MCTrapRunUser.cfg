SPECIFICATION Spec
CONSTANTS
  Executors = {e1}
  Callers = {e1}
  RT = RT
  MaxDepth = 3
INVARIANT RunRecordsUser
CHECK_DEADLOCK FALSE
