SPECIFICATION Spec
CONSTANTS
  Executors = {e1}
  Callers = {e1}
  RT = RT
  MaxDepth = 3
PROPERTIES TrapTransparent SwitchTransparent RunTransparent
CHECK_DEADLOCK FALSE
