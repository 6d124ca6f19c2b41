CONSTANTS
  NUM = 2
  i1 = i1
  i2 = i2
  e1 = e1
  e2 = e2
  e3 = e3
  Inspectors <- MCInspectors
  Executors <- MCExecutors
  RootInspector = i1
  RootExecutor = e1
  Priority <- MCPriority
  Tables <- MCTables
  MaxTime = 2
  MaxNest = 4
  RT = RT
  None = None
SPECIFICATION FairSpec
INVARIANTS InspectorPlaced ExecutorPlaced RunningNamed SlotEndPending
CHECK_DEADLOCK FALSE
PROPERTIES QueuedRuns Halts
