SPECIFICATION PSpec
CONSTANTS
  NUM = 2
  t1 = t1
  t2 = t2
  t3 = t3
  Tasks <- MCTasks
  Root = t1
  Priority <- MCPriority
  MaxQueued = 2
  NoTask = NoTask
  Cpus <- MCCpus
  Primary = 1
  TaskPriorities = {0, 1}
  NetIrq = 8
  UartIrq = 10
  NET_LOAD = 4
  UART_LOAD = 1
  BYTE = 2
  MaxCount = 2
  MaxMoves = 3
  None = None
INVARIANTS NoLostWake ReadyOnce RoutedOnce ServedWhileEnabled ClaimsSomething
PROPERTIES TopPriorityPolled EventuallyClaimed
CHECK_DEADLOCK FALSE
