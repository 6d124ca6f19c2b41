CONSTANTS
  c1 = c1
  c2 = c2
  Callers <- MCCallers
  Requests = {3, 5}
  PAGE_SIZE = 4
  Guard = 1
  Base = 4
  Length = 5
  Frames = {0, 1, 2, 3, 4, 5, 6}
  LEVELS = 3
  FANOUT = 3
  REMAP_MEM_OFFSET = 100
SYMMETRY MCSymmetry
SPECIFICATION KSpec
INVARIANTS SlotsApart StacksMapped PageTreeExact
PROPERTY StackAllocSpec
