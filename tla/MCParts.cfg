SPECIFICATION PartsSpec
CONSTANTS
  NUM = 3
  MaxArrivals = 5
  Inspectors = {1, 2}
  FrameSize = 4
  MaxSlots = 3
  Periods = {2, 4}
  Durations = {1, 2}
  INFINITY = 7
  MaxStart = 3
  MaxLen = 2
  MaxRanges = 3
  PAGE_SIZE = 3
  MaxVaddr = 4
  MaxMemsz = 5
  MaxSegments = 2
  Perms = {"W"}
  QS = 3
  NET_BUF_LEN = 1526
  HDR_LEN = 12
  MTU = 1514
  Lengths <- MCLengths
  NoBuf = NoBuf
  ex1 = ex1
  ex2 = ex2
  ex3 = ex3
  Executors <- MCExecutors
  CpuOf <- MCCpuOf
  StrategyCpu = 1
SYMMETRY MCSymmetry
INVARIANTS
  BitsExact
  AcceptsExactly
  IntervalsExact
  ImageExact
  BufsConserved
  TokensHonoured
  
PROPERTY
  Refinement
