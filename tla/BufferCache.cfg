SPECIFICATION Spec
CONSTANTS
  t1 = t1
  t2 = t2
  Tasks <- MCTasks
  NR_BUFFERS = 2
  NR_REQUEST = 2
  hash <- MCHash
  MAX_ERRORS = 2
  RdBlocks = 1
  HdBlocks = 2
  Wanted <- MCWanted
  Ahead = 1
  Values = {0, 1}
  Ops <- MCOps
  Blank = 0
  Changing <- MCChanging
  MaxFaults = 2
  MaxCalls = 4
VIEW Seen
INVARIANTS TypeOK OneBuffer LockedIffPending  
PROPERTIES ContentsKept
CHECK_DEADLOCK FALSE
