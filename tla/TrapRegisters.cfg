SPECIFICATION Spec
CONSTANTS
  NTasks = 2
  MaxDepth = 2
INVARIANT AllRegistersKept
CHECK_DEADLOCK FALSE
VIEW Seen
