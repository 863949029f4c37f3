SPECIFICATION Spec
CONSTANTS
  NTasks = 2
  MaxDepth = 2
   
PROPERTY FramesUntouched
CHECK_DEADLOCK FALSE
VIEW Seen
