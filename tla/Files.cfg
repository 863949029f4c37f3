CONSTANTS
  NR_INODE = 4
  NINODES = 4
  ZONES = 6
  ZBITS = 7
  DIRECT = 1
  LINKS = 256
  CELLS = 3
  NTASKS = 2
  NR_OPEN = 2
  NR_FILE = 2
  RootDirs <- MCRootDirs
  NoTty = {2}
  Does <- MCDoes
  Paths <- MCPaths
  Flags <- MCFlags
  Nodes <- MCNodes
  Offsets = {1, 12}
  Counts = {2}
  MaxPos = 14
  MaxCalls = 5
SPECIFICATION Spec
VIEW Seen
CHECK_DEADLOCK FALSE
INVARIANTS
  TypeOK
  Coherent
  OnlyOwnBytes
  
  
  
  
