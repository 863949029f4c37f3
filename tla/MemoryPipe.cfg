SPECIFICATION SpecWithPipe
CONSTANTS
  NPages = 9
  NTasks = 2
  Dirs <- MCDirs
  VA <- MCVA
  DirOf <- MCDirOf
  Args <- MCArgs
  Program <- MCProgram
  Values = {0, 1}
  BufPages = 1
  NoPage = NoPage
PROPERTY PrivateMemories
CHECK_DEADLOCK FALSE
VIEW Seen
