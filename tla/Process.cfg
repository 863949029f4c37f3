SPECIFICATION Spec
CONSTANTS
  NTasks = 3
  MaxPid = 4
  WaitArgs <- Waited
  KillArgs <- Signalled
  KillSigs = {"SIGHUP"}
  Groups = {2}
  Masks = {{}, {"SIGCHLD"}}
INVARIANTS PidsUnique FatherAlive NoLostChild WaiterHasChild LeaderKeepsGroup
PROPERTIES OnlyFatherReaps
VIEW Seen
