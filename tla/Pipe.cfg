SPECIFICATION Spec
CONSTANTS
  Procs = {p1, p2, p3}
  Size = 4
  MaxCount = 3
  Bytes = {0, 1}
INVARIANTS TypeOK CountsAgree 
 
CHECK_DEADLOCK FALSE
VIEW Seen
SYMMETRY Symmetry
