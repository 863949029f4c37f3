CONSTANTS
  Tasks = {t1, t2}
  Group <- MCGroup
  TTY_BUF_SIZE = 3
  ROOM = 0
  Keys = {"x", "cr", "eof", "erase", "kill", "intr"}
  Lens = {1, 2}
  Texts <- MCTexts
  Modes <- MCModes
  MaxTyped = 3
SPECIFICATION Spec
SYMMETRY Perms
INVARIANTS
  TypeOK
  ReadInOrder
  LinesCounted
  NewlineAfterCR
