SPECIFICATION RaceSpec
CONSTANTS
  Process = {p1, p2}
  NSector = 4
  Path <- MCPath
  MaxLen = 1
  MaxHeld = 2
CHECK_DEADLOCK FALSE
INVARIANT
  NoDanglingInode
