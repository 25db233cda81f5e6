SPECIFICATION MCSpec
CONSTANTS
  Page = {1, 2, 3, 4}
  main = 4
  NULL = NULL
  MaxTid = 4
  ExitStatus <- MCExitStatus
  Pid = {101, 102, 103}
  MAXJOBS = 2
  MaxJid = 3
CHECK_DEADLOCK FALSE
INVARIANTS
  NoDanglingChild
  JobsHaveChildren
  ForegroundIsWaitedFor
PROPERTIES
  WaitsTrue
  ExecKnowsLoad
  CallsReturn
  ZombiesDestroyed
  WaitEnds
