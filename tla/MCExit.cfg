SPECIFICATION Spec
CONSTANTS
  Page = {1, 2}
  main = 2
  NULL = NULL
  MaxTid = 2
  ExitStatus <- MCExitStatus
PROPERTY ExitDestroys
