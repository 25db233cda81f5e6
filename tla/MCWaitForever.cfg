SPECIFICATION ShellSpec
CONSTANTS
  Pid = {101}
  MAXJOBS = 1
  MaxJid = 1
CHECK_DEADLOCK FALSE
PROPERTY
  WaitFgReturns
