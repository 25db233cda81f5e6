SPECIFICATION MCSpec
CONSTANTS
  Thread = {t1, t2, t3}
  idle_thread = idle
  Lock = {}
  Semaphore = {t1, t2, t3}
  IntrSema = {}
  NULL = NULL
  PRI_MAX = 2
  PRI_DEFAULT = 1
  CreatePriority = {1, 2}
  NewPriority = {0}
  TIME_SLICE = 2
  MaxValue = 1
  MaxSleep = 2
  t1 = t1
  t2 = t2
  w1 = w1
  w2 = w2
  r1 = r1
  NoThread = NoThread
CHECK_DEADLOCK FALSE
INVARIANTS
  HighestRuns
  SleepersInOrder
  StreamsInOrder
  ReadsLastWrite
PROPERTIES
  NoEarlyWakeup
  SleepersRunAgain
  SleepersWake
  RequestsEnd
