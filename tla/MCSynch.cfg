SPECIFICATION Spec
CONSTANTS
  Thread = {t1, t2, t3}
  idle_thread = idle
  Lock = {l1, l2}
  Semaphore = {s1}
  IntrSema = {s1}
  NULL = NULL
  PRI_MAX = 2
  PRI_DEFAULT = 1
  CreatePriority = {0, 2}
  NewPriority = {1}
  TIME_SLICE = 1
  MaxValue = 1
SYMMETRY Symmetry
INVARIANTS ThreadsOnOneList LockOwnership NoLostWakeup LoanReturned
PROPERTIES WakesHighest ImplementsAbstract
