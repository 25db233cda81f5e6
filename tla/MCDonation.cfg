SPECIFICATION Spec
CONSTANTS
  Thread = {t1, t2, t3}
  idle_thread = idle
  Lock = {l1, l2}
  Semaphore = {}
  IntrSema = {}
  NULL = NULL
  PRI_MAX = 2
  PRI_DEFAULT = 0
  CreatePriority = {1, 2}
  NewPriority = {}
  TIME_SLICE = 1
  MaxValue = 1
SYMMETRY Symmetry
INVARIANT DonationCoversWaiters
