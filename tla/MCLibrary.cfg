SPECIFICATION MCSpec
CONSTANTS
  Thread = {t1, t2, t3}
  Priority = {1, 2}
  t1 = t1
  t2 = t2
  p1 = p1
  p2 = p2
  NULL = NULL
  NoThread = NoThread
INVARIANTS
  ListMatchesSequence
  HashMatchesSet
  HeapConsistent
  AddressSpacesSound
  NumbersExact
  SortsAndSearches
  ProgramImage
PROPERTY
  ImplementsMonitor
CHECK_DEADLOCK FALSE
