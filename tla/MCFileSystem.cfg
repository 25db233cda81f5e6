SPECIFICATION MCSpec
CONSTANTS
  Process = {p1, p2}
  NSector = 4
  Path <- MCPath
  MaxLen = 1
  MaxHeld = 2
  w1 = w1
  NoThread = NoThread
SYMMETRY MCSymmetry
CHECK_DEADLOCK FALSE
INVARIANTS
  OpenCountsExact
  DirectoryTree
  ReadersSeeWhatWasWritten
  InodeConsistent
  BlocksHaveSectors
  ReleasesAllBlocks
  ListedExactlyOnce
  FreeMapSound
  DescriptorsSound
PROPERTIES
  ExecutableIntact
