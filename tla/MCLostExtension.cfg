SPECIFICATION WriteSpec
CONSTANTS
  Writer = {w1, w2}
  Value = {1}
  SECTOR_SIZE = 2
  MaxByte = 3
  NoThread = NoThread
CHECK_DEADLOCK FALSE
PROPERTY
  LengthNeverShrinks
