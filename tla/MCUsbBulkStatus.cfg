CONSTANTS
  PageSectors = 2
  LastSector = 3
  Counts = {1, 2, 3}
  EarlyCbw = TRUE

SPECIFICATION Spec

INVARIANT StatusIsOwn

CHECK_DEADLOCK FALSE
