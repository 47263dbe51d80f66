CONSTANTS
  PageSectors = 4
  LastSector = 6
  Counts = {1, 2, 3, 4, 5}

SPECIFICATION Spec

INVARIANT BufferKept
