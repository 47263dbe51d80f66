CONSTANTS
  FirstPage = 1
  LastPage = 4
  Counts = {1, 2}
  Frames = {7, 8, 9}
  TableSpan = 3
  PageWords = 4
  Requests = {1, 2, 3, 5}
  MaxPages = 4
  UserPages = 4

SPECIFICATION MCSpec

INVARIANTS
  SpaceSound
  HeapSound

PROPERTY ImplementsAddressSpace

CHECK_DEADLOCK FALSE
