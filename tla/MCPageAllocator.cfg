CONSTANTS
  Regions <- MCRegions
  LowLimit = 2
  Counts = {1, 2, 3}
  Alignments = {1, 2, 4}
  PoolRegions <- MCPoolRegions
  PoolLowLimit = 1
  PoolCounts = {1, 2}
  PoolAlignments = {1, 2}
  Slots = 6
  MaxOther = 2

SPECIFICATION MCSpec

INVARIANTS
  ListSeparated
  PagesConserved
  FailureHonest
  PoolSound

PROPERTIES
  ImplementsPageAllocator
  PoolImplementsPageAllocator

CHECK_DEADLOCK FALSE
