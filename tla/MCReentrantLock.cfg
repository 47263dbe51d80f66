CONSTANTS
  Cpus = {0, 1, 3}
  MaxCalls = 3

SPECIFICATION FairSpec

INVARIANTS
  MutualExclusion
  LeftFree

PROPERTY Progress
