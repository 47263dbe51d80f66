CONSTANTS
  PageSectors = 2
  LastSector = 3
  Counts = {1, 2, 3}
  EarlyCbw = FALSE
  AtaCounts = {1, 2, 3, 5}
  AtaLast = 4
  PrdtSectors = 2
  MaxSectors = 4
  Disks = {1, 2}
  PerSector = 2
  Tables <- MCTables
  SqSize = 2
  CqSize = 3
  Ids = 6
  Byte = 4
  PerCluster = 2
  Places <- MCPlaces
  Contents <- MCContents
  Machines <- MCMachines
  Begins <- MCBegins
  SystemId = "system"

SPECIFICATION MCSpec

INVARIANTS
  AhciReads
  PartitionsOwn
  ClustersFound

PROPERTIES
  ImplementsDiskRead
  QueuesServe

CHECK_DEADLOCK FALSE
