CONSTANTS
  Devices = {1, 2, 3}
  Vectors = 9
  Half = 7
  Reserved = 6
  Timer = 4
  Apics <- MCApics
  Kinds = {"msix", "msi", "none"}
  Lines = {0, 1, 2}
  Madts <- MCMadts
  Maps <- MCMaps
  Low = 1
  Meg = 3
  Formats <- MCFormats
  Places = {1, 2}
  Machines <- MCMachines
  Patience = 1
  High = 16
  Pointers = 2
  Capacities = {0, 1, 5, 6, 7}

SPECIFICATION MCSpec

INVARIANT ResultIsLength

CHECK_DEADLOCK FALSE
