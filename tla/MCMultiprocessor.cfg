CONSTANTS
  Cpus = {0, 1, 3}
  MaxCalls = 3
  Boot = 0
  Listed = {1, 2, 3, 5}
  Slow = {1}
  MaskBits = 4
  Text = 2
  Cols = 2
  Rows = 2

SPECIFICATION FairMachine

INVARIANTS
  HandedOver
  ConsoleExclusive
  ScreenShowsText

PROPERTIES
  ProcessorsStart
  KernelPrints

CHECK_DEADLOCK FALSE
