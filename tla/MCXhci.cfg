CONSTANTS
  Ports = {1, 2}
  Slots = {1, 2}
  Pages = {1, 2, 3, 4, 5, 6, 7, 8, 9, 10}
  Devices <- MCDevices
  Last = 3
  EventSize = 4
  Trb = {t1, t2, t3}
  Window = 3
  Event = {e1, e2, e3}

SPECIFICATION MCSpec

INVARIANTS
  PagesOwned
  SlotAgrees
  ResetKnown

PROPERTIES
  DriverProceeds
  TransferRingIsFifo
  EventRingIsFifo

CHECK_DEADLOCK FALSE
