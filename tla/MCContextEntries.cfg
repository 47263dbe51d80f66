CONSTANTS
  Ports = {1}
  Slots = {1}
  Pages = {1, 2, 3, 4, 5, 6, 7}
  Devices <- MCDevices
  Last = 3
  EventSize = 4
  Trb = {t1, t2, t3}
  Window = 3
  Event = {e1, e2, e3}

SPECIFICATION MCSpec

INVARIANT EntriesCoverEndpoints

CHECK_DEADLOCK FALSE
