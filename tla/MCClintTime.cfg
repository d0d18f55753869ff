SPECIFICATION Spec
CONSTANTS
  TwoTo64 = 8
  NsPerTick = 2
  TIMER_WIRE_UPDATE_ATTEMPTS = 2
  MaxNow = 2
  GuestOps <- TimeOps
  Times = {1}
  Compares = {1, 7}
  Enabled = {"M"}
INVARIANTS WiresExact
PROPERTIES LoadNotAhead StoreReproduced
