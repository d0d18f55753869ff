SPECIFICATION Spec
CONSTANTS
  TwoTo64 = 8
  NsPerTick = 1
  TIMER_WIRE_UPDATE_ATTEMPTS = 4
  MaxNow = 1
  GuestOps <- WfiOps
  Times = {}
  Compares = {1, 7}
  Enabled = {"M"}
INVARIANT ExpiryNotifiesWait
