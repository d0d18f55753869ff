SPECIFICATION FairSpec
CONSTANTS
  TwoTo64 = 8
  NsPerTick = 1
  TIMER_WIRE_UPDATE_ATTEMPTS = 2
  MaxNow = 1
  GuestOps <- SstcOps
  Times = {}
  Compares = {1, 7}
  Enabled = {"S"}
INVARIANTS SleepsOnlyIfQuiet
PROPERTIES StipFollowsCompare TimerWireFollows WfiReturns
