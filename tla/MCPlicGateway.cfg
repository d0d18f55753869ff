SPECIFICATION FairSpec
CONSTANTS
  hart = hart
  terminal = terminal
  Driven = {1}
  OwnDriven = {1}
  Tuned = {1}
  Sources = {1, 2}
  Contexts <- MCContexts
  Priorities = {0, 1}
  Threads <- MCThreads
  Workload <- MCWorkload
INVARIANTS GatewayExact ServiceExclusive WiresSettled NoLostWake IInv
PROPERTIES ReleasedByOwner RefinesAtomic WireFollows
