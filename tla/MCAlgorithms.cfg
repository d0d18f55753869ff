INIT AlgorithmsInit
NEXT AlgorithmsNext
CONSTANTS
  PLIC_MAX_SOURCE = 4
  Priorities = {0, 1, 2}
  Parcels <- MCParcels
  HotParcels <- MCHotParcels
  MaxEntries = 3
  ByteBits = 2
  Count = 4
  Registers = {0, 1, 2}
  InitialStates <- MCInitialStates
  Program <- MCProgram
  Layouts <- MCLayouts
  GuestAddresses = {0, 1, 2, 3, 4, 5, 6, 7, 8, 9, 10, 11}
  StoreSources <- MCStoreSources
  MaxStores = 2
  REGION_HOST_ALIGN = 4
  PMP_ENTRY_COUNT = 3
  ENTRIES_PER_CFG = 2
  PmpAddressBits = 3
  CfgBytes <- MCCfgBytes
  PmpAddresses = {1, 3, 12}
  Starts = {0, 3, 4, 14, 16, 32}
INVARIANTS
  SelectsBest
  DecodesExactly
  CacheFaithful
  ResolvesExactly
  DeniesExactly
PROPERTIES
  ExecutesPerManual
  StoreIsExact
  LockedForGood
CHECK_DEADLOCK FALSE
