SPECIFICATION Spec
CONSTANTS
  Programs <- MCPrograms
  Resets <- MCResets
  Executable <- MCExecutable
  DeviceWires <- MCDeviceWires
  AddressSize = 8
  CounterSize = 2
INVARIANTS Legal RetiredOnce PendingOwned
PROPERTIES SupervisorConfined ReturnsToInterrupted
