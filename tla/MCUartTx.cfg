SPECIFICATION FairSpec
CONSTANTS
  UART_QUEUE_CAPACITY = 3
  Bytes = {1, 2}
  StdinBytes = {}
  GuestOps <- TransmitOps
  IerStores = {}
CHECK_DEADLOCK FALSE
INVARIANTS LineStatusKept SleepsOnlyWhenEmpty StopFlushes
PROPERTIES TxIsFifo StopExits
