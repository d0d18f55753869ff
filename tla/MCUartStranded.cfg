SPECIFICATION Spec
CONSTANTS
  UART_QUEUE_CAPACITY = 3
  Bytes = {1}
  StdinBytes = {}
  GuestOps <- TransmitOps
  IerStores = {}
CHECK_DEADLOCK FALSE
INVARIANT NoByteStranded
