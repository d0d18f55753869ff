SPECIFICATION Spec
CONSTANTS
  UART_QUEUE_CAPACITY = 2
  Bytes = {1}
  StdinBytes = {1}
  GuestOps <- InterruptOps
  IerStores = {{}, {"ERBFI", "ETBEI"}}
CHECK_DEADLOCK FALSE
INVARIANT IrqFollows
