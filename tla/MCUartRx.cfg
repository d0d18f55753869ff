SPECIFICATION Spec
CONSTANTS
  UART_QUEUE_CAPACITY = 3
  Bytes = {1, 2}
  StdinBytes = {1, 2}
  GuestOps <- ReceiveOps
  IerStores = {{"ERBFI", "ETBEI"}}
CHECK_DEADLOCK FALSE
PROPERTIES RxIsFifo
