SPECIFICATION Spec
CONSTANTS
  Proc = {p1, p2}
  MaxN = 4
  UART_TX_BUF_SIZE = 3
  MaxTyped = 1
  None = None
CHECK_DEADLOCK FALSE
INVARIANTS NoPanic
