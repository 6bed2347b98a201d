SPECIFICATION RSpec
CONSTANTS
  w1 = w1
  r1 = r1
  b1 = b1
  Proc = {w1, r1, b1}
  Fds <- Three
  Killable = {b1}
  Byte = {0, 1}
  Length = {3}
  PIPESIZE = 2
  UINT = 4
  c1 = c1
  c2 = c2
  Letter = {"a"}
  MaxRead = 2
  INPUT_BUF = 3
  CUINT = 6
  u1 = u1
  u2 = u2
  MaxWrite = 2
  UART_TX_BUF_SIZE = 3
  MaxTyped = 1
  None = None
INVARIANTS SleepWithCause FreedUnused NeverWedged Unmixed
PROPERTIES InOrder LineEditor
