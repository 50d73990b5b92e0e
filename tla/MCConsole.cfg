CONSTANTS
  Writer = {w1, w2}
  Reader = {r1, r2}
  Printer = {"printf"}
  UART_TX_BUF_SIZE = 2
  INPUT_BUF_SIZE = 2
  UINT = 4
  FIFO = 3
  Workload <- Loads
  Count = {1, 2}
  x = x
  NL = NL
  EOF = EOF
  BS = BS
  KILL = KILL
  PROCS = PROCS
  echoed = echoed
  Nobody = Nobody
SPECIFICATION Spec
INVARIANTS OutputInOrder OutputNotStuck InputExact InputNotStuck
