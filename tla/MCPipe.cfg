SPECIFICATION Spec
CONSTANTS
  Writer = {w1, w2}
  Reader = {r1, r2}
  Byte = {a, b}
  PIPESIZE = 2
  UINT = 4
  MaxN = 2
  NoProc = NoProc
SYMMETRY Symm
CHECK_DEADLOCK FALSE
INVARIANTS SleepJustified NoUseAfterFree
PROPERTIES IsFifo
