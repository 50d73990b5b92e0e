SPECIFICATION Spec
CONSTANTS
  Proc = {p1, p2}
  Block = {d1, d2, d3, d4}
  Value = {v1, v2}
  Buf = {k1, k2, k3}
  MaxPins = 1
  NoProc = NoProc
  NoBlock = NoBlock
  NoBuf = NoBuf
SYMMETRY Symm
INVARIANTS SleeperHasHolder
PROPERTIES IsStore
