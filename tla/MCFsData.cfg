CONSTANTS
  Proc = {"p1", "p2"}
  File = {"x1", "x2"}
  Opened <- Open
  byte <- Bytes
  BSIZE = 2
  NDIRECT = 1
  NINDIRECT = 2
  MAXOPBLOCKS = 6
  nmeta = 3
  size = 7
  UINT = 32
  Count = {3, 31}
  Nobody = "nobody"
SPECIFICATION Spec
INVARIANTS BitmapExact  ReadInside TxnFits
