SPECIFICATION FairSpec
CONSTANTS
  Op = {o1, o2, o3}
  Block = {b1, b2}
  Absent = Absent
  Val = {0, 1}
  MAXOPBLOCKS = 3
  OpBlocks = 2
PROPERTIES Atomic DurableOnReturn SleepersWake
