CONSTANTS
  NPROC = 2
  NPAGE = 20
  PGSIZE = 2
  NPTE = 3
  LEVELS = 3
  UINT64 = 64
  Incr <- Incrs
  MAXSZ = 6
  Store = {0}
  Program <- Programs
SPECIFICATION Spec
INVARIANTS  AddressSpace NoPanic
VIEW View
