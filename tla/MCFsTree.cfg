CONSTANTS
  Proc = {"p1", "p2"}
  InitProc = "p1"
  Name = {"d", "f"}
  Call <- Calls
  NINODES = 3
  NINODE = 4
  NFILE = 1
  NOFILE = 2
SPECIFICATION Spec
INVARIANTS  CrashConsistent CacheCoherent RefsExact
