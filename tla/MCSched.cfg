SPECIFICATION FairSpec
CONSTANTS
  CPU = {c1, c2}
  Proc = {p1, p2, p3}
  Chan = {h1}
  NoCpu = NoCpu  NoProc = NoProc  NoChan = NoChan
  MaxEvents = 1
INVARIANTS OneCpuPerThread
PROPERTIES SleepIsAtomic RunnableRuns
