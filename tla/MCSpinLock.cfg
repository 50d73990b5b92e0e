SPECIFICATION FairSpec
CONSTANTS
  CPU = {c1, c2}
  Lock = {1, 2}
  NoCpu = NoCpu
INVARIANTS MutualExclusion
PROPERTIES AcquireReturns
