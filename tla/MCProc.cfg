SPECIFICATION FairSpec
CONSTANTS
  Proc = {init, p1, p2}
  initproc = init
  NoProc = NoProc
  MaxPid = 5
  KillArgs = {2, 3}
INVARIANTS ParentCanWait FreedIsOff
PROPERTIES ZombieReaped 
