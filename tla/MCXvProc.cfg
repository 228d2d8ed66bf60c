CONSTANTS
  NPROC = 3
  Calls = {"fork","exit","wait","pause","call","io","fault"}
  MaxPid = 3
  KillPids = {0,2,3}
  IOChans = {disk}
  TICKS = ticks
SPECIFICATION FairSpec
INVARIANTS TypeOK RunnerAgrees ParentCanWait OneForker NoLostExit NoLostKill PidsUnique
PROPERTIES ImplementsProcLife KilledDies
