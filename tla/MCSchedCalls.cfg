CONSTANTS
  NPROC = 2
  MaxPid = 2
  Calls = {"fork","exit","wait","pause","call","fault"}
  KillPids = {2}
  IOChans = {disk}
  TICKS = ticks
  BootConfigs <- BootCalling
  DefaultPriority = 0
  Modes = {"MLFQ"}
  RRQuanta = {1,0}
  AgingThresholds = {2}
  MlfqParams <- McMlfq
  MlfqBoosts = {2}
  PredictorParams <- McPred
  Priorities = {0,21}
  Hints = {5}
  MaxTicks = 1
  MaxBurst = 1
  MaxWait = 2
  MaxCount = 2
SPECIFICATION HSpec
INVARIANTS NoLongSlice
PROPERTIES PredictionMoves
