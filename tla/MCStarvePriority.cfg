CONSTANTS
  NPROC = 3
  MaxPid = 3
  Calls = {"fork"}
  KillPids = {}
  IOChans = {disk}
  TICKS = ticks
  BootConfigs <- BootPriority
  DefaultPriority = 2
  Modes = {}
  RRQuanta = {}
  AgingThresholds = {}
  MlfqParams = {}
  MlfqBoosts = {}
  PredictorParams = {}
  Priorities = {}
  Hints = {}
  MaxTicks = 1
  MaxBurst = 1
  MaxWait = 4
SPECIFICATION FairSchedSpec
PROPERTIES NoPermanentStarvation
