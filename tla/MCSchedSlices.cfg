CONSTANTS
  NPROC = 3
  MaxPid = 3
  Calls = {"fork","io"}
  KillPids = {}
  IOChans = {disk}
  TICKS = ticks
  BootConfigs <- BootSlicing
  DefaultPriority = 2
  Modes = {}
  RRQuanta = {}
  AgingThresholds = {}
  MlfqParams = {}
  MlfqBoosts = {}
  PredictorParams = {}
  Priorities = {}
  Hints = {}
  MaxTicks = 1
  MaxBurst = 1
  MaxWait = 3
  MaxCount = 2
SPECIFICATION HSpec
INVARIANTS RRNoOvertake HelpInTime ArrivalOrder
PROPERTIES FullSlice QueueMoves FcfsOrder
