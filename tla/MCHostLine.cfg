SPECIFICATION HostSpec
CONSTANTS
  Workload <- InjectedProcesses
  LastTick = 5
  Jitter = 1
  Mirror <- InjectedPids
  Prefix = 80
  LINE = 99
  MAX_RULES = 2
  STARVATION_MULTIPLIER = 1
  MIN_STARVATION_WAIT_TICKS = 1
  MIN_COMPLETED_FOR_STARVATION = 2
  STARVATION_THRESHOLD = 2
  THRUPUT_THRESHOLD = 300
  PREEMPT_THRESHOLD = 80
  RESPONSE_THRESHOLD = 100
  Answers <- AllAnswers
  Followed = {}
  Others <- OtherRuns
CHECK_DEADLOCK FALSE
INVARIANTS AppliedIsReceived
