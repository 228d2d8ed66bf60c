SPECIFICATION HostSpec
CONSTANTS
  Workload <- Processes
  LastTick = 5
  Jitter = 1
  Mirror <- MirrorPids
  Prefix = 28
  LINE = 75
  MAX_RULES = 2
  STARVATION_MULTIPLIER = 1
  MIN_STARVATION_WAIT_TICKS = 1
  MIN_COMPLETED_FOR_STARVATION = 2
  STARVATION_THRESHOLD = 2
  THRUPUT_THRESHOLD = 300
  PREEMPT_THRESHOLD = 80
  RESPONSE_THRESHOLD = 40
  Answers <- AllAnswers
  Followed <- FollowedAnswers
  Others <- OtherRuns
CHECK_DEADLOCK FALSE
INVARIANTS AppliedWithinLine WindowIsTheRun MeasuredIsTrue  ProposalPassesGuard
