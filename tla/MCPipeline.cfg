SPECIFICATION PipelineSpec
CONSTANTS
  Mirror <- MirrorPids
  Prefix = 28
  LINE = 99
  MAX_RULES = 2
  Requests <- CommandLines
  Answers <- ModelAnswers
  Rules <- RuleAnswers
  Demo <- DemoFixtures
  Measured <- MeasuredOn
  Detected <- DetectedIn
  MaxRuns = 2
  MaxFaults = 2
CHECK_DEADLOCK FALSE
INVARIANTS PublishedIsThisRun LearnsTruth PromptHidesAnswers CorrectionConfirms
