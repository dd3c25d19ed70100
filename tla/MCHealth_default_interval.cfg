SPECIFICATION FairSpec
CONSTANTS
  Provider = {p}
  FailureThreshold = 2
  Initial = 2
  MaxDuration = 4
  Multiplier = 2
  ProbeInterval = 2
  MaxProbes = 2
  Answers = {"ok"}
  Answering = {p}
  Prompt = TRUE
  MaxLive = 2
PROPERTIES
  RecoveryHolds
CHECK_DEADLOCK FALSE
