SPECIFICATION FairSpec
CONSTANTS
  Provider = {p, q}
  FailureThreshold = 2
  Initial = 2
  MaxDuration = 4
  Multiplier = 2
  ProbeInterval = 1
  MaxProbes = 4
  Answers = {"ok", "error"}
  Answering = {p}
  Prompt = TRUE
  MaxLive = 2
INVARIANTS
  HealthTypeOK
  BinnedIsProbed
PROPERTIES
  ImplementsSinBin
  RecoveryHolds
  EveryBinEnds
CHECK_DEADLOCK FALSE
