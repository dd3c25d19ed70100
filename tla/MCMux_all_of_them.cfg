SPECIFICATION Spec
CONSTANTS
  a = a
  b = b
  r1 = r1
  r2 = r2
  Req = {r1, r2}
  Provider <- MCProvider
  HardMax <- MCHardMax
  InitialK = 2
  StreakThreshold = 2
  FailureThreshold = 1
  ChannelCapacity = 1
  Shapes <- MCOversized
  Outcomes = {"ok", "rate_limited"}
  Responsive <- MCProvider
  Leavers = {}
  MayClose = FALSE
SYMMETRY MCSymmetry
INVARIANTS
  AllMeansAll
CHECK_DEADLOCK FALSE
