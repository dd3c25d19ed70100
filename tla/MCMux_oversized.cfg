SPECIFICATION FairSpec
CONSTANTS
  a = a
  b = b
  r1 = r1
  r2 = r2
  Req = {r1, r2}
  Provider <- MCProvider
  HardMax <- MCHardMax
  InitialK = 2
  StreakThreshold = 2
  FailureThreshold = 1
  ChannelCapacity = 1
  Shapes <- MCOversized
  Outcomes = {"ok"}
  Responsive <- MCProvider
  Leavers = {}
  MayClose = FALSE
PROPERTIES
  EveryRequestSettles
CHECK_DEADLOCK FALSE
