SPECIFICATION FairSpec
CONSTANTS
  a = a
  b = b
  r1 = r1
  r2 = r2
  Req = {r1, r2}
  Provider <- MCProvider
  HardMax <- MCHardMax
  InitialK = 2
  StreakThreshold = 1
  FailureThreshold = 3
  ChannelCapacity = 1
  Shapes <- MCLive
  Outcomes = {"ok", "rate_limited", "panic"}
  Responsive <- MCProvider
  Leavers = {r1}
  MayClose = FALSE
INVARIANTS
  BatchesFit
  NobodyForgotten
  KInRange
PROPERTIES
  EveryRequestSettles
CHECK_DEADLOCK FALSE
