SPECIFICATION FairSpec
CONSTANTS
  a = a
  b = b
  r1 = r1
  r2 = r2
  Req = {r1, r2}
  Provider <- MCProvider
  HardMax <- MCHardMax
  InitialK = 2
  StreakThreshold = 1
  FailureThreshold = 2
  ChannelCapacity = 1
  Shapes <- MCHard
  Outcomes = {"ok", "short", "other", "panic"}
  Responsive <- MCProvider
  Leavers = {}
  MayClose = TRUE
INVARIANTS
  MuxTypeOK
  OwnEmbeddings
  SendersHeldOnce
PROPERTIES
  ShutdownCompletes
CHECK_DEADLOCK FALSE
