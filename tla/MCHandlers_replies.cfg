SPECIFICATION FairSpec
CONSTANTS
  Http = {h1}
  MaxSubs = 3
  Name = {"a", "b", "x"}
  Registered = {"a", "b"}
  Bodies <- MCBodies
  Failures <- MCFailures
INVARIANTS
  HandlersTypeOK
  PolicyKept
  ResultsInOrder
  RateLimitsPassThrough
  RetryAfterIsEnough
PROPERTIES
  EveryHttpReplied
CHECK_DEADLOCK FALSE
