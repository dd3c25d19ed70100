SPECIFICATION FairSpec
CONSTANTS
  MaxRetries = 4
  PerAttemptCap = 3
  CumulativeCap = 7
  DefaultBase = 1
  Exchanges <- MCExchanges
  Texts = 2
INVARIANTS
  RetryTypeOK
  SleepWithinBudget
  RateLimitIsRetried
PROPERTIES
  CallReturns
CHECK_DEADLOCK FALSE
