SPECIFICATION LimiterFairSpec
CONSTANTS
  a1 = a1  a2 = a2  a3 = a3
  Attempts <- TwoAttempts
  MaxAttempts = 2
  Window = 2
  LockoutPeriod = 3
  MaxErrors = 0
PROPERTY LockoutLifts
