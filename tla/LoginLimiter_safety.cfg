SPECIFICATION LimiterSpec
CONSTANTS
  a1 = a1  a2 = a2  a3 = a3
  Attempts <- ThreeAttempts
  MaxAttempts = 2
  Window = 2
  LockoutPeriod = 3
  MaxErrors = 1
SYMMETRY Symmetry
INVARIANTS FailuresBounded
PROPERTIES LockoutNotProlonged
