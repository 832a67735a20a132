SPECIFICATION FairSpec
CONSTANTS
  u1 = u1  u2 = u2  i1 = i1  i2 = i2  r1 = r1  r2 = r2
  Users <- OneUser
  Instances <- TwoInstances
  Requests <- OneRequest
  Operations <- AllOps
  MaxTime = 2
  TicksPerSecond = 2
  TokenTTL = 3
  MaxFailures = 1
  Absent = Absent
PROPERTIES CachesConverge RevokedTokensDieOut
INVARIANTS TypeOK StampsAreGenuine RefusedOnlyAfterLogout
