SPECIFICATION Spec
CONSTANTS
  u1 = u1  u2 = u2  i1 = i1  i2 = i2  r1 = r1  r2 = r2
  Users <- OneUser
  Instances <- OneInstance
  Requests <- OneRequest
  Operations <- Logouts
  MaxTime = 3
  TicksPerSecond = 2
  TokenTTL = 3
  MaxFailures = 0
  Absent = Absent
INVARIANTS RefusedHereAfterLogout
