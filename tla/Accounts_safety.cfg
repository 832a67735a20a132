CONSTANTS
  c1 = c1  c2 = c2  i1 = i1  i2 = i2
  Ids = {1, 2, 3}
  Emails = {"ann", "bob"}
  NoEmail = ""
  Staff = {"s1"}
  Passwords = {"one", "two", "three"}
  BootstrapId = 2
  Pats = {1}
  Instances <- TwoInstances
  Calls <- TwoCalls
  Requests <- MCRequests
  Standing <- OneAccount
  MaxTime = 1
  MaxCalls = 3
SYMMETRY Symmetry
SPECIFICATION Spec
CHECK_DEADLOCK FALSE
INVARIANTS FirstIsAdmin CredentialsInForce KnownPersonsResolve
