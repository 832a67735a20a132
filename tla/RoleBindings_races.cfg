SPECIFICATION Spec
CONSTANTS
  c1 = c1  c2 = c2
  w1 = w1  w2 = w2  w3 = w3  w4 = w4
  ann = ann  bob = bob  cid = cid
  Users <- ThreeUsers
  Calls <- TwoCalls
  Rows <- ThreeRows
  Roles <- EnvRoles
  RolePermissions <- EnvPermissions
  RoleScope <- EnvRoleScope
  Scopes <- EnvScopes
  ScopeType <- EnvScopeType
  Chain <- EnvChain
  InitialRows <- OneEnvAdmin
  MayExpire = TRUE
SYMMETRY OneAdminSymmetry
INVARIANTS TypeOK UniqueBelowGlobal AuthorityIsClosed
