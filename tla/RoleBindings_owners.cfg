SPECIFICATION Spec
CONSTANTS
  c1 = c1  c2 = c2
  w1 = w1  w2 = w2  w3 = w3  w4 = w4
  ann = ann  bob = bob  cid = cid
  Users <- ThreeUsers
  Calls <- TwoCalls
  Rows <- FourRows
  Roles <- OwnerRoles
  RolePermissions <- OwnerPermissions
  RoleScope <- OwnerRoleScope
  Scopes <- OwnerScopes
  ScopeType <- OwnerScopeType
  Chain <- OwnerChain
  InitialRows <- TwoOwners
  MayExpire = FALSE
SYMMETRY Symmetry
PROPERTIES LastOwnerLostInRace
