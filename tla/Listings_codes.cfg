CONSTANTS
  Nodes <- MCNodes
  Kind <- MCKind
  Up <- MCUp
  Code <- MCCode
  Key <- MCKey
  InitialLive = {"o", "p", "e1", "e2", "f", "g", "ff", "s1", "s2", "t1", "u1"}
  Unborn = {"s0"}
  InitialHeld <- MCHeld
  Grants <- MCGrants
  Queries <- MCQueries
  DefaultPageSize = 2
  MaxPageSize = 4
  MaxChanges = 0
SPECIFICATION Spec
CHECK_DEADLOCK FALSE
INVARIANTS CodeRevealsFolder
