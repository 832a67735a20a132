CONSTANTS
  Nodes <- MCNodes
  Kind <- MCKind
  Up <- MCUp
  Held <- MCHeld
  Initial <- MCInitial
  Scenarios <- Renamed
  Names = {1, 2}
  Calls = {c1, c2}
  Readers = {r1}
SPECIFICATION TreeSpec
CHECK_DEADLOCK FALSE
INVARIANTS ChildrenKept
