SPECIFICATION Spec
CONSTANTS
  c1 = c1  c2 = c2
  Nodes <- Branch
  Kind <- BranchKind
  Chain <- BranchChain
  InitialRows <- OrgRows
  Batches <- OrgBatches
  Calls <- TwoCalls
  MaxErrors = 0
SYMMETRY Symmetry
INVARIANTS UnforcedDeletesNothingElse
