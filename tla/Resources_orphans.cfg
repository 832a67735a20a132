SPECIFICATION Spec
CONSTANTS
  c1 = c1  c2 = c2
  Nodes <- Branch
  Kind <- BranchKind
  Chain <- BranchChain
  InitialRows <- FolderRows
  Batches <- SecretBatches
  Calls <- OneCall
  MaxErrors = 0
INVARIANTS NoOrphans
