SPECIFICATION FairSpec
CONSTANTS
  c1 = c1  c2 = c2
  Nodes <- Branch
  Kind <- BranchKind
  Chain <- BranchChain
  InitialRows <- FolderRows
  Batches <- SecretBatches
  Calls <- TwoCalls
  MaxErrors = 1
INVARIANTS TypeOK SnapshotOnce CascadeReachesOlder
PROPERTIES HandlersEnd
