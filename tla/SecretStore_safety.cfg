SPECIFICATION FairSpec
CONSTANTS
  c1 = c1  c2 = c2
  Ids <- MCIds
  Folders <- MCFolders
  FolderOf <- MCFolderOf
  Keys <- MCKeys
  Values <- MCValues
  Comments <- MCComments
  Initial <- MCInitial
  Calls <- TwoCalls
  Requests <- MCRequests
  MaxRequests = 3
  MaxValues = 2
  MaxErrors = 1
INVARIANTS TypeOK KeysUnique VersionsCountUpdates SnapshotsAreGenuine RevealsAudited
PROPERTIES ImplementsTable HandlersEnd
CHECK_DEADLOCK FALSE
