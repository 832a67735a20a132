SPECIFICATION Spec
CONSTANTS
  c1 = c1  c2 = c2  w1 = w1  s1 = s1
  Ids <- MCIds
  Folders <- MCFolders
  FolderOf <- MCFolderOf
  Keys <- MCKeys
  Values <- MCValues
  Comments <- MCComments
  Initial <- MCInitial
  Requests <- MCRequests
  Calls <- TwoCalls
  Warmers <- OneWarmer
  Searches <- OneSearch
  Keyword = "new"
  Limit = 1
  Readable <- OnlyA
  MaxRequests = 2
  MaxErrors = 1
INVARIANTS AnsweredOnce
CHECK_DEADLOCK FALSE
