SPECIFICATION Spec
CONSTANTS
  NFiles = 3
  Threads = 3
  Capacity = 0
  Size <- MCSize
  XMLFiles <- MCXMLFiles
  FreeSpaceCheck = TRUE
  FreeSpaces <- MCFreeSpaces
INVARIANTS
  TypeOK
  ExclusiveFiles
  BytesAccounted
  NothingLeftBehind
  ClearedAfterThreads
PROPERTIES
  ImplementsLedger
