SPECIFICATION FairSpec
CONSTANTS
  NFiles = 3
  Threads = 2
  Capacity = 0
  Size <- MCSize
  XMLFiles <- MCXMLFiles
  FreeSpaceCheck = TRUE
  FreeSpaces <- MCFreeSpaces
PROPERTIES
  NoticesAllFinished
