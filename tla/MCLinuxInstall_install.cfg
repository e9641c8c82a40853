SPECIFICATION FairSpec
CONSTANTS
  TailSize = 6
  MaxOffset = 5
  MaxCount = 6
  Installers <- MCInstallers
  Games <- MCGames
  Listed <- MCListed
  Blacklisted = {"manual"}
  MemoryLimit = 2
  Retries = 1
  Threads = 2
  ThreadsFor <- MCThreadsFor
  MaxFaults = 2
INVARIANTS
  TypeOK
  RangesExact
  TransfersWhole
  PlainFilesRight
  SplitFilesRight
PROPERTIES
  RunEnds
