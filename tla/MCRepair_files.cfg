SPECIFICATION FairSpec
CONSTANTS
  NFiles = 2
  SizeOf <- MCSizeOf
  InitialDisk <- MCInitialDisk
  Download = TRUE
  Retries = 1
  MaxFaults = 4
INVARIANTS
  TypeOK
  RepairedIsRight
  DownloadedIsWhole
PROPERTIES
  RightChunksKept
  RepairEnds
