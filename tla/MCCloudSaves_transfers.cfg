SPECIFICATION FairSpec
CONSTANTS
  NSaves = 2
  NVersions = 2
  SizeOf <- MCSizeOf
  Options <- MCOptions
  Threads = 2
  Retries = 1
  MaxFaults = 2
INVARIANTS
  TypeOK
  ExclusiveSaves
PROPERTIES
  InPlaceAsOnServer
  OperationEnds
  UploadsReach
