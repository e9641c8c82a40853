SPECIFICATION FairSpec
CONSTANTS
  NVersions = 3
  SizeOf <- MCSizeOf
  Types = {"installer", "extra"}
  Options <- MCOptions
  Retries = 1
  MaxFaults = 3
INVARIANTS
  TypeOK
  XMLVouches
  WholeWhenDone
  StatusSound
PROPERTIES
  OldVersionKept
  DescribedExtraKept
  Converges
