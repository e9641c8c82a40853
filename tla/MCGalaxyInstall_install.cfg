SPECIFICATION Spec
CONSTANTS
  base = base
  dlc = dlc
  Manifest <- MCManifest
  NPaths = 8
  Base = base
  Container <- MCContainer
  Info = 3
  FullMatch = {8}
  RelativeMatch = {}
  Ignored = {}
  DeleteOrphans = TRUE
  Threads = 2
  MaxFaults = 2
INVARIANTS
  TypeOK
  TwoRunsSuffice
  OnlyTheBuildLeft
PROPERTIES
  IntactFilesKept
