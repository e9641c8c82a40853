SPECIFICATION Spec
CONSTANTS
  NFiles = 2
  SizeOf <- MCSizeOf
  InitialDisk <- MCInitialDisk
  Download = TRUE
  Retries = 1
  MaxFaults = 1
INVARIANTS
  StartsFromTheBeginning
