SPECIFICATION Spec
CONSTANTS
  Products <- MCProducts
  Platforms = {"windows", "linux"}
  Languages = {"en", "fr", "de"}
  Specific <- MCSpecific
  Ops = {"download"}
  Account <- MCOne
  Bought <- MCBought
  OwnedDLCs = {"blood"}
  PageSize = 1
  Configs <- MCConfigs
  Threads = 2
  Retries = 1
  TokenLife = 0
  CacheValid = 0
  Files <- MCJunk
  MaxFaults = 1
INVARIANTS
  TypeOK
  ListingComplete
  DetailsRight
