SPECIFICATION Spec
CONSTANTS
  Products <- MCProducts
  Platforms = {"windows", "linux"}
  Languages = {"en", "fr", "de"}
  Specific <- MCSpecific
  Ops = {"update", "download", "orphans", "both"}
  Account <- MCTwo
  Bought <- MCNone
  OwnedDLCs = {"blood"}
  PageSize = 1
  Configs <- MCConfigs
  Threads = 1
  Retries = 1
  TokenLife = 0
  CacheValid = 0
  Files <- MCJunk
  MaxFaults = 1
PROPERTIES
  CachedLikeAsked
  OrphansUnwanted
