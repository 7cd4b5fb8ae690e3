SPECIFICATION SFairSpec
CONSTANTS
  s1 = s1
  s2 = s2
  s3 = s3
  Symbol <- Two
  MaxA = 1
  MaxB = 2
  MaxC = 1
  MaxSubscriptions = 2
  TickReady = 1
  DemotionCycles = 2
  EvictionCycles = 2
  MaxCycles = 2
  MaxTs = 0
  SubLimit = 3
  SubWarn = 2
PROPERTIES
  ColdSymbolLeaves
  WatchlistSpec
