SPECIFICATION WSpec
CONSTANTS
  s1 = s1
  s2 = s2
  s3 = s3
  Symbol <- Three
  MaxA = 1
  MaxB = 2
  MaxC = 1
  MaxSubscriptions = 1
  TickReady = 1
  DemotionCycles = 1
  EvictionCycles = 2
  MaxCycles = 2
  MaxTs = 1
SYMMETRY Symmetry
INVARIANTS
  WTypeOK
  OneTierPerSymbol
  WithinSubscriptions
  WithinBudget
PROPERTIES
  OneTierAtATime
