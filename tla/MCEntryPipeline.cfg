SPECIFICATION Spec
CONSTANTS
  MaxFlicker = 2
  FlickerWindow = 3
  BlockTtl = 1
  MaxStaleness = 3
  MaxSpread = 5
  MinLiquidity = 200
  MaxImbalance = 70
  SlippageTol = 3
  Sym = "sym"
  Price = {1000}
  Quote <- MCQuote
  Metrics <- MCMetrics
  Volume = {2500}
  Cash = {1000000}
  TenthEarned = {TRUE}
  HeldElsewhere = {{"mine"}, {"tech"}}
  Sector <- MCSector
  Correlation <- MCCorrelation
  Regime = {"Caution"}
  Context = {"Play"}
  MtfResult = {TRUE}
  MaxSkew = 1
  MaxTime = 4
  WarmTicks = 2
  MinuteOf <- MCMinuteOf
  PreAfterEnabled = FALSE
  Gates <- MCGates
  Weights <- MCWeights
  Sizing <- MCSizing
  Fees <- MCFees
INVARIANT ActivityEarned
PROPERTIES BlockHolds WindowSpec
CHECK_DEADLOCK FALSE
