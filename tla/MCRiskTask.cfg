SPECIFICATION RiskFairSpec
CONSTANTS
  s1 = s1
  Symbol <- One
  InitialMaxLoss = 12
  Ladder <- TwoSteps
  MaxDayTrades = 1
  PdtDays = 2
  Capital = 60
  OrderCap = 1
  MaxDay = 3
  Price <- Prices
  FillSize <- Sizes
  ExitGross = 20
  FastPnl <- FastValues
  MaxQty = 2
  MaxFills = 4
INVARIANTS
  BooksBalance
  RatchetRemembers
  DayTradesCounted
  ProceedsLocked
PROPERTIES
  BreachShutsDown
