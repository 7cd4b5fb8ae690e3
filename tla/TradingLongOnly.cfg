SPECIFICATION TradingSpec
CONSTANTS
  s1 = s1
  s2 = s2
  Symbol <- One
  TierA <- One
  InitialMaxLoss = 12
  Ladder <- NoLadder
  MaxDayTrades = 3
  PdtDays = 5
  Capital = 48
  OrderCap = 3
  MaxDay = 1
  Price <- Prices
  FillSize <- UnitSize
  ExitGross = 20
  FastPnl <- NoValue
  MaxQty = 4
  MaxFills = 3
  DailyTarget = 12
  GrossTarget = 24
  MaxOrder = 2
  QueueCap = 2
  MaxWorking = 2
  MaxEvents = 4
  MaxSteps = 7
  Kinds <- NoSync
INVARIANT
  LongOnly
