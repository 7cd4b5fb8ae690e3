SPECIFICATION TradingSpec
CONSTANTS
  s1 = s1
  s2 = s2
  Symbol <- Two
  TierA <- Two
  InitialMaxLoss = 12
  Ladder <- NoLadder
  MaxDayTrades = 3
  PdtDays = 5
  Capital = 48
  OrderCap = 1
  MaxDay = 1
  Price <- Prices
  FillSize <- UnitSize
  ExitGross = 20
  FastPnl <- NoValue
  MaxQty = 4
  MaxFills = 3
  DailyTarget = 12
  GrossTarget = 24
  MaxOrder = 2
  QueueCap = 2
  MaxWorking = 1
  MaxEvents = 3
  MaxSteps = 5
  Kinds <- AllKinds
SYMMETRY Symmetry
INVARIANTS
  GlobalsAreSums
  TrackersFollowBook
  TrackersAgree
