SPECIFICATION FairSpec
CONSTANTS
  k1 = k1
  k2 = k2
  b1 = b1
  b2 = b2
  NoKey = NoKey
  NoBroker = NoBroker
  Key <- Keys
  BrokerId <- OneBrokerId
  OrderQty = 1
  MaxId = 2
  MaxFilled = 1
  MaxSock = 1
  MaxSync = 0
  MaxAge = 2
  FillTimeout = 0
  OrderTimeout = 1
  CancelTimeout = 0
  Lags <- LateEvents
  FillSizes <- UnitFill
  ReportStatus <- LiveReport
  SyncStatus <- LiveReport
  SyncFilled <- NothingFilled
INVARIANT TickCancelsOpenOrders
PROPERTIES
  CancelResolves
  OpenOrderResolves
