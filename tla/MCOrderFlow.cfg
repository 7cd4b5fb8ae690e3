SPECIFICATION FlowSpec
CONSTANTS
  k1 = k1
  k2 = k2
  NoKey = NoKey
  NoBroker = NoBroker
  Key <- OneKey
  BrokerId <- FromOne
  FirstBrokerId = 1
  SymbolOf <- OneSymbol
  OrderQty = 2
  MaxId = 2
  MaxFilled = 4
  MaxSock = 1
  MaxSync = 2
  MaxInbox = 3
  MaxAge = 1
  FillTimeout = 0
  OrderTimeout = 0
  CancelTimeout = 0
  Lags <- NoLag
  FillSizes <- UnitFill
  ReportStatus <- Reports
  SyncStatus <- Reports
  SyncFilled <- Filled

INVARIANTS
  
  FilledIsTrue
CHECK_DEADLOCK FALSE
