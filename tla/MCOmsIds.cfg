SPECIFICATION Spec
CONSTANTS
  k1 = k1
  k2 = k2
  b1 = b1
  b2 = b2
  NoKey = NoKey
  NoBroker = NoBroker
  Key <- Keys
  BrokerId <- BrokerIds
  OrderQty = 1
  MaxId = 3
  MaxFilled = 1
  MaxSock = 0
  MaxSync = 2
  MaxAge = 1
  FillTimeout = 0
  OrderTimeout = 0
  CancelTimeout = 0
  Lags <- NoLag
  FillSizes <- UnitFill
  ReportStatus <- LiveReport
  SyncStatus <- LiveReport
  SyncFilled <- NothingFilled
SYMMETRY Symmetry
INVARIANTS
  TypeOK
  KeyNamesOneOrder
  BrokerIdFindsOrder
PROPERTIES
  ReconcileAgrees
  RegistrySpec
