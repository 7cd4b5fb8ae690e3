SPECIFICATION FairSpec
CONSTANTS
  HeartbeatTimeout = 2
  NotifyCap = 8
  HardFailTicks = 2
  RiskOffPossible = TRUE
INVARIANTS
  TypeOK
  LastWord
  OwnGateClosed
PROPERTIES
  
  AbsenceClosesGate
  RestorationArrives
