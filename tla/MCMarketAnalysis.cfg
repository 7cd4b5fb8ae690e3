SPECIFICATION Spec
CONSTANTS
  PlayRatio = 2
  StrongRatio = 3
  SectorMin = 2
  ChurnMax = 10
  RequireAll = TRUE
  StaleAfter = 1
  RegimeParams <- MCRegimeParams
  Events <- MCEvents
  CalendarFile = "loaded"
  StaleDays = 7
  Price = {100, 103}
  Snap <- MCSnap
  Sector = {3}
  RegimeInput <- MCRegimeInput
  PriceHistory = 2
  ChurnWindow = 1
  Clock <- MCClock
  MaxTime = 3
  MaxInputs = 6
 
PROPERTIES  ConfirmationFresh
CHECK_DEADLOCK FALSE
