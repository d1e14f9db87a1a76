SPECIFICATION FairSpec
CONSTANTS
  Client = {c1, c2}
  Slow = {c2}
  InCap = 1
  ClientBufCap = 1
  MaxEvents = 2
  Kinds = {"important", "stats", "hit"}
  ScanMayEnd = TRUE
  Leaving = {c1}
INVARIANTS
  TypeOK
  ImportantInOrder
  HitsCounted
PROPERTIES
  TelemetryFresh
  Served
  
  
CHECK_DEADLOCK FALSE
