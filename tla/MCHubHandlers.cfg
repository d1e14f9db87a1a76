SPECIFICATION FairSpec
CONSTANTS
  Client = {c1}
  Slow = {}
  InCap = 1
  ClientBufCap = 1
  MaxEvents = 1
  Kinds = {"important"}
  ScanMayEnd = TRUE
  Leaving = {}
PROPERTIES
  HandlersEnd
CHECK_DEADLOCK FALSE
