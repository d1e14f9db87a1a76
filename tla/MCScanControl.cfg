SPECIFICATION FairSpec
CONSTANTS
  Handler = {h1}
  ControlCap = 1
  MaxCommands = 4

  
PROPERTIES
  RequestsEnd
  StopEnds
CHECK_DEADLOCK FALSE
