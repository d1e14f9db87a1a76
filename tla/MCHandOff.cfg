SPECIFICATION FairSpec
CONSTANTS
  i1 = i1
  Item = {i1, i2, i3}
  Start = {i1, i2}
  MaxPaces = 1
  Concurrency = 2
  MaxWorkers = 2
  Setups <- MCHandOff
  Producer = {p1}
  Archive = {}
  MaxBatches = 1
  UserCommands = FALSE
PROPERTY HandOffProgress
CHECK_DEADLOCK FALSE
