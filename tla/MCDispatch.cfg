SPECIFICATION FairSpec
CONSTANTS
  i1 = i1
  Item = {i1, i2, i3}
  Start = {i1, i2}
  MaxPaces = 1
  Concurrency = 1
  MaxWorkers = 2
  Setups <- MCSetups
  Producer = {p1}
  Archive = {p1}
  MaxBatches = 1
  UserCommands = TRUE
INVARIANTS
  InFlightExact
PROPERTIES
  Implements
  Returns
  CancelReturns
  ProducersEnd
