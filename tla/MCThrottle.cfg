SPECIFICATION Spec
CONSTANTS
  StartMode = "quiet"
  ConfigRate = 12
  Modes = {"fast", "stealth"}
  Rates = {0}
  Budgets = {0, 1}
  FrontierLens = {0, 9}
  RingSize = 2
  SpikeThreshold = 2
  NovelRun = 2
  MaxSuspect = 3
  MaxResumes = 1
INVARIANTS
  RateWithinCap
  BackoffPaces
  BurstsEnd
PROPERTIES
  Recovers
