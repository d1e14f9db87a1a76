SPECIFICATION Spec
CONSTANTS
  a = a
  b = b
  c = c
  Name <- MCName
  Template <- MCTemplate
  NmapPaths = {}
  Generate <- MCGenerate
  Hash = {1, 2}
  OutOfScope = {}
  SeedPaths = {}
  Bundles = {}
  Patterns = {}
  MaxDepth = 2
  CrawlDepth = 1
  PerDirBudget = 1
  SubtreeBurst = 1
  MaxNewDirsPerBatch = 1
  NProbes = 2
  Concurrency = {1, 2}
  AsyncSeeders = 0
  HarvestEnabled = FALSE
  Events = {"grow", "tarpit", "wildcard", "pause", "stop"}
SYMMETRY Symmetry
INVARIANTS
  TypeOK
  Accounting
  CalibrationGates
  ProbeAccounting
  BudgetRespected
  FinishedComplete
CHECK_DEADLOCK FALSE
