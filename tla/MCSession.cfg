SPECIFICATION SessionSpec
CONSTANTS
  a = a
  b = b
  Name <- MCName
  Template = {a}
  NmapPaths = {b}
  Generate <- MCGenerate
  Hash = {1}
  OutOfScope <- MCOutOfScope
  SeedPaths <- MCSeedPaths
  Bundles = {}
  Patterns <- MCPatterns
  MaxDepth = 2
  CrawlDepth = 1
  PerDirBudget = 0
  SubtreeBurst = 0
  MaxNewDirsPerBatch = 1
  NProbes = 1
  Concurrency = {1, 2}
  AsyncSeeders = 0
  HarvestEnabled = FALSE
  Events = {"pause", "stop"}
  SaveWhen = "quiet"
  MaxResumes = 1
INVARIANTS
  FinishedComplete
PROPERTIES
  RequestedOnce
  
  
CHECK_DEADLOCK FALSE
