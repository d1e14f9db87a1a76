SPECIFICATION SessionSpec
CONSTANTS
  a = a
  b = b
  Name <- MCName
  Template = {a}
  NmapPaths = {}
  Generate <- MCGenerate
  Hash = {1}
  OutOfScope = {}
  SeedPaths <- MCSeedPaths
  Bundles = {}
  Patterns = {}
  MaxDepth = 2
  CrawlDepth = 1
  PerDirBudget = 0
  SubtreeBurst = 0
  MaxNewDirsPerBatch = 1
  NProbes = 1
  Concurrency = {1}
  AsyncSeeders = 0
  HarvestEnabled = FALSE
  Events = {"pause", "stop"}
  SaveWhen = "any"
  MaxResumes = 1
PROPERTIES
  ResumedTerminates
CHECK_DEADLOCK FALSE
