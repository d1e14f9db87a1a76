SPECIFICATION FairSpec
CONSTANTS
  a = a
  b = b
  Name <- MCName
  Template <- MCTemplate
  NmapPaths = {}
  Generate <- MCGenerate
  Hash = {1}
  OutOfScope = {}
  SeedPaths <- MCSeedPaths
  Bundles <- MCBundles
  Patterns = {}
  MaxDepth = 2
  CrawlDepth = 2
  PerDirBudget = 0
  SubtreeBurst = 0
  MaxNewDirsPerBatch = 1
  NProbes = 1
  Concurrency = {1}
  AsyncSeeders = 1
  HarvestEnabled = TRUE
  Events = {"spa"}
INVARIANTS
  FinishedComplete
  SeedsKept
  DepthBound
PROPERTIES
  BatchBlastRadius
  MinedOnce
  Termination
CHECK_DEADLOCK FALSE
