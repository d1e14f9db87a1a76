SPECIFICATION Spec
CONSTANTS
  Embedded <- MCEmbedded
  SystemRules <- MCSystem
  UserRules <- MCUser
  Detections <- MCDetections
  RulesOff = {}
  FaviconProbe = TRUE
  ActiveProbes = TRUE
  StackExtensions <- MCExtensions
  Corpus <- MCCorpus
  CorpusMax = 0
  SensitiveStems = {"s"}
  SensitiveTerms = {"s"}
  BackupSuffixes <- MCSuffixes
  TechBoostW = 1
  Root = "/"
  Sub = "/d"
  SubName <- MCSubName
  FrontPages = {{}, {"h", "w"}, {"n"}}
  ErrorPages = {{}, {"e", "a"}}
  NmapPaths <- MCNmapPaths
  Companions <- MCCompanions
  Siblings <- MCSiblings
  Shape <- MCShape
  Seeds <- MCSeeds
  Patterns <- MCPatterns
  Factor = 2
  WSem = 1
  WAssoc = 1
  WConv = 1
  MarkovMinSamples = 2
  ReprioHits = 2
  Orders = {"strict", "band", "explore"}
  MaxSteps = 3
  MaxOverrides = 1
  Concurrency = 1
INVARIANTS ScoresCurrent VotesOnce ExtensionsCalibrated
PROPERTIES Implements 
CHECK_DEADLOCK FALSE
