SPECIFICATION RuntimeSpec
CONSTANTS
  s1 = s1 s2 = s2
  t1 = t1 t2 = t2
  Callers <- TwoCallers
  Images <- ImagesOf
  AskedSize <- ImagesOf
  ServerSize = 3
  Protocols = {"http", "grpc"}
  MaxRetries = 2
  Max429 = 2
  None = None
  MinStage = 0
  MaxStage = 3
  TargetDepth = 0
  Depths = {0, 120}
  LeastIntegral <- LeastError
  MaxIntegral = 400
  Managed <- TwoStages
  Floor <- FloorOf
  Ceiling <- CeilingOf
  CostMB <- CostOf
  MemoryLimit = 8
  MaxTotals = {1, 4}
  CoreLimits = {2, 99}
  MaxCurrent = 4
  Proposals <- Proposed
  MemoryUses = {0, 4, 8}
  NoDecision = NoDecision
  micro = micro small = small large = large
  Order <- ThreeCategories
  Weight <- WeightOf
  Strategies = {"lottery", "round_robin", "weighted_round_robin"}
  Immediate = "immediate"
  NoCategory = NoCategory
  Jobs <- FourJobs
  CacheSize = 2
  MaxJobs = 2
  MaxPages = 4
  BatchSize = 2
  Workers = 2
  Detected <- DetectedOn
  Drawn <- DrawnOn
  Parsed <- ParsedOn
  ExtractTasks <- EightTasks
  Documents <- ManyDocuments
  Options <- FiveOptions
  EmbedBatch = 2
  Nothing = Nothing
INVARIANTS PartsTypeOK AnsweredInOrder CallsBounded DecisionsSound WaitingIsServed
  JourneySound ExtractionSound OwnValues RowsKept
PROPERTY PartsEnd
CHECK_DEADLOCK FALSE
