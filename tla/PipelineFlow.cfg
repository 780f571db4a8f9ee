SPECIFICATION FairSpec
CONSTANTS
  j1 = j1 j2 = j2
  source = source stage = stage stage2 = stage2 sink = sink
  Jobs <- TwoJobs
  Last = 2
  Replicas <- WideStage
  StageOf <- WideStageStages
  AtStart <- Chain
  Capacity = 1
  MaxFlushes = 0
  MaxRaises = 1
  NoJob = NoJob
INVARIANTS TypeOK CopiesAccounted
PROPERTIES ScaleDownLosesNothing FlowEnds
