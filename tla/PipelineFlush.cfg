SPECIFICATION FairSpec
CONSTANTS
  j1 = j1 j2 = j2
  source = source stage = stage stage2 = stage2 sink = sink
  Jobs <- TwoJobs
  Last = 1
  Replicas <- Short
  StageOf <- ShortStages
  AtStart <- Short
  Capacity = 1
  MaxFlushes = 1
  MaxRaises = 1
  NoJob = NoJob
INVARIANT AtMostOneLate
PROPERTY SourcesResume
