SPECIFICATION Spec
CONSTANTS
  d1 = d1 w1 = w1 w2 = w2 r1 = r1 r2 = r2
  Docs <- OneDoc
  Chunks = 2
  Workers <- OneWorker
  Requests <- TwoRequests
  Askers <- ManyAskers
  Modes = {"DESTRUCTIVE"}
  Kinds = {"media"}
  Sizes <- UnitSizes
  MaxFragments = 2
  MaxFaults = 0
  MayExpire = FALSE
  NoFragment = NoFragment NoJob = NoJob NoDoc = NoDoc
INVARIANT RetryLaterKeepsResults
CHECK_DEADLOCK FALSE
