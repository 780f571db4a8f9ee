SPECIFICATION MCSpec
CONSTANTS
  d1 = d1 w1 = w1 w2 = w2 r1 = r1 r2 = r2
  Docs <- OneDoc
  Chunks = 2
  Workers <- TwoWorkers
  Requests <- TwoRequests
  Askers <- ManyAskers
  Modes = {"DESTRUCTIVE", "NON_DESTRUCTIVE"}
  Kinds = {"plain", "pdf", "split", "media"}
  Sizes <- MixedSizes
  MaxFragments = 2
  MaxFaults = 1
  MayExpire = TRUE
  NoFragment = NoFragment NoJob = NoJob NoDoc = NoDoc
INVARIANTS TypeOK WholeWhenShared AnswersAgree
PROPERTIES ImplementsContract ResultArrives
CHECK_DEADLOCK FALSE
