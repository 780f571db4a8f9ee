SPECIFICATION FairSpec
CONSTANTS
  JobCount = 2
  Drivers <- OnlyAsync
  BatchSize = 2
  PoolSize = 2
  MaxJobRetries = 1
  MaxHttpRetries = 1
  MaxFaults = 1
PROPERTY AsyncCompletes
CHECK_DEADLOCK FALSE
