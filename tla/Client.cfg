SPECIFICATION MCSpec
CONSTANTS
  JobCount = 3
  Drivers <- AllDrivers
  BatchSize = 2
  PoolSize = 2
  MaxJobRetries = 1
  MaxHttpRetries = 1
  MaxFaults = 1
INVARIANTS TypeOK EveryJobOnce TakenIsKept RecordsAgree
PROPERTY DriversEnd
CHECK_DEADLOCK FALSE
