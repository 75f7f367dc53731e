SPECIFICATION MCSpec
CONSTANTS
  MaxJobs = 3
  MaxRevision = 3
  MaxTime = 2
  PageSize = 1
  MaxRows = 2
  MaxPending = 1
  HintBatch = 1
  MaxFaults = 1
CHECK_DEADLOCK FALSE
INVARIANTS
  TypeOK
  
PROPERTIES
  KeepsPromise
  
