CONSTANTS
  w1 = w1
  w2 = w2
  MaxSessions = 2
  MaxReplies = 3
  MaxJobs = 3
  Workers = {w1, w2}
  NoWorker = NoWorker
  MaxExchanges = 2
  PageSize = 1
  BatchSize = 1
  MaxFaults = 1
  MaxUsers = 3
  MaxSpaces = 4
  MaxChats = 2
  MaxRequests = 2
  MaxSeeds = 2
  MaxHalts = 1
SPECIFICATION MCSpec
CHECK_DEADLOCK FALSE
INVARIANTS
  TypesOK
  
  
  AccountsAreWhole
  AccessIsDeserved
PROPERTIES
  KeepsOwnership
  
  RetiredStaysRetired
