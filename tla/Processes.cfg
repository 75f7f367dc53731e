SPECIFICATION MCSpec
CONSTANTS
  w1 = w1
  w2 = w2
  None = None
  Workers = {w1, w2}
  Rows = {1, 2}
  MaxStarts = 2
  MaxFaults = 2
  Clients = {1, 2}
  MaxApiFaults = 2
CHECK_DEADLOCK FALSE
INVARIANTS
  TypesOK
  QueueIsThere
  ExitsAreClean
  

  
