CONSTANTS
  j1 = j1
  j2 = j2
  r1 = r1
  r2 = r2
  c1 = c1
  NoJob = NoJob
  Jobs = {j1}
  Runs = {r1}
  Cancels = {}
  MaxAttempts <- OneAttempt
  MaxMessages = 2
  FaultKinds = {"crash"}
  MaxFaults = 1
  Prompt = TRUE
SPECIFICATION FairSpec
PROPERTIES EveryJobEnds
CHECK_DEADLOCK FALSE
