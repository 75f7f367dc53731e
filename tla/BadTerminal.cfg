CONSTANTS
  j1 = j1
  j2 = j2
  r1 = r1
  r2 = r2
  c1 = c1
  NoJob = NoJob
  Jobs = {j1}
  Runs = {r1}
  Cancels = {c1}
  MaxAttempts <- OneAttempt
  MaxMessages = 1
  FaultKinds = {}
  MaxFaults = 0
  Prompt = TRUE
SPECIFICATION Spec
PROPERTIES TerminalIsFinal
CHECK_DEADLOCK FALSE
