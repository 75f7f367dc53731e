CONSTANTS
  j1 = j1
  j2 = j2
  r1 = r1
  r2 = r2
  c1 = c1
  NoJob = NoJob
  Jobs = {j1}
  Runs = {r1, r2}
  Cancels = {c1}
  MaxAttempts <- TwoAttempts
  MaxMessages = 2
  FaultKinds <- AllFaultKinds
  MaxFaults = 1
  Prompt = TRUE
SPECIFICATION RacesSpec
SYMMETRY Symmetry
CHECK_DEADLOCK FALSE
INVARIANTS
  TypeOK
  OutcomesAreJustified
  BooksAgree
PROPERTIES
  KeepsEvidence
