SPECIFICATION MCSpec
CONSTANTS
  rA = rA
  rB = rB
  rC = rC
  tA = tA
  tB = tB
  j1 = j1
  j2 = j2
  s1 = s1
  s2 = s2
  s3 = s3
  hi = hi
  p1 = p1
  p2 = p2
  d1 = d1
  d2 = d2
  m1 = m1
  None = None
  Workspaces = {1, 2}
  Registrations = {rA, rB, rC}
  Types = {tA, tB}
  Jobs = {j1, j2}
  typeOf <- TypeOf
  jobType <- JobType
  jobWorkspace <- JobWorkspace
  MaxRequests = 2
  MaxFrames = 2
  MaxTokens = 2
  MaxActs = 3
  MaxFaults = 1
  Sessions = {s1, s2, s3}
  PageWorkspaces = {1, 2}
  workspaceOf <- WorkspaceOf
  Prompts = {hi}
  MaxPrompts = 2
  MaxDeltas = 1
  MaxPageActs = 3
  MaxPageFaults = 1
  Providers = {p1, p2}
  Details = {d1, d2}
  ProbeDetails = {d1, d2}
  NewDetails = d1
  Models = {m1}
  modelsOf <- ModelsOf
  Nobody = Nobody
  MaxProbes = 3
  MaxAdminActs = 3
  MaxAdminFaults = 1
CHECK_DEADLOCK FALSE
INVARIANTS
  TypesOK
  ViewsAreTheirOwn
  SettledViewsAreStored
PROPERTIES
  
  FinalIsLearned
  DraftsStayWithTheirSessions
