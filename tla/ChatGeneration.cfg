CONSTANTS
  p1 = p1
  p2 = p2
  Called = {p1, p2}
  CallStatuses = {401, 404, 429, 503, 999}
  Statuses = {200, 401, 404, 429, 503, 999}
  Bodies <- MCBodies
  Providers = 3
  MaxFaults = 2
SPECIFICATION MCSpec
CHECK_DEADLOCK FALSE
INVARIANTS
  TypesOK
  ReplyIsOfItsProvider
  AttemptsAreMeasuredOnce
  ClientAndStoreAgree
  StreamIsTheBody
  FailuresAreNamed
PROPERTIES
  RequestsEnd
