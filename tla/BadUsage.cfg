CONSTANTS
  Providers = 2
  MaxFaults = 0
SPECIFICATION Spec
CHECK_DEADLOCK FALSE
INVARIANTS
  PartialIsMeasured
