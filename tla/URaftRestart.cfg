SPECIFICATION Spec
CONSTANTS
  N = 3
  L = 2
  Elector = {2}
  VersionTimeouts = FALSE
  IntBits = 16
  MaxDelay = 0
  MaxInFlight = 1
  MaxSlots = 14
  MaxTerm = 2
  MaxVersion = 0
  MaxRestarts = 1
  MaxCalls = 0
PROPERTY LeaseHonoured
CHECK_DEADLOCK FALSE
