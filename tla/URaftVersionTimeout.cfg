SPECIFICATION Spec
CONSTANTS
  N = 3
  L = 2
  Elector = {2}
  VersionTimeouts = TRUE
  IntBits = 16
  MaxDelay = 0
  MaxInFlight = 1
  MaxSlots = 9
  MaxTerm = 1
  MaxVersion = 1
  MaxRestarts = 0
  MaxCalls = 0
INVARIANT FreshLeader
CHECK_DEADLOCK FALSE
