SPECIFICATION Spec
CONSTANTS
  N = 3
  L = 2
  Elector = {2}
  VersionTimeouts = FALSE
  IntBits = 16
  MaxDelay = 0
  MaxInFlight = 1
  MaxSlots = 21
  MaxTerm = 1
  MaxVersion = 0
  MaxRestarts = 1
  MaxCalls = 0
INVARIANT OnePresident
CHECK_DEADLOCK FALSE
