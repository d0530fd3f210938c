SPECIFICATION Spec
CONSTANTS
  N = 3
  L = 2
  Elector = {2}
  VersionTimeouts = FALSE
  IntBits = 16
  MaxDelay = 0
  MaxInFlight = 1
  MaxSlots = 11
  MaxTerm = 2
  MaxVersion = 1
  MaxRestarts = 0
  MaxCalls = 1
INVARIANTS FreshLeader OnePresident
CHECK_DEADLOCK FALSE
