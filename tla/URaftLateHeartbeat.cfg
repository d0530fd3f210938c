SPECIFICATION Spec
CONSTANTS
  N = 3
  L = 2
  Elector = {2}
  VersionTimeouts = FALSE
  IntBits = 16
  MaxDelay = 4
  MaxInFlight = 2
  MaxSlots = 14
  MaxTerm = 1
  MaxVersion = 0
  MaxRestarts = 0
  MaxCalls = 0
INVARIANT AppendAsserts
CHECK_DEADLOCK FALSE
