SPECIFICATION Spec
CONSTANTS
  N = 3
  L = 2
  Elector = {2}
  VersionTimeouts = FALSE
  IntBits = 16
  MaxDelay = 1
  MaxInFlight = 2
  MaxSlots = 13
  MaxTerm = 2
  MaxVersion = 0
  MaxRestarts = 0
  MaxCalls = 0
INVARIANTS OnePresident PresidentHasLeases PresidentNotFollower OneLeaderPerTerm ElectionInv
CHECK_DEADLOCK FALSE
