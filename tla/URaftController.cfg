SPECIFICATION Spec
CONSTANTS
  Node = {n1, n2}
  FaultSets <- MCFaultSets
INVARIANTS TypeOK NoStrayMaster
PROPERTIES StandsOnlyReady PresidentServes OthersDoNotServe
