SPECIFICATION Spec
CONSTANTS
    Server = {s1, s2}
    Goals = {1, 2}
    FirstGoals = {2}
    RedundancyLevel = 0
    FaultSets <- SafetyFaultSets
    MaxRequests = 1
    MaxWrites = 1
    MaxEvents = 2
    MaxDel = 1
    MaxJobs = 2
INVARIANTS TypeOK ReadFresh NoStrayBusy ValidVersion ZombiesProcessed
SYMMETRY ServerSymmetry
CHECK_DEADLOCK FALSE
