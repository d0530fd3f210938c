SPECIFICATION Spec
CONSTANTS
    Server = {s1, s2}
    Goals = {1, 2}
    FirstGoals = {1, 2}
    RedundancyLevel = 0
    FaultSets <- DamageFaultSets
    MaxRequests = 1
    MaxWrites = 1
    MaxEvents = 2
    MaxDel = 1
    MaxJobs = 2
INVARIANTS DamagedStaysOut
SYMMETRY ServerSymmetry
CHECK_DEADLOCK FALSE
