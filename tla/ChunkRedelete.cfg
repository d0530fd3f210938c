SPECIFICATION Spec
CONSTANTS
    Server = {s1, s2}
    Goals = {1, 2}
    FirstGoals = {2}
    RedundancyLevel = 0
    FaultSets = {{"straggler"}}
    MaxRequests = 2
    MaxWrites = 1
    MaxEvents = 1
    MaxDel = 2
    MaxJobs = 2
INVARIANTS ValidFresh
SYMMETRY ServerSymmetry
CHECK_DEADLOCK FALSE
