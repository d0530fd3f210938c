SPECIFICATION Spec
CONSTANTS
    Server = {s1, s2}
    Goals = {2}
    FirstGoals = {2}
    RedundancyLevel = 0
    FaultSets = {{"error", "torn"}}
    MaxRequests = 1
    MaxWrites = 0
    MaxEvents = 2
    MaxDel = 1
    MaxJobs = 2
INVARIANTS ValidFresh
SYMMETRY ServerSymmetry
CHECK_DEADLOCK FALSE
