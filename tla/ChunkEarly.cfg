SPECIFICATION Spec
CONSTANTS
    Server = {s1, s2}
    Goals = {2}
    FirstGoals = {2}
    RedundancyLevel = 0
    FaultSets = {{"early"}}
    MaxRequests = 2
    MaxWrites = 1
    MaxEvents = 2
    MaxDel = 1
    MaxJobs = 2
INVARIANTS ValidFresh
SYMMETRY ServerSymmetry
CHECK_DEADLOCK FALSE
