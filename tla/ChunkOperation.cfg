SPECIFICATION Spec
CONSTANTS
    Server = {s1, s2}
    Goals = {1, 2}
    FirstGoals = {2}
    RedundancyLevel = 0
    FaultSets <- OperationFaultSets
    MaxRequests = 1
    MaxWrites = 0
    MaxEvents = 1
    MaxDel = 1
    MaxJobs = 2
INVARIANTS NoStrayBusy CopiesHeld
PROPERTIES OperationEnds
CHECK_DEADLOCK FALSE
