CONSTANTS
    Job <- TwoJobs
    Batch = 2
    Requests <- Usual
    Depends <- AllDepends
    QueuePlace <- Scatter
    MaxFaults = 1
SPECIFICATION Spec
INVARIANTS TypeOK AdjustedBeforeRelease UserPlaceKept SystemHoldOwned
PROPERTIES DependencyHonoured ImplementsGate
CHECK_DEADLOCK FALSE
