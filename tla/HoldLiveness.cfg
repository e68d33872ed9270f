CONSTANTS
    Job <- ThreeJobs
    Batch = 2
    Requests <- Few
    Depends <- NoAfter
    QueuePlace <- Scatter
    MaxFaults = 1
SPECIFICATION FairSpec
PROPERTIES Released
CHECK_DEADLOCK FALSE
