CONSTANTS
    Job <- TwoJobs
    Batch = 2
    Requests <- Few
    Depends <- OnlyAfter
    QueuePlace <- Scatter
    MaxFaults = 0
SPECIFICATION FairSpec
PROPERTIES Released
CHECK_DEADLOCK FALSE
