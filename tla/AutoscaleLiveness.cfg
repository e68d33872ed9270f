CONSTANTS
    n1 = n1
    Node <- OneNode
    MaxJobs = 1
    MaxFaults = 1
    OperatorActive = FALSE
    StuckBoot = {}
    KeepAlive = {}
    TimeoutForms = {"number"}
SPECIFICATION FairSpec
PROPERTIES ScalesToZero DemandServed OrphansReaped EntriesImplemented
CHECK_DEADLOCK FALSE
