CONSTANTS
    n1 = n1
    Node <- OneNode
    MaxJobs = 1
    MaxFaults = 0
    OperatorActive = FALSE
    StuckBoot <- OneNode
    KeepAlive = {}
    TimeoutForms = {"number"}
SPECIFICATION FairSpec
PROPERTIES BootTimeoutReaps
CHECK_DEADLOCK FALSE
