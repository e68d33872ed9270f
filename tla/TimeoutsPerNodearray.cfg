CONSTANTS
    n1 = n1
    Node <- OneNode
    MaxJobs = 1
    MaxFaults = 1
    OperatorActive = FALSE
    StuckBoot = {}
    KeepAlive = {}
    TimeoutForms = {"dictionary"}
SPECIFICATION FairSpec
PROPERTIES ScalesToZero
CHECK_DEADLOCK FALSE
