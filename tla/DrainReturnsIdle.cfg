CONSTANTS
    n1 = n1
    Node <- OneNode
    MaxJobs = 1
    MaxFaults = 1
    OperatorActive = FALSE
    StuckBoot = {}
    KeepAlive = {}
    TimeoutForms = {"number"}
SPECIFICATION Spec
INVARIANTS ReturnedIsIdle
CHECK_DEADLOCK FALSE
