CONSTANTS
    n1 = n1
    Node <- OneNode
    MaxJobs = 1
    MaxFaults = 1
    OperatorActive = TRUE
    StuckBoot = {}
    KeepAlive = {}
    TimeoutForms = {"number", "dictionary"}
SPECIFICATION Spec
INVARIANTS TypeOK DeletesIdle DrainedStaysOffline JoinOpensJoined
PROPERTIES HeldIsLeftAlone ImplementsLease JoinLeavesServing
CHECK_DEADLOCK FALSE
