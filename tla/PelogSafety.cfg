CONSTANTS
    Alarm = 60
    PipeSize = 1
    EnableParallel = TRUE
    DefaultAction = "rerun"
SPECIFICATION Spec
INVARIANTS TypeOK DecidedInTime GraceGiven NoScriptLeftRunning
PROPERTIES ImplementsLimit
