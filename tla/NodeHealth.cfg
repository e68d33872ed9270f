CONSTANTS
    group = group
    slots = slots
    Resource <- TwoResources
    SlotType = slots
    MaxInstance = 3
    Defined <- Values
    Negative <- Negatives
    MaxRetries = 3
    MaxFaults = 2
SPECIFICATION HealthFairSpec
INVARIANTS HealthTypeOK JoinedIsComplete
PROPERTIES WatchedInstanceServes SettledStays ImplementsEntry
CHECK_DEADLOCK FALSE
