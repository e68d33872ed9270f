CONSTANTS
    q1 = q1
    q2 = q2
    Server = server
    Job <- ThreeJobs
    Queue <- TwoQueues
    Requests <- Usual
    Settings <- Configured
    Scheduled <- AllFour
    MaxKinds = 2
    MaxSlots = 3
    Scale = 6
SPECIFICATION Spec
INVARIANTS TypeOK NotOverdrawn ChunksCovered SiteRespected
PROPERTIES ImplementsPool
