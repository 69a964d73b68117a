\* A task and the task it spawns, with nested owners that end in any order.
SPECIFICATION Spec
CONSTANTS
    main = main
    worker = worker
    Tasks = {main, worker}
    Root = main
    Depth = 3
    Bounds <- MCBounds
    Requests <- MCRequests
    Labels <- MCLabels
    MaxLabels = 1
    Service = "shop"
    Environment = "production"
    Configurations <- MCConfigurations
    MaxTime = 1
    MaxGeneration = 2
    MaxRevision = 2
INVARIANTS TypeOK EndedRevoked NewestOwnerRead ProbeAuthorised
CHECK_DEADLOCK FALSE
