\* A copied context whose owner has completed.
SPECIFICATION Spec
CONSTANTS
    main = main
    worker = worker
    Tasks = {main, worker}
    Root = main
    Depth = 5
    Bounds <- FourOwners
    Requests <- MCRequests
    Labels <- MCLabels
    MaxLabels = 1
    Service = "shop"
    Environment = "production"
    Configurations <- MCConfigurations
    MaxTime = 1
    MaxGeneration = 2
    MaxRevision = 2
INVARIANT CompletedRevoked
CHECK_DEADLOCK FALSE
