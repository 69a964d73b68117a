\* The HTTP transport: split batches, optional evidence, recoveries, uncaught exceptions.
SPECIFICATION Spec
CONSTANTS
    c1 = c1
    f1 = f1
    Callers = {c1}
    Flushers = {f1}
    Ids = {1, 2, 3, 4, 5}
    CaptureKinds = {"fatal", "evidence", "recovery"}
    HookKinds = {"recovery"}
    Sizes = {1}
    MaxEvents = 2
    MaxBytes = 2
    Http = TRUE
    Discoveries = {TRUE, FALSE}
    Responses = {"none", "ack", "protocol", "client"}
    MaxAggregates = 0
    MaxPressure = 1
    DisconnectedAt = 1
    MaxGeneration = 1
VIEW UpToIdentity
INVARIANTS NoStaleIdentity HookSeen BypassKept BudgetOwned
