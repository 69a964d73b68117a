\* The unsent tail of a split HTTP batch under overload.
SPECIFICATION Spec
CONSTANTS
    c1 = c1
    f1 = f1
    Callers = {c1}
    Flushers = {f1}
    Ids = {1, 2, 3, 4}
    CaptureKinds = {"error", "warning"}
    HookKinds = {}
    Sizes = {1}
    MaxEvents = 2
    MaxBytes = 2
    Http = TRUE
    Discoveries = {FALSE}
    Responses = {"none", "ack"}
    MaxAggregates = 0
    MaxPressure = 1
    DisconnectedAt = 1
    MaxGeneration = 1
VIEW UpToIdentity
INVARIANTS Displaceable
