\* Overload of the queue with a custom transport: sizes, priorities, hooks, every response.
SPECIFICATION Spec
CONSTANTS
    c1 = c1
    f1 = f1
    Callers = {c1}
    Flushers = {f1}
    Ids = {1, 2, 3, 4, 5}
    CaptureKinds = {"error", "warning"}
    HookKinds = {"warning"}
    Sizes = {1, 2, 4}
    MaxEvents = 3
    MaxBytes = 3
    Http = FALSE
    Discoveries = {FALSE}
    Responses = {"none", "legacy", "protocol", "ack", "retry", "client", "server"}
    MaxAggregates = 1
    MaxPressure = 1
    DisconnectedAt = 1
    MaxGeneration = 1
VIEW UpToIdentity
INVARIANTS Accounting Bounded LowCounted BatchIsPrefix
PROPERTIES HighKept
