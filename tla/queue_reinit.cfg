\* init, dispose and fork while timers, explicit flushes and captures run.
SPECIFICATION Spec
CONSTANTS
    c1 = c1
    f1 = f1
    f2 = f2
    Callers = {c1}
    Flushers = {f1, f2}
    Ids = {1, 2, 3, 4, 5, 6}
    CaptureKinds = {"error", "probe"}
    HookKinds = {}
    Sizes = {1}
    MaxEvents = 2
    MaxBytes = 2
    Http = FALSE
    Discoveries = {FALSE}
    Responses = {"legacy", "retry"}
    MaxAggregates = 1
    MaxPressure = 1
    DisconnectedAt = 1
    MaxGeneration = 2
SYMMETRY Threads
VIEW UpToIdentity
INVARIANTS TypeOK OneSender NoLostWakeup OwnGeneration
