\* Reservations end and queued events are taken up.
SPECIFICATION FairSpec
CONSTANTS
    c1 = c1
    f1 = f1
    Callers = {c1}
    Flushers = {f1}
    Ids = {1, 2, 3, 4}
    CaptureKinds = {"error"}
    HookKinds = {}
    Sizes = {1}
    MaxEvents = 2
    MaxBytes = 2
    Http = FALSE
    Discoveries = {FALSE}
    Responses = {"none", "legacy", "retry"}
    MaxAggregates = 0
    MaxPressure = 1
    DisconnectedAt = 1
    MaxGeneration = 1
PROPERTIES SenderReleases EventuallyFlushed
