\* Two first requests for one service, in two threads.
SPECIFICATION Spec
CONSTANTS
    r1 = r1
    r2 = r2
    Requests = {r1, r2}
    Inputs <- SpoolInputs
    AllowedOrigins = {}
    RateLimit = 2
    RateWindow = 1
    Services = {"web"}
    FileName <- MCFileName
    Handlers <- Durable
    Http = FALSE
    Pin <- Resources
    Reasons = {"invalid_event", "rate_limited"}
    Descriptors <- MCDescriptors
    Lossy = TRUE
    Warm = {}
    WriteOutcomes = {"ok"}
    AcceptFails = {FALSE}
    MaxTime = 1
    MaxBodyBytes = 8
    EnvelopeBytes = 2
    PartBytes = 1
    LimitsBytes = 1
    TokenBytes = 1
INVARIANT MarkedOnlyComplete
