\* Bodies at the size limit, over HTTP.
SPECIFICATION Spec
CONSTANTS
    r1 = r1
    r2 = r2
    Requests = {r1}
    Inputs <- WireInputs
    AllowedOrigins = {}
    RateLimit = 2
    RateWindow = 1
    Services = {"web"}
    FileName <- MCFileName
    Handlers <- Durable
    Http = TRUE
    Pin <- Resources
    Reasons = {"invalid_event", "rate_limited"}
    Descriptors <- MCDescriptors
    Lossy = TRUE
    Warm = {"web"}
    WriteOutcomes = {"ok"}
    AcceptFails = {FALSE}
    MaxTime = 1
    MaxBodyBytes = 8
    EnvelopeBytes = 2
    PartBytes = 1
    LimitsBytes = 1
    TokenBytes = 1
INVARIANT WireFits
