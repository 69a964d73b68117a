\* Two requests in two threads, for every configuration of the handler.
SPECIFICATION Spec
CONSTANTS
    r1 = r1
    r2 = r2
    Requests = {r1, r2}
    Inputs <- DurableInputs
    AllowedOrigins = {}
    RateLimit = 1
    RateWindow = 1
    Services = {"web", "shop"}
    FileName <- MCFileName
    Handlers <- AllHandlers
    Http = FALSE
    Pin <- Resources
    Reasons = {"invalid_event", "rate_limited"}
    Descriptors <- MCDescriptors
    Lossy = TRUE
    Warm = {"web"}
    WriteOutcomes = {"ok", "short", "open", "write", "replace"}
    AcceptFails = {TRUE, FALSE}
    MaxTime = 1
    MaxBodyBytes = 8
    EnvelopeBytes = 2
    PartBytes = 1
    LimitsBytes = 1
    TokenBytes = 1
INVARIANTS TypeOK SpoolTruth MarkedOnlyComplete FailuresRooted ProofEarned RefusedHonestly NoResend
PROPERTY KeepsContract
