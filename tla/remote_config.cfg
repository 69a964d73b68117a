\* Overlapping refreshes across two initializations or a fork.
SPECIFICATION Spec
CONSTANTS
    Pollers = {1, 2, 3}
    Documents <- MCDocuments
    Tagging = {TRUE}
    Requests <- MCRequests
    Pins <- MCPins
    Descriptors <- MCDescriptors
    MaxFaults = 1
    MaxGeneration = 2
    MaxStatuses = 2
    MaxRules = 1
    MaxMethods = 2
    MaxPattern = 3
INVARIANTS TypeOK RestrictedUntilArrival PolicyGranted Grounded EvidenceProved OneTimer PollingContinues
PROPERTY Converges
