\* A storm, one exception captured by two paths, and recoveries under a hook.
SPECIFICATION Spec
CONSTANTS
    main = main
    worker = worker
    Callers = {main, worker}
    Exceptions = {1, 2, 3}
    Fingerprint <- MCFingerprint
    IDENTITY_WINDOW = 2
    DUPLICATE_WINDOW = 5
    LOOP_WINDOW = 2
    LOOP_THRESHOLD = 2
    LOOP_RESET_AFTER = 6
    LOOP_CHECKPOINT = 3
    MAX_NORMAL_EVENTS = 1
    MAX_TRACKED = 2
    MAX_ACCOUNTED = 14
    MAX_WINDOWS = 2
    MAX_OBSERVATIONS = 2
    MAX_ATTEMPTS = 1
    OBSERVED_FOR = 1
    IdBytes <- MCIdBytes
    Ids = {1, 2}
    Sizes = {1, 4}
    Loads <- MCLoads
INVARIANTS TypeOK StormBounded AggregatesTruthful BudgetHolds
PROPERTY SkipJustified
CHECK_DEADLOCK FALSE
