SPECIFICATION MCSpec
CONSTANTS
    Sources = {"self-reported", "engine-observed"}
    MaxUsage = 3
    MaxRuns = 2
    USAGE_PARK_MAX_ATTEMPTS = 3
    OBSERVED_PARK_MAX_EVENTS = 2
    Faults = {"store", "stuck", "control", "poll", "crash"}
    BreachStops = TRUE
    None = None
    Pids = {1, 2}
    JobBounds <- MCJobs
    Kts = {1, 2}
    Releases = {1, 2, 3}
    CHECK_INTERVAL_SECS = 2
    MaxTime = 3
    UpdateBounds <- MCUpdates
CHECK_DEADLOCK FALSE
INVARIANTS
    TypesOK
    CountedOnce
    Accounted
    JobIsExact
    UpdateIsSafe
PROPERTIES
    SkipsInOrder
    WaitsEnd
