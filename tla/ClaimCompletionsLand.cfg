SPECIFICATION Spec
CONSTANTS
    Sources = {"engine-observed"}
    MaxUsage = 2
    MaxRuns = 1
    USAGE_PARK_MAX_ATTEMPTS = 3
    OBSERVED_PARK_MAX_EVENTS = 2
    Faults = {}
    BreachStops = FALSE
    None = None
CHECK_DEADLOCK FALSE
PROPERTIES
    CompletionsLand
