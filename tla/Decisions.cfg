SPECIFICATION MCSpec
CONSTANTS
    Handles = {h1, h2, h3}
    MAX_CONSECUTIVE_POLL_ERRORS = 3
    MAX_CONSECUTIVE_ENVIRONMENTAL_TICKS = 2
    Adapters <- MCAdapters
    Keys <- MCKeys
    HomeBounds <- MCHistories
    Manifests <- MCManifests
    Builtins <- MCBuiltins
    CONTRACT_MAJOR = "1"
    MaxEdits = 2
    MaxSets = 1
    MaxRegistrations = 1
    MaxFaults = 1
    MaxFailures = 5
    Configs <- MCConfigs
    Usages <- MCUsages
    U64MAX = 15
    I64MAX = 7
    MICROS_PER_DOLLAR = 4
    MaxRows = 2
    MaxRuns = 2
    MaxChanges = 1
    Declarations <- MCDeclarations
    MaxMishaps = 1
    MaxKills = 1
CHECK_DEADLOCK FALSE
INVARIANTS
    TypesOK
    BrokenIsNoticed
    OutageIsNoCrash
    GuardrailHolds
    RegisteredMeansUsable
    LaunchIsHonest
    StartIsHonest
    VerdictIsHonest
    CommandIsHonest
    FleetIsHonest
PROPERTIES
    NothingIsLost
