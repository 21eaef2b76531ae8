SPECIFICATION MCSpec
CONSTANTS
    EVENT_BUS_CAPACITY = 1
    MaxEvents = 3
    MaxCrashes = 1
    Pids = {1, 2}
    HandleBounds <- MCGroups
    Calls = {1, 2}
    Requests <- MCRequests
    Counts = {1, 2}
CHECK_DEADLOCK FALSE
INVARIANTS
    TypesOK
    StreamIsTrue
    LogIsExact
    GoneIsGone
    NoTornInput
    RelayIsHonest
PROPERTIES
    TearIsTold
    Converges
    LogMovesOn
    ExitSparesDetachedOnly
    DeathIsNoticed
