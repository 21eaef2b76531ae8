SPECIFICATION FairSpec
CONSTANTS
    MaxFailures = 3
    Names = {a}
    Pids = {p1, p2, p3}
    GuaranteedPause = {a}
    Observed = {}
    Commands = {"register", "start", "detach", "stop", "pause", "resume", "policy", "exit"}
    Faults = {"poll", "adopt", "stuck"}
    KillAt = {"idle", "launch", "ready", "kill", "clear", "settle", "delete", "signal", "fail"}
    DiesWithEngine = TRUE
    MaxPlans = 1
    NoPid = NoPid
    Nobody = Nobody
    NoRecord = NoRecord
    NoHandle = NoHandle
CHECK_DEADLOCK FALSE
INVARIANTS
    TypeOK
    NoPhantomRow
    HandleIsRecorded
PROPERTIES
    RowFollowsLifecycle
    CrashIsNoticed
    UnconfirmedStopHeals
