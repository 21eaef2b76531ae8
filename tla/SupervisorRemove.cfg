SPECIFICATION Spec
CONSTANTS
    MaxFailures = 3
    Names = {a, b}
    Pids = {p1, p2, p3}
    GuaranteedPause = {a}
    Observed = {b}
    Commands = {"register", "start", "detach", "stop", "pause", "resume", "policy", "remove", "exit"}
    Faults = {}
    KillAt = {"idle", "launch", "clear", "settle", "delete", "fail"}
    DiesWithEngine = FALSE
    MaxPlans = 1
    NoPid = NoPid
    Nobody = Nobody
    NoRecord = NoRecord
    NoHandle = NoHandle
SYMMETRY PidSymmetry
CHECK_DEADLOCK FALSE
INVARIANTS
    PauseIsReal
    CrashLoopBounded
PROPERTIES
    ImplementsPromise
