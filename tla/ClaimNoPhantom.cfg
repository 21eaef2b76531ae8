SPECIFICATION Spec
CONSTANTS
    MaxFailures = 3
    Names = {a}
    Pids = {p1, p2, p3}
    GuaranteedPause = {a}
    Observed = {}
    Commands = {"register", "start", "stop", "policy"}
    Faults = {}
    KillAt = {"settled"}
    DiesWithEngine = FALSE
    MaxPlans = 1
    NoPid = NoPid
    Nobody = Nobody
    NoRecord = NoRecord
    NoHandle = NoHandle
SYMMETRY PidSymmetry
CHECK_DEADLOCK FALSE
INVARIANTS
    NoPhantomRow
