SPECIFICATION Spec
CONSTANTS
    t1 = t1  t2 = t2  t3 = t3
    p1 = p1  p2 = p2
    None = None
    Task = {t1, t2}
    Pid = {p1, p2}
    PidOf <- OneEach
    Uses <- AnyUse
    EnvFaults = {"readonly", "unreadable"}
    MaxFaults = 2
    MaxCalls = 2
    MaxCrashes = 0
    FineClock = TRUE
PROPERTIES RevisionIsMonotonic
