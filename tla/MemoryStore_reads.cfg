SPECIFICATION Spec
CONSTANTS
    t1 = t1  t2 = t2  t3 = t3
    p1 = p1  p2 = p2
    None = None
    Task = {t1, t2, t3}
    Pid = {p1, p2}
    PidOf <- SharedProcess
    Uses <- OneReader
    EnvFaults = {"unreadable", "corrupt"}
    MaxFaults = 1
    MaxCalls = 2
    MaxCrashes = 0
    FineClock = TRUE
INVARIANTS ReadsAreFresh EmptyInitOnlyWhenAbsent
