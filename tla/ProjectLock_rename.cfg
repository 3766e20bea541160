SPECIFICATION Spec
CONSTANTS
    t1 = t1  t2 = t2  t3 = t3  t4 = t4
    p1 = p1  p2 = p2  p3 = p3  p4 = p4
    h1 = h1  h2 = h2
    None = None
    Task = {t1, t2, t3}
    Pid = {p1, p2, p3}
    Host = {h1}
    PidOf <- ThreeProcesses
    HostOf <- OneHost
    FaultKinds = {"quarantine"}
    MaxFaults = 1
    MaxCalls <- CallOnce
    MaxNonces = 2
    MaxCrashes = 1
    PidReuse = FALSE
INVARIANTS MutualExclusion
