SPECIFICATION Spec
CONSTANTS
    t1 = t1  t2 = t2  t3 = t3  t4 = t4
    p1 = p1  p2 = p2  p3 = p3  p4 = p4
    h1 = h1  h2 = h2
    None = None
    Task = {t1, t2, t3, t4}
    Pid = {p1, p2, p3, p4}
    Host = {h1, h2}
    PidOf <- FourProcesses
    HostOf <- TwoHosts
    FaultKinds = {}
    MaxFaults = 0
    MaxCalls <- CallAgain
    MaxNonces = 2
    MaxCrashes = 2
    PidReuse = TRUE
INVARIANTS TypeOK MutualExclusion IInv
PROPERTIES NeverStealLive MutexSpec
