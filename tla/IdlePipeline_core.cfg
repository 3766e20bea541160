SPECIFICATION Spec
CONSTANTS
    alice = alice  bob = bob
    p1 = p1  p2 = p2
    Process = {p1, p2}
    Session = {alice, bob}
    Events = 3
    MaxVersion = 1
    MaxAudits = 3
    AuditCap = 2
    LedgerCap = 1
    Pressure = FALSE
    MaxCrashes = 1
    MaxFaults = 0
    MaxUnread = 2
SYMMETRY Symmetry
INVARIANTS LedgerRemembers NoRecursion QueueHoldsJobs
CHECK_DEADLOCK FALSE
