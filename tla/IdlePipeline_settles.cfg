SPECIFICATION FairSpec
CONSTANTS
    alice = alice  bob = bob
    p1 = p1  p2 = p2
    Process = {p1, p2}
    Session = {alice}
    Events = 2
    MaxVersion = 2
    MaxAudits = 2
    AuditCap = 2
    LedgerCap = 1
    Pressure = TRUE
    MaxCrashes = 0
    MaxFaults = 1
    MaxUnread = 1
INVARIANTS OutcomesAreTrue
PROPERTIES MergedOnce PendingGuardsStay EveryIdleSettles
CHECK_DEADLOCK FALSE
