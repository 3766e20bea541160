SPECIFICATION Spec
CONSTANTS
    Cap <- SmallCap
    Cost <- UnitCost
    Name <- Names
    Overlong <- LongIds
    InitialFiles <- Inherited
    MaxBytes = 7
    Horizon = 1
    AuditTimeout = 1
    Session = {1, 2}
    Model = {2}
    Text = {2}
    MaxTurns = 3
    MaxClock = 2
INVARIANTS OnlyConfirmedIsTrusted LineageHolds FitsAsAssumed ShedInOrder RefusesOnlyIrreducible
PROPERTIES Settled
CHECK_DEADLOCK FALSE
