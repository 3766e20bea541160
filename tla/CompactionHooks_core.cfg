SPECIFICATION FairSpec
CONSTANTS
    p1 = p1  p2 = p2
    Process = {p1, p2}
    Hooks = 3
    MaxTroubles = 1
INVARIANTS PublishedInOrder FirstDefers NotSuppressed
PROPERTIES EveryHookReturns
CHECK_DEADLOCK FALSE
