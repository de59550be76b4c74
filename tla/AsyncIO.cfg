SPECIFICATION FairSpec
CONSTANTS
    o1 = o1
    o2 = o2
    Ops = {o1, o2}
    None = None
    Plans <- SomePlans
    MaxCloses = 1
CHECK_DEADLOCK FALSE
INVARIANTS CurrentHoldsLock EndsOnce
PROPERTIES AbortsOnlyEarlier Ends
