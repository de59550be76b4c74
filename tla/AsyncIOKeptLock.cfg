SPECIFICATION FairSpec
CONSTANTS
    o1 = o1
    o2 = o2
    Ops = {o1, o2}
    None = None
    Plans <- ClosePlans
    MaxCloses = 1
CHECK_DEADLOCK FALSE
INVARIANT KeptLockUnwanted
