SPECIFICATION FairSpec
CONSTANTS
    Timers = {t1, t2}
    Fibers = {f1}
    MaxFires = 1
    MaxHr = 2
INVARIANTS OnePlace TermedInScope ExpiryReported InterruptsServed
PROPERTIES FiresOnlyLive ClearedReleases
CHECK_DEADLOCK FALSE
