SPECIFICATION FairSpec
CONSTANTS
    Workers = {w1, w2, w3, w4}
    Tasks = {t1, t2}
    NoTask = NoTask
    Slow = {}
    m_max_idle = 1
    MaxWorkers = 2
CHECK_DEADLOCK FALSE
INVARIANTS CountersRight SpareWorker CapRespected
PROPERTIES NoGrowthAfterCap PickedUp
