SPECIFICATION FairSpec
CONSTANTS
    Workers = {w1, w2, w3}
    Tasks = {t1, t2, t3}
    NoTask = NoTask
    Slow = {}
    m_max_idle = 2
    MaxWorkers = 3
CHECK_DEADLOCK FALSE
PROPERTY AllPickedUp
