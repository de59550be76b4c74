SPECIFICATION FairSpec
CONSTANTS
    Calls = {c1}
    MaxPosts = 0
    m_jsAffinity = TRUE
    HardTerminate = TRUE
PROPERTY TerminateResolves
CHECK_DEADLOCK FALSE
