SPECIFICATION FairSpec
CONSTANTS
    Calls = {c1, c2}
    MaxPosts = 1
    m_jsAffinity = TRUE
    HardTerminate = TRUE
INVARIANTS Lifecycle IdleReported PostsArrive
PROPERTY RegisteredResolves
CHECK_DEADLOCK FALSE
