SPECIFICATION FairSpec
CONSTANTS
    Incoming = {"text", "ping", "close", "bad"}
    MaxCalls <- CallsOfRoles
    MaxFrames = 1
CHECK_DEADLOCK FALSE
INVARIANTS FramesInOrder ReportedOnce ReleasedLast
PROPERTIES CloseReported ClosedReleases
