\* Two questions that may overlap, a reset, expired keys and a failed call.
SPECIFICATION Spec
CONSTANTS
    q1 = q1
    q2 = q2
    NoSession = NoSession
    Requests <- TwoRequests
    MaxActive = 2
    MaxResets = 1
    MaxExpiries = 2
    MaxFaults = 1
INVARIANTS
    OpenSessionsOverlapped
    CacheIsArchived
    MemoryKept
PROPERTY
    EverythingArchived
