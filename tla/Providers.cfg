SPECIFICATION FairSpec
CONSTANTS
    a = a
    b = b
    c = c
    Requests <- ThreeRequests
    RateLimit = 2
    Window = 2
    MaxConcurrency = 2
    MaxRetries = 1
    BaseDelay = 1
    MaxDelay = 2
    Jitter = 1
    Cooldown = 2
INVARIANTS
    WindowHolds
    SlotsAccounted
PROPERTIES
    BlockRespected
    RequestsEnd
