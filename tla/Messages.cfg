SPECIFICATION FairSpec
CONSTANTS
    a = a
    b = b
    Keys <- TwoKeys
    MaxCalls = 3
    Errors <- AllErrors
    Floods <- OneFlood
    RateLimit = 1
    Window = 2
INVARIANTS
    TypeOK
    ListMatchesMap
    WaitsOnce
    WindowHolds
    NewestShown
PROPERTIES
    CallsEnd
