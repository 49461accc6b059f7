SPECIFICATION FairSpec
CONSTANTS
    r = r
    s = s
    t1 = t1
    t2 = t2
    loop = loop
    none = none
    Nodes <- OneNode
    Messages <- TwoMessages
    NoRoot = none
    Timers <- TwoTimers
    Loop = loop
    NoTimer = none
    Calls <- AllCalls
    Cap = 1
    MaxCrashes = 1
CHECK_DEADLOCK FALSE
INVARIANTS
    TypeOK
    DirtyHasTimer
    SettledIsSaved
    LogMatchesIds
PROPERTIES
    SavesEventually
