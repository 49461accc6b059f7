SPECIFICATION FairSpec
CONSTANTS
    r = r
    a = a
    b = b
    c = c
    none = none
    Root = r
    NoNode = none
    Nodes <- ThreeNodes
    Commands <- StopAllOnly
    MaxCommands = 2
CHECK_DEADLOCK FALSE
PROPERTIES
    QueueDrains
    CancelledEnds
