SPECIFICATION Spec
CONSTANTS
    r = r
    a = a
    b = b
    c = c
    none = none
    Root = r
    NoNode = none
    Nodes <- ThreeNodes
    Commands <- AllCommands
    MaxCommands = 2
CHECK_DEADLOCK FALSE
INVARIANTS
    QueueInv
    TreeLinked
PROPERTIES
    CancelSticks
    StartsInOrder
SYMMETRY Replies3
