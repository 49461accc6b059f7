SPECIFICATION Spec
CONSTANTS
    r = r
    a = a
    b = b
    c = c
    none = none
    Root = r
    NoNode = none
    Nodes <- FourNodes
    Commands <- BranchCommands
    MaxCommands = 1
CHECK_DEADLOCK FALSE
INVARIANTS
    OneTaskAtATime
    ParentSettledFirst
    StoppedIsError
PROPERTIES
    ForkIsFinal
SYMMETRY Replies
