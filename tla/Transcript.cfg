SPECIFICATION Spec
CONSTANTS
    task1 = task1
    result1 = result1
    call1 = call1
    NoId = NoId
    Ids <- MCIds
    Alike <- MCAlike
    TaskLike <- MCTaskLike
    Indexes = {0}
    Limit = 9
    TailMax = 2
    StatusSize = 2
    MinBudget = 1
    MaxEvents = 4
INVARIANTS
    TranscriptInv
    EndIsShown
CHECK_DEADLOCK FALSE
