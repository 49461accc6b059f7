SPECIFICATION Spec
CONSTANTS
    Runs = {r1, r2}
    MaxCancels = 1
    MaxStops = 1
INVARIANTS
    SessionsInv
    NothingRunsOn
PROPERTY
    CancelledRunsEnd
CHECK_DEADLOCK FALSE
