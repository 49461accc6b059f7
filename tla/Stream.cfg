SPECIFICATION FairSpec
CONSTANTS
    Providers <- BothProviders
    FallbackKey = TRUE
    ToolIndices <- TwoIndices
    Letters <- SomeLetters
    Task <- TaskName
    Calls <- SomeCalls
    MaxParts = 3
CHECK_DEADLOCK FALSE
INVARIANTS
    StreamInv
    SomethingShown
PROPERTIES
    FollowsProtocol
    StreamCompletes
