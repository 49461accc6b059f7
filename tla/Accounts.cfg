SPECIFICATION Spec
CONSTANTS
    ann = ann
    bob = bob
    r1 = r1
    r2 = r2
    model = model
    ApiKey = ApiKey
    NoEmail = NoEmail
    Emails <- TwoEmails
    Added <- OnlyAnn
    Configured <- TwoAccounts
    Requests <- TwoRequests
    Models <- OneModel
    ModelOf <- SameModel
    Delays <- OneTick
    RefreshInterval = 1
    MinAttempts = 3
    MaxTime = 1
    MaxTokens = 2
    MaxCrashes = 1
    MaxEdits = 1
CHECK_DEADLOCK FALSE
INVARIANTS
    ListsAreSane
    NewestTokenKept
    NobodySkipped
PROPERTIES
    TokensAreFresh
    FailuresRotate
SYMMETRY Interchangeable
CONSTRAINT CrashesMatter
