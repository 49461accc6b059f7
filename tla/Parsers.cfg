SPECIFICATION Spec
CONSTANTS
    Answers <- SomeAnswers
    MaxMatch = 6
CHECK_DEADLOCK FALSE
INVARIANTS
    SplitDoesNotMatter
