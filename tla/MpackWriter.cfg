SPECIFICATION Spec
CONSTANTS
    Capacity = 4
    MinBuffer = 3
    FixStr = 2
    Str8 = 3
    MaxTag = 3
    FixedSizes = {0, 1, 2, 3, 6}
    MaxAsked = 13
    MaxDoublings = 3
INVARIANTS TypeOK AnswerIsExact FileIsPrefix BlockHasOneOwner ErrorsAreEarned
CHECK_DEADLOCK FALSE
