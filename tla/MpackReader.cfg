SPECIFICATION Spec
CONSTANTS
    Base = 128
    FixCount = 8
    FixStr = 8
    FixInt = 8
    NanoMax = 60000000
    Inputs <- MCInputs
    Capacity = 10
    MinBuffer = 9
    FixedSizes = {3, 9}
    SmallFraction = 4
    SkipFraction = 2
    Counts = {0, 5, 12}
    TextSizes = {6}
    Pieces = {3}
    MaxBehind = 0
INVARIANTS TypeOK AnswersAreExact
PROPERTIES ErrorsAreEarned ErrorIsFinal CallEnds
CHECK_DEADLOCK FALSE
