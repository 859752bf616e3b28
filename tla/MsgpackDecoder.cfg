SPECIFICATION Spec
CONSTANTS
    NULL = NULL
    text = text
    short = short
    long = long
    Text = {text}
    Key = {short, long}
    LongKey = {long}
    Buffer <- MCBuffer
    Sent <- MCSent
    Offered <- MCOffered
    MaxFree = 2
    MaxMap = 16
    MaxArray = 2
    Word = 16
    LongWord = 64
    MaxCalls = 2
    Now = 7
INVARIANTS OwnComeBack CutIsRefused LeaksAreRepeats CrashesAreEarned
PROPERTY CallerEnds
CHECK_DEADLOCK FALSE
