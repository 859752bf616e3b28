SPECIFICATION Spec
CONSTANTS
    NULL = NULL
    text = text
    short = short
    other = other
    long = long
    Text = {text}
    Key = {short, other, long}
    LongKey = {long}
    Contexts <- OwnContexts
    ForeignOtlp <- OtlpMessages
    ForeignMsgpack <- MsgpackMessages
    Clock = {7, 9}
    MaxHops = 4
INVARIANTS TypeOK LineageKept RoutesCommute
PROPERTIES MsgpackLosesOnlyFlags TextSurvivesMsgpack OtlpSettles
CHECK_DEADLOCK FALSE
