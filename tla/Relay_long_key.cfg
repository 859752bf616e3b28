SPECIFICATION Spec
CONSTANTS
    NULL = NULL
    text = text
    short = short
    other = other
    long = long
    Text = {text}
    Key = {short, other, long}
    LongKey = {long}
    Contexts <- OwnContexts
    ForeignOtlp <- NoMessage
    ForeignMsgpack <- NoMessage
    Clock = {7}
    MaxHops = 4
PROPERTIES EncodedDecodes
CHECK_DEADLOCK FALSE
