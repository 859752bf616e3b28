SPECIFICATION Spec
CONSTANTS
    RSpan = {r1, r2}
    SSpan = {s1}
    Span = {p1, p2}
    Event = {e1}
    Link = {l1}
    NULL = NULL
    Arg = Arg
    Calls <- FailureCalls
    MayFail = TRUE
SYMMETRY Symmetry
CHECK_DEADLOCK FALSE
INVARIANTS FaultsAreEarned LiveIsComplete
PROPERTIES FailureAddsNothing
