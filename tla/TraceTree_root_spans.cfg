SPECIFICATION Spec
CONSTANTS
    RSpan = {r1}
    SSpan = {s1}
    Span = {p1, p2}
    Event = {e1}
    Link = {l1}
    NULL = NULL
    Arg = Arg
    Calls <- IdCalls
    MayFail = FALSE
SYMMETRY Symmetry
CHECK_DEADLOCK FALSE
INVARIANTS NullParentMeansRoot
