SPECIFICATION Spec
CONSTANTS
    RSpan = {r1, r2}
    SSpan = {s1, s2}
    Span = {p1, p2}
    Event = {e1}
    Link = {l1}
    NULL = NULL
    Arg = Arg
    Calls <- LifecycleCalls
    MayFail = FALSE
SYMMETRY Symmetry
INVARIANTS ListsAreExact SpansAreInBothLists NothingOutlivesContext
PROPERTIES ImplementsForest
CHECK_DEADLOCK FALSE
