SPECIFICATION Spec
CONSTANTS
    RSpan = {r1}
    SSpan = {s1}
    Span = {p1, p2}
    Event = {e1}
    Link = {l1}
    NULL = NULL
    Arg = Arg
    Calls <- OwnershipCalls
    MayFail = TRUE
SYMMETRY Symmetry
CHECK_DEADLOCK FALSE
INVARIANTS TypeOK LeaksAreEarned OnlyMessagesDangle FaultsAreEarned
PROPERTIES LossIsReported
