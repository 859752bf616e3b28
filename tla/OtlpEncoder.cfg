SPECIFICATION Spec
CONSTANT Requests <- SmallRequests
INVARIANTS CleanExit CompleteAnswer CrashesAreEarned
PROPERTY CallEnds
CHECK_DEADLOCK FALSE
