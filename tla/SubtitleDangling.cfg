SPECIFICATION Spec
CONSTANTS
    MaxItems = 1
    MaxTime = 1
    MaxRequests = 3
    Delays = {0}
    Deselects = TRUE
INVARIANT NoDanglingImage
\* the user may stop for good, and every thread then sleeps
CHECK_DEADLOCK FALSE
