SPECIFICATION FairSpec
CONSTANTS
    MaxItems = 2
    MaxTime = 1
    MaxRequests = 4
    Delays = {0, 1}
    Deselects = TRUE
PROPERTIES
    ForceServed
    ClearReturns
\* the user may stop for good, and every thread then sleeps
CHECK_DEADLOCK FALSE
