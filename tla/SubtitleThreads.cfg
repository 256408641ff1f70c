SPECIFICATION Spec
CONSTANTS
    MaxItems = 2
    MaxTime = 3
    MaxRequests = 5
    Delays = {0, 1}
    Deselects = FALSE
PROPERTY PostsCurrent
INVARIANTS
    TypeOK
    NoDanglingImage
    QuietShowsCaption
\* the user may stop for good, and every thread then sleeps
CHECK_DEADLOCK FALSE
