SPECIFICATION FairSpec
CONSTANTS
    a = a
    b = b
    c = c
    NoMrl = NoMrl
    Mrls = {a, b}
    Lists <- MCTwo
    MaxRows = 3
    MaxRequests = 2
INVARIANTS
    TypeOK
    LoadedIsCurrent
PROPERTIES
    FinishesFromLoaded
    RepeatPlaysAll
\* the player may be silent for good
CHECK_DEADLOCK FALSE
