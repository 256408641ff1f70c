SPECIFICATION FairSpec
CONSTANTS
    a = a
    b = b
    c = c
    NoMrl = NoMrl
    Mrls = {a, b, c}
    Lists <- MCOne
    MaxRows = 3
    MaxRequests = 2
PROPERTY PlaylistFinishes
\* the player may be silent for good
CHECK_DEADLOCK FALSE
