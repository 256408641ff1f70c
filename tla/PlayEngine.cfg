SPECIFICATION Spec
CONSTANTS
    Mrls     = {a, b}
    Unique   = {a, b}
    NoMrl    = NoMrl
    Null     = Null
    MaxLoads = 2
    MaxPos   = 1
SYMMETRY Symmetry
INVARIANTS
    TypeOK
    EndCarriesState
    StartedIsSynced
    Settled
    SavedOnExit
