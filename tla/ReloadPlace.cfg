SPECIFICATION Spec
CONSTANTS
    Mrls     = {a, b}
    Unique   = {a, b}
    NoMrl    = NoMrl
    Null     = Null
    MaxLoads = 3
    MaxPos   = 1
SYMMETRY Symmetry
INVARIANT ReloadKeepsPlace
