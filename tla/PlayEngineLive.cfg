SPECIFICATION FairSpec
CONSTANTS
    Mrls     = {a, b}
    Unique   = {a}
    NoMrl    = NoMrl
    Null     = Null
    MaxLoads = 2
    MaxPos   = 0
PROPERTIES
    ImplementsPlayer
    QuitCompletes
    OpenedIsSynced
