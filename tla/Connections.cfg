CONSTANTS
    c1 = c1
    c2 = c2
    c3 = c3
    u1 = u1
    u2 = u2
    NoUser = NoUser
    NoEntry = NoEntry
    User <- MCUser
    Claims <- MCClaims
    Tool <- MCTool
    Conn <- MCConn
    MaxAuths = 1
SPECIFICATION FairSpec
INVARIANTS
    TypeOK
    NavigateReachesAll
    CleanupIsWhole
PROPERTY
    LeaversAreLetGo
CHECK_DEADLOCK FALSE
