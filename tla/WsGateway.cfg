CONSTANTS
    p1 = p1
    p2 = p2
    Peer <- TwoPeers
    MaxRows = 2
    MaxConns = 2
    MaxViews = 1
    MaxErrors = 1
SPECIFICATION Spec
SYMMETRY PeerSymmetry
INVARIANTS
    TypeOK
    PendingCountsMissing
    CacheKeepsUp
    CachedIsShown
CHECK_DEADLOCK FALSE
