CONSTANTS
    c1 = c1
    c2 = c2
    a = a
    b = b
    c = c
    Loop = Loop
    None = None
    Client <- MCClient
    Session <- MCSession
    Sees <- MCSees
    MaxFailures = 1
SPECIFICATION PeersFairSpec
INVARIANT
    LastListingIsMapped
PROPERTIES
    RefusedOnlyMeanwhile
    ListedComesBack
