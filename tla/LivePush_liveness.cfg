\* Two sessions: one can be new, or unmapped, while the poller serves the other.
CONSTANTS
    a = a
    b = b
    None = None
    Session <- TwoSessions
    SessionLimit = 2
    RescanEvery = 2
    TurnRows = 1
    MaxRows = 1
    MaxFailures = 1
SPECIFICATION FairSpec
INVARIANT
    WatchedIsKnown
PROPERTIES
    RowsReachClient
    NewSessionSurfaces
