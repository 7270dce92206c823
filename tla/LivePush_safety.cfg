\* One session, rows enough for a turn to overlap a foreign row on either side.
CONSTANTS
    a = a
    b = b
    None = None
    Session <- OneSession
    SessionLimit = 1
    RescanEvery = 2
    TurnRows = 2
    MaxRows = 3
    MaxFailures = 1
SPECIFICATION Spec
INVARIANTS
    TypeOK
    NothingPassedOver
PROPERTIES
    PushedInOrder
    ImplementsFeed
