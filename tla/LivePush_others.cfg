CONSTANTS
    a = a
    b = b
    None = None
    Session <- OneSession
    SessionLimit = 1
    RescanEvery = 2
    TurnRows = 2
    MaxRows = 3
    MaxFailures = 1
SPECIFICATION Spec
INVARIANT OthersRowsArePushed
