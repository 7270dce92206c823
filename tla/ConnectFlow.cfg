CONSTANTS
    u1 = u1
    u2 = u2
    Nobody = Nobody
    NoConfig = NoConfig
    None = None
    User <- TwoUsers
SPECIFICATION FairSpec
INVARIANTS
    TypeOK
    LoopsDoNotNest
    SendsAreRouted
    ReattachedAsSeeded
PROPERTIES
    SeededIsKept
    FlowConnects
