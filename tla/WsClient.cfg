CONSTANTS
    MaxItems = 4
    MaxTexts = 1
    LastCap = 5
SPECIFICATION FairSpec
INVARIANTS
    TypeOK
    RetryIsPending
    AuthComesFirst
    ArrivedIsServed
PROPERTIES
    QuietAfterClose
    ComesBack
