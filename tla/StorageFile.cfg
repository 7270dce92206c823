\* Two files, one with all that may be left of it, one new; two writes of
\* each, three steps on the disk that fail, and one kill of the process.
CONSTANTS
    Files = {f1, f2}
    Old = {f1}
    MaxWrites = 2
    MaxFaults = 3
    MaxCrashes = 1
SPECIFICATION FairSpec
CHECK_DEADLOCK FALSE
INVARIANT TypeOK
PROPERTY ReadNeverGoesBack
PROPERTY SyncIsDurable
PROPERTY EventuallyWritten
