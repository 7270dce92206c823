\* Two turns over two connections, two deltas each, and an odd number of ids, so
\* that they also wrap between the two ids of a turn; ids start over once, by a
\* wrap or by a restart of the bridge.
CONSTANTS
    SynthIds = 5
    MaxTurns = 2
    MaxDeltas = 2
    MaxConns = 2
    MaxEpochs = 1
SPECIFICATION FairSpec
CHECK_DEADLOCK FALSE
INVARIANT TypeOK
PROPERTY TextOnlyGrows
PROPERTY BubbleKeepsTurn
PROPERTY ReplyCompletes
