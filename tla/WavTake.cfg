SPECIFICATION FairSpec
CONSTANTS
    Cap = 3
    Scratch = 2
    SyncFrames = 2
    MaxTake = 6
    Spaces <- MCSpaces
INVARIANTS
    Inv
    LossWhileSound
PROPERTIES
    KeepsCheckpoint
    FinalizeEnds
CHECK_DEADLOCK FALSE
