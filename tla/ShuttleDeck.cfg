SPECIFICATION FairSpec
CONSTANTS
    Cap = 2
    Chunk = 1
    Slots <- MCSlots
    FileLen <- MCFileLen
    BootSlot <- MCBootSlot
INVARIANTS
    Inv
PROPERTIES
    LoadsWhole
    LoadEnds
