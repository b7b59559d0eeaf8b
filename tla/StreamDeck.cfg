SPECIFICATION FairSpec
CONSTANTS
    CounterModulus = 4
    Cap = 2
    Scratch = 2
    Block = 1
    Lengths <- MCLengths
    MaxEpoch = 2
    MaxTake = 3
    Names = 5
    IsrAtomic = TRUE
INVARIANTS
    Inv
    HeardInOrder
PROPERTIES
    TakeComplete
    PlayEnds
    ImplementsService
