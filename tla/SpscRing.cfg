SPECIFICATION Spec
CONSTANTS
    CounterModulus = 8
    BufBytes <- MCBufBytes
    MaxChunk = 3
    MaxStream = 9
INVARIANTS
    OccupancyExact
    UnreadIntact
    ReadsInOrder
PROPERTIES
    ImplementsFifo
    EventuallyRead
CHECK_DEADLOCK FALSE
