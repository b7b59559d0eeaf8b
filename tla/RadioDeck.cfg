SPECIFICATION FairSpec
CONSTANTS
    Size <- MCSize
    Dial = 8
    Settle = 1
INVARIANTS
    ShownStationPlays
PROPERTIES
    NoChatter
    Tunes
    ResetPlays
