SPECIFICATION FairSpec
CONSTANTS
    PPQN = 4
    SubPerCommon = 2
    ExtPpqChoices <- MCExtPpqChoices
    ExtClockTimeout = 5
    MinBeat = 3
    MaxBeat = 9
    DefaultBeat = 5
    BeatsPerKey = 2
    Asked <- MCAsked
    MaxLag = 2
PROPERTIES
    ShareExact
    GridContinuous
    TicksAfterClockStops
