SPECIFICATION TapeFairSpec
CONSTANTS
    Frames = 4
    Passes = 3
PROPERTIES
    TakeSurvives
    StoppedOnlyFaded
    FadeEnds
