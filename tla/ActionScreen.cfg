SPECIFICATION ScreenFairSpec
CONSTANTS
    Engines <- MCEngines
    ClockChoices = 2
    Idle = 1
INVARIANTS
    ScreenInv
PROPERTIES
    FirstVisitHarmless
    GestureIsNoClick
    HandsBack
