SPECIFICATION FairSpec
CONSTANTS
    Size = 4
    Full = 4
    Debounce = 1
    MaxTicks = 4
    Routes = {"stereo", "doubleMono"}
    Factory <- MCFactory
    Settings <- MCSettings
INVARIANTS
    Inv
    InPhase
    UnsavedIsDirty
PROPERTIES
    KitKept
