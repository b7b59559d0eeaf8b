SPECIFICATION PickupSpec
CONSTANTS
    deckA = deckA
    deckB = deckB
    Top = 3
    Knobs = 1
    Params = 2
    Decks <- BothDecks
    Deadband = 0
    CatchWindow = 0
    EndWindow = 1
    EnginePage = TRUE
    AuxParam = 2
    Kept <- Halves
    Repoints = TRUE
SYMMETRY DeckSymmetry
INVARIANTS
    Inv
    SweepCatches
PROPERTIES
    NoJump
