SPECIFICATION ResumeSpec
CONSTANTS
    Library <- MCLibrary
    Depth = 3
    Checkpoint = 2
INVARIANTS
    ResumeInv
PROPERTIES
    NothingForgotten
