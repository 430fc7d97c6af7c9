SPECIFICATION Spec
CONSTANTS
    WarpThreads = 2
    NumTiles = 5
    MaxResident = 3
INVARIANTS
    ValueInPlace
PROPERTIES
    ImplementsLookBack
