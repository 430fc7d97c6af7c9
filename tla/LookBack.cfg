SPECIFICATION EitherFairSpec
CONSTANTS
    WarpThreads = 2
    NumTiles = 6
    MaxResident = 3
INVARIANTS
    PrefixCorrect
    LoadsInBounds
    IInv
    StableOrder
PROPERTIES
    DescriptorsMonotone
    AllTilesScanned
