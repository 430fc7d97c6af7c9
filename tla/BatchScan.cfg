SPECIFICATION FairSpec
CONSTANTS
    WarpThreads = 2
    Blocks = {b1, b2, b3}
    NumTiles = 9
    TilesPerBatch = 4
INVARIANTS
    OutputCorrect
    NoStaleDescriptor
    ResetAlone
PROPERTIES
    AllTilesScanned
