SPECIFICATION FSpec
CONSTANTS
    Contents <- MCContents
    Images <- MCImages
    Bodies <- MCBodies
    Block = 2
    MaxCandidates = 2
    MaxInsert = 3
    MaxObject = 16
    MaxPackObjects = 4
    MaxSideband = 4
    Digest = 2
    MaxPack = 14
INVARIANT EveryPackIsFinished
CHECK_DEADLOCK FALSE
