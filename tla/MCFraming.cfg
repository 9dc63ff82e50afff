SPECIFICATION FairSpec
CONSTANTS
    Header = 2
    Width = 8
    BufLen = 12
    LenWidth = 32
    MaxSegment = 14
    Claims = {1, 4, 11, 30, 31}
    MaxFrames = 3
    MaxStream = 15
INVARIANTS
    BufferIsTail
    SplitsLikeReference
    HandedInOrder
PROPERTIES
    LoopEnds
