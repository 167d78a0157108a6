CONSTANTS
    NumFrames = 3
    EvQLen = 2
    CopyCnt = 3
    Faults = {"overflow", "oversize", "badStart"}
SPECIFICATION PoolSpec
INVARIANTS
    DmaExclusive
    NoFrameLost
    OnePlace
    LenFits
PROPERTIES
    HeldFrameStable
    FrameOwnerSpec
