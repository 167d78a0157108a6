CONSTANTS
    NumFrames = 1
    EvQLen = 2
    CopyCnt = 2
    Faults = {"noSoi", "noEoi", "timeout", "stall"}
    c1 = c1
    c2 = c2
    Clients = {c1}
    NoClient = NoClient
SPECIFICATION FairSpec
INVARIANTS
    LoopHasCamera
PROPERTIES
    GoneClientFreesServer
    StreamMoves
CHECK_DEADLOCK FALSE
