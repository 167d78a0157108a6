CONSTANTS
    NumFrames = 1
    EvQLen = 1
    CopyCnt = 2
    Faults = {"initFail"}
    c1 = c1
    c2 = c2
    Clients = {c1}
    NoClient = NoClient
SPECIFICATION Spec
PROPERTIES
    ForcedStart
CHECK_DEADLOCK FALSE
