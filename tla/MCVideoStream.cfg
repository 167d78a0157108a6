CONSTANTS
    NumFrames = 1
    EvQLen = 1
    CopyCnt = 2
    Faults = {"overflow", "oversize", "badStart", "noSoi", "noEoi", "timeout", "initFail", "stall"}
    c1 = c1
    c2 = c2
    Clients <- MCClients
    NoClient = NoClient
SPECIFICATION Spec
SYMMETRY MCSymmetry
INVARIANTS
    NoFrameLeak
    FlagsAgree
PROPERTIES
    DriverContract
CHECK_DEADLOCK FALSE
