CONSTANTS
    FbCount = 3
    MaxFaults = 5
    LateFaults = {"remove"}
    Bytes = {216, 217, 254, 255}
    MaxLen = 8
    Half = 7
    Payload = 2
    IndexMod = 4
    LengthMod = 4
    SeqMod = 4
    Lengths = {0, 1, 2, 3, 5, 6}
    MaxAge = 3
    Tasks = {"caller"}
    MaxCount = 2
SPECIFICATION SeqSpec
INVARIANTS
    NothingLeft
    NoHandleLost
    UpIsComplete
    ScanCorrect
    LastBlockCovered
    HeadersIdentify
    Reassembles
    OneDirection
    StatesAgree
PROPERTIES
    BringUpComesUp
    Implements
