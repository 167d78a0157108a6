CONSTANTS
    Callers = {"app"}
    ManualBle = MANUAL_BLE
    AutoServer = AUTO_SERVER
    Others = {}
    NoMode = NoMode
    ModeFaults = {}
    Clients = {c1, c2}
    NoClient = NoClient
    Calls = {"start"}
    Env = {}
SPECIFICATION Spec
INVARIANT NoClientLost
CHECK_DEADLOCK FALSE
