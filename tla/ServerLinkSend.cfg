CONSTANTS
    Callers = {"app"}
    ManualBle = MANUAL_BLE
    AutoServer = AUTO_SERVER
    Others = {}
    NoMode = NoMode
    ModeFaults = {}
    Clients = {c1, c2}
    NoClient = NoClient
    Calls = {"start", "send"}
    Env = {}
SPECIFICATION Spec
PROPERTY SendKeepsClient
CHECK_DEADLOCK FALSE
