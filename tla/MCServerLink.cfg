CONSTANTS
    Callers = {"app"}
    ManualBle = MANUAL_BLE
    AutoServer = AUTO_SERVER
    Others = {}
    NoMode = NoMode
    ModeFaults = {}
    Clients = {c1, c2}
    NoClient = NoClient
    Calls = {"start", "stop", "send"}
    Env = {"close", "memory"}
SPECIFICATION MCSpec
INVARIANTS
    UseAfterFreeNeedsRace
    LeakNeedsRace
    StaleFlagNeedsRace
    LeftoverNeedsRace
    UnheardNeedsRace
    ModeRemembered
PROPERTIES
    LifeUntilRace
    ComesOnline
    GoesOffline
    CallsReturn
CHECK_DEADLOCK FALSE
