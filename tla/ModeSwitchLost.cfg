CONSTANTS
    Callers = {app}
    ManualBle = MANUAL_BLE
    AutoServer = AUTO_SERVER
    Others = {AUTO_OFFLINE}
    NoMode = NoMode
    ModeFaults = {"nvs"}
SPECIFICATION ModeSpec
INVARIANT ModeRemembered
