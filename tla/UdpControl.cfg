CONSTANTS
    MaxStations = 2
    MaxEvents = 2
    BleFaults = {"reset"}
    MaxHci = 2
    MailboxSize = 2
    Repeats = 2
    I2sFaults = {"channel", "std", "enable", "write", "disable", "memory"}
SPECIFICATION LiveSpec
INVARIANTS
    HornSafe
    FlagFollowsLink
    Reachable
    CountsStations
PROPERTIES
    SpeakerRestored
    MailboxDrains
    StaysReachable
