SPECIFICATION PromptPathSpec
CONSTANTS
    MaxCommands = 1
    Worker = {w1}
    Bridge = bridge
    SessionsMayDie = FALSE
    MaxFaults = 0
    MaxInbound = 1
    Calibration = {1}
    CacheSize = 3
    QueueLen = 1
    MaxDeviceFaults = 0
    MaxWire = 1
PROPERTIES
    OfflineIsDelivered
CHECK_DEADLOCK FALSE
