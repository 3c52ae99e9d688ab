SPECIFICATION PromptPathSpec
CONSTANTS
    MaxCommands = 2
    Worker = {w1}
    Bridge = bridge
    SessionsMayDie = FALSE
    MaxFaults = 0
    MaxInbound = 1
    Calibration = {1}
    CacheSize = 3
    QueueLen = 1
    MaxDeviceFaults = 1
    MaxWire = 1
CONSTRAINT OneAtFaults
PROPERTIES
    DeliveredIsAnswered
CHECK_DEADLOCK FALSE
