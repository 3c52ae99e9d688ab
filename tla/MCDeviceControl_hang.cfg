SPECIFICATION FairSpec
CONSTANTS
    Channels = 1
    Devices <- Untroubled
    MaxClock = 0
PROPERTIES
    ResetEnds
CHECK_DEADLOCK FALSE
