SPECIFICATION PromptSpec
CONSTANTS
    MaxCommands = 2
    Worker = {w1}
    Bridge = bridge
    SessionsMayDie = TRUE
    MaxFaults = 0
    MaxInbound = 1
PROPERTIES
    EnqueuedIsPublished
