SPECIFICATION Spec
CONSTANTS
    Channels = 2
    Devices <- MCDevices
    MaxClock = 1
INVARIANTS
    TypeOK
    ErasedStaysErased
    OffMeansOff
    IdleIsDurable
    ReportsAreTrue
PROPERTIES
    ImplementsPanel
CONSTRAINT OneQuestionEach
CHECK_DEADLOCK FALSE
