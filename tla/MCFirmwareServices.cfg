SPECIFICATION Spec
CONSTANTS
    RetryLimit = 3
    Builds <- AllBuilds
    Secrets = {"short", "long"}
    Updates <- FourUpdates
    MaxBootUpdates = 2
    MaxBootFaults = 2
    Publisher = {"p1"}
    Types = {"relay_set"}
    MaxHandlers = 8
    MaxMqttFaults = 3
    MaxMessages = 1
    SelfTest = TRUE
    HoldTime = 1
    Base = 2
    Margin = 1
    DriverTimes = {1, 4}
    MessageTime = 1
    Phases <- ThreePhases
    Readings <- TwoReadings
    MaxShown = 2
    MaxChanges = 2
    MaxDisplayFaults = 1
    Feedback = 1
    Hold = 3
    Caller = {"handler", "button"}
    Patterns <- TwoPatterns
    Depth = 8
    MaxBuzzerFaults = 2
INVARIANTS
    TypeOK
    BootsOnlyProven
    ClientOutlivesUsers
    HeadlessIsSafe
    ResetBlinkMeansHold
    PatternsWhole
PROPERTIES
    BootsEnd
    OnlineIsReady
    StatusSettles
    UpdateIsShown
    PanelSettles
    LastSetIsShown
    CallersReturn
    ResetEndsUnlessAwaited
CONSTRAINT Bounds
CHECK_DEADLOCK FALSE
