SPECIFICATION CaseSpec
CONSTANTS
    MaxCommands = 2
    Worker = {w1, w2}
    Only = w1
    Bridge = bridge
    SessionsMayDie = FALSE
    MaxFaults = 1
    MaxInbound = 1
    Calibration = {1}
    CacheSize = 3
    QueueLen = 1
    MaxDeviceFaults = 1
    MaxWire = 1
INVARIANTS
    TypeOK
    VerdictMatchesRow
    FifoOnWire
    DeviceDoneMeansExecuted
    RepeatsRunOnce
PROPERTIES
    ImplementsLifecycle
SYMMETRY WorkerSymmetry
CHECK_DEADLOCK FALSE
