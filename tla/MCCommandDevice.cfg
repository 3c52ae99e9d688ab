SPECIFICATION CaseSpec
CONSTANTS
    Command = {c1, c2, q1, q2}
    Calibration = {c1, c2}
    CacheSize = 3
    QueueLen = 1
    MaxFaults = 0
    Absent = q2
INVARIANTS
    CaseRunsOnce
    CaseCacheHolds
SYMMETRY KindSymmetry
CONSTRAINT BeforeReset
