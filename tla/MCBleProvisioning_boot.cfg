SPECIFICATION Spec
CONSTANTS
    s1 = s1
    s2 = s2
    p1 = p1
    None = None
    Ssids <- MCSsids
    Passwords <- MCPasswords
    Credentials <- MCCredentials
    Accepted <- MCAccepted
    MaxReconnects = 1
    MaxLosses = 1
    MaxWrites = 3
INVARIANTS
    TypeOK
    EventGroupsHold
    DoneIsComplete
    NeverDeaf
PROPERTIES
    NobodyWaitsForEver
CHECK_DEADLOCK FALSE
