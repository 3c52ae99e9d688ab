SPECIFICATION Spec
CONSTANTS
    s1 = s1
    s2 = s2
    p1 = p1
    None = None
    Ssids <- MCSsids
    Passwords <- MCPasswords
    Credentials <- MCCredentials
    Accepted <- MCAccepted
    MaxReconnects = 1
    MaxLosses = 1
    MaxWrites = 3
INVARIANT
    SavedIsWhatConnected
CHECK_DEADLOCK FALSE
