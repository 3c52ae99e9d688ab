SPECIFICATION Spec
CONSTANTS
    w1 = w1
    bridge = bridge
    r1 = r1
    r2 = r2
    r3 = r3
    Token = {1, 2, 3}
    NoToken = 0
    Session = {r1, r2}
    Request = {r1, r2, r3}
    Retry = retry
    Nobody = nobody
    RegistrationFaults = 2
    Caller = {1, 2, 3}
    NoCaller = 0
    ShadowFaults = 1
CONSTRAINT FewAtOnce
INVARIANTS
    TypeOK
    SessionsHold
    SecretIsValid
    ReadsAreFresh
PROPERTIES
    CommandsEnd
    OrphanIsRemoved
CHECK_DEADLOCK FALSE
