SPECIFICATION FairSpec
CONSTANTS
    Clients = {a, b}
    UserIds = {u1}
    CredIds = {c1, c2}
    SessionIds = {s1, s2}
    Keys = {k1}
    None = None
CHECK_DEADLOCK FALSE
PROPERTIES
    CallsEnd
