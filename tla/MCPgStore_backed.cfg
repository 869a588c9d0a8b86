SPECIFICATION Spec
CONSTANTS
    Clients = {a, b}
    UserIds = {u1}
    CredIds = {c1, c2}
    SessionIds = {s1}
    Keys = {k1}
    None = None
CHECK_DEADLOCK FALSE
INVARIANTS
    LiveSessionBacked
