SPECIFICATION Spec
CONSTANTS
    Clients = {a, b}
    UserIds = {u1}
    CredIds = {c1, c2, c3}
    SessionIds = {s1, s2, s3}
    Keys = {k1}
    None = None
SYMMETRY Symmetry
CHECK_DEADLOCK FALSE
INVARIANTS
    TypeOK
    UniqueActiveKey
    ReplacedOnce
PROPERTIES
    CascadeComplete
    OnlyCreateUnbacks
    ImplementsBearerTokens
