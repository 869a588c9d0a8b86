SPECIFICATION Spec
CONSTANTS
    Clients = {a, b}
    Autocommit = {a}
    UserIds = {u1}
    FactorIds = {m1, m2}
    WebAuthnIds = {w1}
    Slots = {i1, i2}
    MaxCount = 2
    None = None
SYMMETRY Symmetry
CHECK_DEADLOCK FALSE
INVARIANTS
    TypeOK
    UniqueActiveFactor
    SpentOnce
    NoDeadlockAlone
PROPERTIES
    NoLostUpdate
    RevokedNotAccepted
