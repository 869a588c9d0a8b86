SPECIFICATION Spec
CONSTANTS
    UserIds = {u1}
    FactorIds = {m1, m2}
    WebAuthnIds = {w1}
    Slots = {i1, i2}
    MaxCount = 2
    PendingTtl = 1
    MaxTime = 2
    None = None
CHECK_DEADLOCK FALSE
INVARIANTS
    OneActiveTotp
