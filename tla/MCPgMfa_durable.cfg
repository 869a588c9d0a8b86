SPECIFICATION Spec
CONSTANTS
    Clients = {a, b}
    Autocommit = {a}
    UserIds = {u1}
    FactorIds = {m1, m2}
    WebAuthnIds = {w1}
    Slots = {i1, i2}
    MaxCount = 1
    None = None
CHECK_DEADLOCK FALSE
INVARIANTS
    Durable
