SPECIFICATION Spec
CONSTANTS
    UserIds = {u1, u2}
    FactorIds = {m1, m2, m3}
    WebAuthnIds = {w1}
    Slots = {i1, i2}
    MaxCount = 2
    PendingTtl = 1
    MaxTime = 2
    None = None
SYMMETRY Symmetry
CHECK_DEADLOCK FALSE
INVARIANTS
    TypeOK
    SlotSound
    
    RemainingExact

    
    
