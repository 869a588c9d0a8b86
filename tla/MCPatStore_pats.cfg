SPECIFICATION FairSpec
CONSTANTS
    UserIds = {u1, u2}
    PatIds = {p1, p2}
    MaxLifetime = 2
    Coalesce = 2
    MaxTime = 3
    None = None
CHECK_DEADLOCK FALSE
INVARIANTS
    TypeOK
    LastUsedFresh
    RecordsAgree
    UsedOnlyWhileValid
PROPERTIES
    DeadPatStaysDead
    ImplementsBearerTokens
    PatEventuallyDies
