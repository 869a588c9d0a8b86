SPECIFICATION FairSpec
CONSTANTS
    UserIds = {u1, u2}
    CredIds = {c1, c2}
    SessionIds = {s1, s2}
    Tokens = {t1, t2}
    CredentialType = {"oidc"}
    Identifiers = {e1}
    DisplayNames = {}
    Passwords = {}
    TtlInputs = {0, 1}
    MinTtl = 1
    MaxTime = 3
    None = None
CHECK_DEADLOCK FALSE
INVARIANTS
    TypeOK
    LiveSessionBacked
    TokenMapsExact
    SessionTimes
PROPERTIES
    DeadTokenStaysDead
    ImplementsBearerTokens
    TokenEventuallyDies
