SPECIFICATION Spec
CONSTANTS
    UserIds = {u1, u2}
    CredIds = {c1, c2, c3}
    SessionIds = {s1}
    Tokens = {t1}
    CredentialType = {"password", "passkey"}
    Identifiers = {e1}
    DisplayNames = {}
    Passwords = {p1}
    TtlInputs = {1}
    MinTtl = 1
    MaxTime = 0
    None = None
CHECK_DEADLOCK FALSE
INVARIANTS
    UniqueActiveCredential
