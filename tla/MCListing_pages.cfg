SPECIFICATION Spec
CONSTANTS
    Lister = "postgres_sessions"
    Ids = {1, 2, 3}
    Limits = {1, 2}
    Cap = 1
    DefaultLimit = 2
CHECK_DEADLOCK FALSE
INVARIANTS
    WalkComplete
