SPECIFICATION Spec
CONSTANTS
    Lifetime = 2
    RefreshAfter = 0
    MaxTime = 2
    NoToken = NoToken
    BadToken = BadToken
INVARIANTS
    LogoutClears
CHECK_DEADLOCK FALSE
