SPECIFICATION FairSpec
CONSTANTS
    Lifetime = 2
    RefreshAfter = 0
    MaxTime = 2
    NoToken = NoToken
    BadToken = BadToken
INVARIANTS
    UnlockedHasToken
    UnlockedIsPersisted
PROPERTIES
    ImplementsHandoff
    OnlyWithdrawalLocks
    UnlockResolves
CHECK_DEADLOCK FALSE
