SPECIFICATION FairUISpec
CONSTANTS
    Embeddings = {"child", "matched", "visible"}
INVARIANTS
    TaskMatchesStatus
    UnlockingHasWork
    NoLostWakeup
    WatcherSettled
    QuietAfterDestructor
    ContentSettled
    NoDeadEnd
PROPERTIES
    ImplementsLicenseStatus
    PendingIsTaken
    ScreenFollows
CHECK_DEADLOCK FALSE
