\* Two processes on one run directory, two write failures, two commands or
\* changes each; the reader deletes events once, the newest among them.
SPECIFICATION FairSpec
CONSTANTS
    MaxWork = 2
    MaxFailures = 2
    MaxProcesses = 2
    MaxDeletions = 1
INVARIANTS
    IdsIncrease
    Framed
    BrowserInOrder
PROPERTIES
    Appends
    FailureEnds
\* The last process may end and none be launched after it.
CHECK_DEADLOCK FALSE
