SPECIFICATION FairListenerSpec
CONSTANTS
    MaxConnections = 2
INVARIANTS
    OnlyOwnCallbackCompletes
PROPERTIES
    KeepsToHandoff
    BrokenActivationEnds
    CallbackIsHeard
CHECK_DEADLOCK FALSE
