SPECIFICATION FairSpec
CONSTANTS
    Instances = {i1, i2}
    Nobody = Nobody
    Poll = 1
    Freshness = 2
    MaxLate = 1
    MaxSetBack = 1
    MaxRequests = 2
INVARIANTS
    BoundedReactions
    AnnouncedIsOnDisk
PROPERTIES
    PeersFollow
    FlappingEnds
CHECK_DEADLOCK FALSE
