SPECIFICATION FairLockSpec
CONSTANTS
    Instances = {i1, i2}
    Stranger = Stranger
    Lease = 3
INVARIANTS
    LeaseAgrees
PROPERTIES
    SurvivorAcquires
CHECK_DEADLOCK FALSE
