SPECIFICATION LockSpec
CONSTANTS
    Instances = {i1, i2}
    Stranger = Stranger
    Lease = 3
INVARIANTS
    MutualExclusion
CHECK_DEADLOCK FALSE
