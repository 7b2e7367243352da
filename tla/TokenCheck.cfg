SPECIFICATION Spec
CONSTANTS
    MaxInt64 = 9
    MsPerSecond = 2
    MsPerDay = 3
    Absent = Absent
    Byte = {0, 1, 255}
    KeySize = 8
    DigestSize = 1
    MinSeparator = 4
INVARIANTS
    RefreshIsExact
    SignatureHasOneEncoding
CHECK_DEADLOCK FALSE
