SPECIFICATION Spec
CONSTANTS
    ann = ann  bob = bob
    a1 = a1  a2 = a2  a3 = a3  b1 = b1
    Keys = {ann, bob}
    Reqs = {a1, a2, a3, b1}
    KeyOf <- MCKeyOf
    MaxBuckets = 1
    Batch = 1
    Burst = 1
    Period = 2
    TTL = 3
    MaxTime = 4
    NoEntry = NoEntry
    NoTime = NoTime
SYMMETRY Symmetry
INVARIANTS
    TypeOK
    WindowRate
    OwnBurstFirst
    BucketsBounded
CHECK_DEADLOCK FALSE
