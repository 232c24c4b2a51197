CONSTANTS
    o1 = o1
    t1 = t1
    s1 = s1
    s2 = s2
    None = None
    ObsKeys = {o1}
    TotalKeys = {t1}
    BucketOf <- PairBucketOf
    UnknownKeys = {}
    Batch = 1
    Keep = 0
    Slots = {s1, s2}
    MaxWrites = 2
    MaxLosses = 1
    Rewritten = {o1}
SPECIFICATION PowerSpec
INVARIANTS
    AckIsDurable
    DiskIsKept
PROPERTIES
    Drains
