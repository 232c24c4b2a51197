CONSTANTS
    o1 = o1
    o2 = o2
    t1 = t1
    s1 = s1
    s2 = s2
    None = None
    ObsKeys = {o1}
    TotalKeys = {}
    BucketOf <- OneBucketOf
    UnknownKeys = {}
    Batch = 1
    Keep = 0
    Slots = {s1, s2}
    Rewritten = {o1}
    MaxWrites = 2
SPECIFICATION Spec
PROPERTIES
    ResendIsHarmless
