CONSTANTS
    None = None
    Grace = 1
    Operators = {"ada", "bob"}
    MaxTime = 3
    MaxEvents = 5
    MaxCameras = 3
SPECIFICATION Spec
CONSTRAINT OnePart
INVARIANTS
    RowFollows
    GraceIsGranted
    BilledAlike
