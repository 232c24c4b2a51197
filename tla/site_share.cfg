CONSTANTS
    r1 = r1
    r2 = r2
    c1 = c1
    c2 = c2
    None = None
    Runners = {r1, r2}
    Cameras = {c1, c2}
    CameraOf <- MCCameraOf
    MaxBucket = 2
    MaxEntries = 1
    MaxRuns = 2
SPECIFICATION Spec
CHECK_DEADLOCK FALSE
INVARIANT ShareIsAShare
