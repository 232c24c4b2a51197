CONSTANTS
    patio = patio
    cam = cam
    left = left
    ada = ada
    bob = bob
    None = None
    Spaces = {patio}
    Polygons = {left}
    Editors = {ada, bob}
    CameraOf <- MCCameraOf
    Related <- MCRelated
    Overlap <- MCOverlap
    FirstRows <- MCFirstRows
    Acks = {FALSE}
    MaxTime = 3
    MaxVersions = 4
    BucketLen = 2
    Watched = {1}
SPECIFICATION Spec
SYMMETRY EditorSymmetry
INVARIANTS
    OneShape
    BaseReplaced
PROPERTIES
    ReportsKept
    ImplementsHistory
