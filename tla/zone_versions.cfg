CONSTANTS
    patio = patio
    stall = stall
    cam = cam
    left = left
    right = right
    ada = ada
    bob = bob
    None = None
    Spaces = {patio, stall}
    Polygons = {left}
    Editors = {ada, bob}
    CameraOf <- MCCameraOf
    Related <- MCRelated
    Overlap <- MCOverlap
    FirstRows <- MCFirstRows
    Acks = {TRUE, FALSE}
    MaxTime = 3
    MaxVersions = 5
SYMMETRY EditorSymmetry
SPECIFICATION ZoneSpec
INVARIANTS
    ZoneTypeOK
    OneShape
    BaseReplaced
PROPERTY PastKept
