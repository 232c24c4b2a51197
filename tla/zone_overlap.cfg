CONSTANTS
    patio = patio
    stall = stall
    cam = cam
    left = left
    right = right
    ada = ada
    bob = bob
    None = None
    Spaces = {patio, stall}
    Polygons = {left, right}
    Editors = {ada, bob}
    CameraOf <- MCCameraOf
    Related <- MCRelated
    Overlap <- MCOverlap
    FirstRows <- MCFirstRows
    Acks = {TRUE, FALSE}
    MaxTime = 2
    MaxVersions = 4
SYMMETRY EditorSymmetry
SPECIFICATION ZoneSpec
INVARIANT OverlapConfirmed
