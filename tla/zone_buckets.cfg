CONSTANTS
    None = None
    Tracks = {1, 2}
    Places = {1, 2, 3}
    EnterPlaces <- MCEnter
    StayPlaces <- MCStay
    CatchmentPlaces <- MCCatchment
    MinDwell = 1
    ReentrySeconds = 1
    ReentryDistance = 1
    Width = 2
    MaxT = 5
SPECIFICATION Spec
CHECK_DEADLOCK FALSE
INVARIANTS
    VisitsConserved
    GraceEnds
    OccupiedFits
    HeadsCountedOnce
