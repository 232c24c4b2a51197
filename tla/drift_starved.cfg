CONSTANTS
    door = door
    yard = yard
    aimed = aimed
    dusk = dusk
    moved = moved
    Nothing = Nothing
    Cameras = {door, yard}
    Live = {door, yard}
    Views = {aimed, moved}
    Far <- MCFar
    Changing = {door}
    MaxReconnects = 0
    Samples = 1
    MayCrash = FALSE
SPECIFICATION FairPipeline
PROPERTY DriftIsNoticed
