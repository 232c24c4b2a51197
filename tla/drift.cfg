CONSTANTS
    door = door
    yard = yard
    aimed = aimed
    dusk = dusk
    moved = moved
    Nothing = Nothing
    Cameras = {door}
    Live = {door}
    Views = {aimed, dusk, moved}
    Far <- MCFar
    Changing = {door}
    MaxReconnects = 0
    Samples = 2
    MayCrash = TRUE
SPECIFICATION FairPipeline
PROPERTY
    DriftIsFlagged
    DriftIsCounted
    FlagIsSustained
