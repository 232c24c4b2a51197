CONSTANTS
    door = door
    yard = yard
    aimed = aimed
    dusk = dusk
    moved = moved
    Nothing = Nothing
    Cameras = {door, yard}
    Live = {door}
    Views = {aimed}
    Far = {}
    Changing = {}
    MaxReconnects = 1
    Samples = 1
    MayCrash = TRUE
SPECIFICATION FairPipeline
PROPERTY DeadIsReported
