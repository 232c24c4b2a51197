CONSTANTS
    box1 = box1
    box2 = box2
    door = door
    yard = yard
    ann = ann
    ben = ben
    None = None
    Boxes = {box1, box2}
    Label <- MCLabel
    CamerasOf <- SharedCameras
    Reports <- MCReports
    Evaluators = {ann}
    DarkHours = 0
    StaleHours = 0
    Baseline = 2
    MinSamples = 2
    MaxTime = 1
    MaxBeats = 1
SPECIFICATION FairSpec
PROPERTY Settles
