CONSTANTS
    box1 = box1
    box2 = box2
    door = door
    yard = yard
    ann = ann
    ben = ben
    None = None
    Boxes = {box1}
    Label <- MCLabel
    CamerasOf <- MCCameras
    Reports <- MCReports
    Evaluators = {ann, ben}
    DarkHours = 0
    StaleHours = 0
    Baseline = 2
    MinSamples = 2
    MaxTime = 1
    MaxBeats = 2
SPECIFICATION FairSpec
INVARIANTS
    OneOpen
    SilenceIsFound
PROPERTIES
    Settles
    NeverWorse
    MatchesEvaluated
