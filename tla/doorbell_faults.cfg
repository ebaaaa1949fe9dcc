SPECIFICATION Spec
CONSTANTS
    Cameras = {c1}
    Recorded = {c1}
    MaxPresses = 2
    Cooldown = 0
    Absence = 1
    MinHold = 1
    MaxHold = 2
    MaxBoots = 1
    MayToggle = TRUE
    MayResync = TRUE
    MayFail = TRUE
    MayCrash = FALSE
PROPERTIES CameraFreed ImplementsVisit
CHECK_DEADLOCK FALSE
