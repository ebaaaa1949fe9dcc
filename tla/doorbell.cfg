SPECIFICATION FairSpec
CONSTANTS
    Cameras = {c1}
    Recorded = {c1}
    MaxPresses = 2
    Cooldown = 1
    Absence = 1
    MinHold = 2
    MaxHold = 3
    MaxBoots = 2
    MayToggle = FALSE
    MayResync = FALSE
    MayFail = FALSE
    MayCrash = TRUE
INVARIANTS TypeOK OneVisit OpenRowSupervised
PROPERTIES NoEarlyLeave PressRings RowsClose
CHECK_DEADLOCK FALSE
