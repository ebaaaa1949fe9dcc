SPECIFICATION FairSpec
CONSTANTS
    Cameras = {c1}
    Labels = {l1}
    Recorded = {c1}
    MaxEvents = 1
    Slots = {t1, t2}
    MaxBoots = 1
    MayToggle = FALSE
    MayDisable = FALSE
    MayCrash = FALSE
PROPERTIES EventsEnd ActiveDrains
CHECK_DEADLOCK FALSE
