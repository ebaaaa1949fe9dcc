SPECIFICATION Spec
CONSTANTS
    Cameras = {c1}
    Labels = {l1}
    Recorded = {c1}
    MaxEvents = 2
    Slots = {t1, t2}
    MaxBoots = 2
    MayToggle = TRUE
    MayDisable = TRUE
    MayCrash = TRUE
CONSTRAINT EventsApart
PROPERTIES Rows Entries Sensors
CHECK_DEADLOCK FALSE
SYMMETRY SlotSymmetry
