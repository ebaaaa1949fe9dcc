SPECIFICATION Spec
CONSTANTS
    Cameras = {c1}
    Labels = {l1}
    Recorded = {c1}
    MaxEvents = 1
    Slots = {t1, t2}
    MaxBoots = 1
    MayToggle = TRUE
    MayDisable = FALSE
    MayCrash = FALSE
CONSTRAINT Timely
INVARIANTS NoWedgedRow
CHECK_DEADLOCK FALSE
SYMMETRY SlotSymmetry
