SPECIFICATION Spec
CONSTANTS
    Cameras = {c1}
    Labels = {l1, l2}
    Recorded = {c1}
    MaxEvents = 1
    Slots = {t1, t2}
    MaxBoots = 2
    MayToggle = TRUE
    MayDisable = TRUE
    MayCrash = TRUE
CONSTRAINT KeysApart
INVARIANTS TypeOK EnrichExclusive FlaggedHasFile
PROPERTIES AckMeansSilent ImplementsRecord
CHECK_DEADLOCK FALSE
SYMMETRY KeySymmetry
