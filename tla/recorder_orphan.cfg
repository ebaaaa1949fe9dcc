SPECIFICATION Spec
CONSTANTS
    Cameras = {c1}
    MayStall = TRUE
    MayExit = FALSE
INVARIANTS OneChild
CHECK_DEADLOCK FALSE
