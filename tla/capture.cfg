SPECIFICATION Spec
CONSTANTS
    Cameras = {c1}
    Versions = {1, 2}
    ModesUsed = {"unset", "camera_ai_only"}
    Hosts = {"h1"}
    Together = 1
    MayRefuse = TRUE
    MayCrash = TRUE
INVARIANTS TypeOK AckMeansDark Reconciled
PROPERTY StaysDark
CHECK_DEADLOCK FALSE
