SPECIFICATION FairSpec
CONSTANTS
    Cameras = {c1}
    MayStall = TRUE
    MayExit = TRUE
INVARIANTS TypeOK WipeUndisturbed AckMeansStopped RecordsWhatItShould StopIsFinal
PROPERTY RequestsEnd
CHECK_DEADLOCK FALSE
