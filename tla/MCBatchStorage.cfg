SPECIFICATION Spec
CONSTANTS
    Items = {i1, i2, i3}
    Keys = {k1, k2}
    Timer = timer
    Parts = {p1, p2}
    NoPart = NoPart
    NoKey = NoKey
    MaxSizes = {0, 2}
    FlushByTime = TRUE
    StepDelay = FALSE
    MaxSaveFailures = 1
PROPERTIES RemovedOnlySaved BufferIsFlushed
CHECK_DEADLOCK FALSE
