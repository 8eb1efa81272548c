SPECIFICATION Spec
CONSTANTS
    Items = {i1, i2}
    Keys = {k1}
    Timer = timer
    Parts = {p1, p2}
    NoPart = NoPart
    NoKey = NoKey
    MaxSizes = {0}
    FlushByTime = TRUE
    StepDelay = FALSE
    MaxSaveFailures = 0
INVARIANT DoneIsKept
CHECK_DEADLOCK FALSE
