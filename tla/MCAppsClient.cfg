SPECIFICATION Spec
CONSTANTS
    Callers = {c1, c2}
    NumHosts = 2
    Thresholds = {0, 2}
    ResetSeconds = 2
    OpenSeconds = 1
    Retries = 1
    Strategies = {"public_key", "unsecured"}
    Renew = 1
    Lifetime = 3
    MaxTime = 4
INVARIANTS OpenOnlyAtThreshold FirstTokenIsFresh
PROPERTIES EveryHostGetsItsTurn
CHECK_DEADLOCK FALSE
