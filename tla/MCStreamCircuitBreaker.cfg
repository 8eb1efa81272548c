SPECIFICATION Spec
CONSTANTS
    Callers = {c1, c2}
    NoCaller = NoCaller
    InitialBackoff = 1
    MaxBackoff = 3
    FailuresToOpen = 3
    MaxBackoffTasks = 3
INVARIANTS
    BreakerConsistent
PROPERTIES
    KeepsPromise
    WaitEnds
    BackoffHappens
