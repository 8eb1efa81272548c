SPECIFICATION Spec
CONSTANTS
    Streams = {stream}
    Services = {service}
    Tasks = {t1, t2, t3}
    NoTask = NoTask
    Stoppers = {s1, s2}
INVARIANTS
    LiveTaskOwned
    LockHeldByLiveTask
    ResourcesOutliveTasks
PROPERTIES
    NoWorkCutShort
    StreamStopEnds
    StopComesBack
