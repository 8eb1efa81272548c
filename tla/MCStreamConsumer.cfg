SPECIFICATION Spec
CONSTANTS
    Workers = {w1}
    Messages = {m1, m2}
    Queues <- TwoQueues
    BatchSize = 2
    Outputs = 2
    Limits = {0, 1}
    MaxReadFailures = 1
INVARIANTS
    AcknowledgedIsComplete
    HandledAtMostOnce
    StatsAreExact
PROPERTIES
    NormalEndLosesNothing
    StopEnds
    EventsSettle
