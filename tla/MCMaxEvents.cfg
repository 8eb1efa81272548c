SPECIFICATION Spec
CONSTANTS
    Workers = {w1}
    Messages = {m1, m2}
    Queues <- TwoQueues
    BatchSize = 1
    Outputs = 0
    Limits = {1}
    MaxReadFailures = 0
INVARIANT MaxEventsIsALimit
