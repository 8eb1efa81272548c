SPECIFICATION Spec
CONSTANTS
    s1 = s1
    s2 = s2
    Runs = {r1, r2}
    Steps = {s1, s2}
    Shapes <- Dependencies
    Handlers <- Hooks
    Outputs = {o1, o2}
    BatchSize = 2
INVARIANTS InitializedFirst SuccessIsComplete TimeoutStopsWork ReadsAreFinal
PROPERTIES RequestsEnd FunctionsEnd
CHECK_DEADLOCK FALSE
