CONSTANTS
    Keys = {f1, f2, f3}
    Debounces = {1}
    DeleteGrace = 1
    MaxInterval = 1
    Concurrency = 2
    MaxBacklog = 4
SPECIFICATION OrderSpec
INVARIANT LastEventRuns
