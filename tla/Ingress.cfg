SPECIFICATION Spec
CONSTANTS
    Msg = {a,b,c}
    IdLess = {c}
    MaxArrivals = 3
    MaxBatch = 2
    MaxStops = 1
    MaxRetires = 1
    MaxRuntimes = 2
    MaxFaults = 1
    MaxPerSession = 2
    MaxPerProcess = 2
SYMMETRY Symmetry
INVARIANT OneResult
INVARIANT RunsInOrder
INVARIANT RetentionExact
PROPERTY StoppedNeverStarts
CHECK_DEADLOCK FALSE
