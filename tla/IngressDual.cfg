SPECIFICATION Spec
CONSTANTS
    Msg = {a}
    IdLess = {}
    MaxArrivals = 3
    MaxBatch = 1
    MaxStops = 1
    MaxRetires = 1
    MaxRuntimes = 1
    MaxFaults = 1
    MaxPerSession = 2
    MaxPerProcess = 2
INVARIANT NoDualMarker
CHECK_DEADLOCK FALSE
