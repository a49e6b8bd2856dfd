SPECIFICATION Spec
CONSTANTS
    Msg = {a,b}
    IdLess = {}
    MaxArrivals = 3
    MaxBatch = 3
    MaxStops = 1
    MaxRetires = 1
    MaxRuntimes = 1
    MaxFaults = 1
    MaxPerSession = 3
    MaxPerProcess = 3
PROPERTY Settles
PROPERTY Answered
CHECK_DEADLOCK FALSE
