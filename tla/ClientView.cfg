CONSTANTS
    Draft = {d1}
    MaxSends = 2
    MaxControls = 1
    MaxUps = 1
    MaxInputs = 3
    MaxDelayed = 1
SPECIFICATION Spec
INVARIANTS
    Holds
    TurnSignal
CHECK_DEADLOCK FALSE
