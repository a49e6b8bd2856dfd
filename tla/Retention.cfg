SPECIFICATION BudgetSpec
CONSTANTS
    Reservation = {r1, r2, r3}
    Session = {sA, sB}
    Charge = {1, 3}
    maxMessagesPerSession = 2
    maxBytesPerSession = 4
    maxMessagesPerProcess = 2
    maxBytesPerProcess = 5
    MaxHolds = 2
INVARIANTS
    WithinLimits
    Conserved
    HeldIsCharged
CHECK_DEADLOCK FALSE
