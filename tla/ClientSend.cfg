SPECIFICATION Spec
CONSTANTS
    MaxSends = 3
    MaxUnacked = 2
    MaxPending = 1
    MaxDials = 3
    MaxCalls = 2
    MaxNested = 1
    MaxResults = 1
INVARIANT NothingStranded
INVARIANT NoStaleSession
INVARIANT InOrder
INVARIANT RetryIsArmed
PROPERTY OneRecovery
CHECK_DEADLOCK FALSE
