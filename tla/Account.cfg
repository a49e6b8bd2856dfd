SPECIFICATION Spec
CONSTANTS
    Inv = {i1, i2, i3}
    None = None
    MaxGeneration = 2
    MaxAttempts = 2
    MaxDials = 3
INVARIANT LeaseExclusive
INVARIANT OneSocket
INVARIANT NoLostGrant
PROPERTY NoOldGeneration
PROPERTY AbortEnds
CHECK_DEADLOCK FALSE
