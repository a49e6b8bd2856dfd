SPECIFICATION Spec
CONSTANTS
    Flow = {f1, f2}
    Op = {p1, p2}
    Key = {k1, k2}
    Replica = {r1, r2}
    None = None
    Legacy = Legacy
    Expiration = 2
    Lease = 1
    Retention = 0
    MaxTime = 3
    MaxEnroll = 1
    MaxFaults = 1
INVARIANT AnswersAgree
PROPERTY Implements
PROPERTY ReplacedByConsent
INVARIANT LockServed
SYMMETRY Symmetry
CHECK_DEADLOCK FALSE
