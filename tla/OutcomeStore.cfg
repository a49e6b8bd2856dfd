SPECIFICATION Spec
CONSTANTS
    Key = {k1, k2}
    Op = {p1, p2}
    MaxHot = 1
    MaxRecovery = 1
INVARIANTS
    GateExclusive
    NeverShown
    AnswersLast
SYMMETRY Symmetry
