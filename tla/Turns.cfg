SPECIFICATION Spec
CONSTANTS
    Run = {1, 2, 3}
    OriginOf <- OriginAt
    Presence = {3}
    MaxPoisoned = 1
    MaxNow = 4
    MaxEpoch = 1
    Approval = {"x"}
    Device = {1, 2}
    AcctOf <- OneAccount
    For <- BothAccounts
    Configured = {1, 2}
    Approver = {1}
    BindCap = 2
    PendingCap = 2
    ResolvedCap = 1
    MaxFrames = 2
    MaxLeaves = 1
    MaxMsg = 3
    MaxLen = 2
    MaxBlocks = 1
    MaxFlips = 1
    Turn = {1, 2}
    Agent = {"a", "b"}
    Inv = {1, 2}
    TurnOf <- RunTurn
    RunOf <- FirstRun
    IdsOf <- SharedIds
    MaxId = 2
    MaxTracked = 1
    MaxRestarts = 1
INVARIANTS OriginIsTheRun CardsAgree BubblesKeepTheirPlace  ActivityIsItsTurns
\* Runs, requests and turns come to an end.
CHECK_DEADLOCK FALSE
