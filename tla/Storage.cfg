SPECIFICATION StorageSpec
CONSTANTS
    Proc = {1, 2, 3}
    Tuple = {1, 2}
    TupleOf <- SecondTuple
    Preserve = {2}
    Peer = {1, 2}
    Cli = {1, 2}
    MaxKeys = 2
    MaxMade = 3
    Raw = {"default", "Default"}
    Normal <- ToDefault
    Default = "default"
    Tenant = {1, 2}
    Saas = {1, 2}
    Input <- Inputs
    Starts <- Configs
    Adder = {1, 2}
    MaxMinted = 2
    MaxEdits = 1
INVARIANTS MigrationKeeps KeysAreKept DialIsBound AcquiredIsServed
\* Processes and commands come to an end.
CHECK_DEADLOCK FALSE
