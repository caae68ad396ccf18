SPECIFICATION Spec
CONSTANTS
    Strategies <- MCStrategies
    Mode <- MCMode
    Key <- MCKey
    Priority <- MCPriority
    FirstBatch <- MCFirstBatch
    Batches <- MCBatches
    MaxBatches = 1
    MaxClock = 3
    MaxNamed = 2
    MaxHashed = 1
    Entries = {"e1", "e2"}
    HashOf <- MCHashOf
    MaxMutations = 2
    MaxLines = 3
INVARIANTS
    TotalsAreHonest
CHECK_DEADLOCK FALSE
