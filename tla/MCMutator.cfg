SPECIFICATION Spec
CONSTANTS
    Strategies <- MCStrategies
    Mode <- MCMode
    Key <- MCKey
    Priority <- MCPriority
    FirstBatch <- MCFirstBatch
    Batches <- MCBatches
    MaxBatches = 1
    MaxClock = 3
    MaxNamed = 2
    MaxHashed = 1
    Entries = {"e1", "e2"}
    HashOf <- MCHashOf
    MaxMutations = 2
    MaxLines = 2
CHECK_DEADLOCK FALSE
INVARIANTS
    InSync
    NoTornSeedRecipe
    HashIsOfTheBuffer
    KillLosesOneEntry
    CacheKeepsStrongest
PROPERTIES
    LoadsAreSnapshots
