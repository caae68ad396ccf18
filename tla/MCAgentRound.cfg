SPECIFICATION Spec
CONSTANTS
    Timeout = 1
    Grace = 1
    Backoffs <- MCBackoffs
    Agents <- MCAgents
    DisabledSets <- MCDisabledSets
    Base = 2
    MinBudget = 3
    MaxBudget = 20
    MaxInlineRounds = 2
    MaxPause = 1
INVARIANTS
    EveryoneAsked
    BlockBounded
PROPERTIES
    EveryoneHasADecision
    RequestsApart
    RoundEnds
