CONSTANTS
    MaxDepth = 2
    MaxLen = 12
    GrammarLen = 10
    Needle <- MCNeedle
    Agent <- MCAgent
    Requirements <- MCRequirements
    Outside <- MCOutside
    Inside <- MCInside
SPECIFICATION Spec
CHECK_DEADLOCK FALSE
INVARIANTS
    DocumentExact
    PiecesAreObjects
    RawReadsBack
    CheckedAnswerIsWhole
