SPECIFICATION Spec
CONSTANTS
  LoopBudget = 2
  Heartbeat = 1
  MaxSpecs = 2
  Faults <- AnyFault
INVARIANTS
    ReturnIsClean
    MainIsTracked
    PlateauAnswered
    EarlyExitMeansGone
    SignalEndsLoop
PROPERTIES
    TurnsRespected
    RunEnds
