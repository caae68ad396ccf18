SPECIFICATION PipelineSpec
CONSTANTS
  NoEvent = NoEvent
  Samples = {}
  WindowSec = 2
  MinSamples = 3
  MinExecsDelta = 1
  MaxNewPaths = 0
  EdgesFloor = 1
  EdgesPct = 1
  RequireMonotonic = TRUE
  JumpFloor = 2
  JumpCeiling = 50
  MaxStaleness = 1
  MaxWriteGap = 2
  MaxPollGap = 2
  Growth <- MCGrowth
  InitialEdges = 100
  MaxClock = 6
CHECK_DEADLOCK FALSE
INVARIANTS
    EventIsQuiet
    EventBacked
    AlignedPlateauDetected
PROPERTIES
    EventsApart
