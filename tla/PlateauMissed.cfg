SPECIFICATION PipelineSpec
CONSTANTS
  NoEvent = NoEvent
  Samples = {}
  WindowSec = 3
  MinSamples = 3
  MinExecsDelta = 1
  MaxNewPaths = 0
  EdgesFloor = 1
  EdgesPct = 1
  RequireMonotonic = TRUE
  JumpFloor = 2
  JumpCeiling = 50
  MaxStaleness = 3
  MaxWriteGap = 2
  MaxPollGap = 1
  Growth <- MCFlat
  InitialEdges = 100
  MaxClock = 11
INVARIANT PlateauDetected
CHECK_DEADLOCK FALSE
