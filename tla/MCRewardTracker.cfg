SPECIFICATION Spec
CONSTANTS
  Decisions = {d1, d2, d3}
  Window = 1
  Unit = 6
  K = 2
  MaxClock = 5
  MaxEdges = 2
CHECK_DEADLOCK FALSE
SYMMETRY Symmetry
INVARIANTS
    CreditBounded
PROPERTIES
    NoOneSkipped
    HistoryStays
