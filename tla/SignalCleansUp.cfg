SPECIFICATION Spec
CONSTANTS
  LoopBudget = 2
  Heartbeat = 1
  MaxSpecs = 1
  Faults = {}
INVARIANT SignalCleansUp
