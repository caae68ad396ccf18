SPECIFICATION Spec
CONSTANTS
    MaxOutput = 2
    PipeSize = 2
    MaxWritten = 3
INVARIANTS
    AllOutputKept
    ChildIsReaped
PROPERTIES
    ReturnsInTime
