SPECIFICATION FileFairSpec
CONSTANTS
    SegmentSize = 3
    MemorySegments = 3
    ShiftSegments = 1
    FromSize = 5
    ToSize = 5
    BufferSize = 2
    Patches <- SomePatches
    HasSteps = TRUE
    MaxFaults = 2
    LateCrash = FALSE
    HeaderWhole = TRUE
    Losses = {}
INVARIANTS ImageComplete StepTable Inductive FileTable
PROPERTIES WritesErased ImplementsTable Completes
