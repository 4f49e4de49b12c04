SPECIFICATION FileSpec
CONSTANTS
    SegmentSize = 2
    MemorySegments = 4
    ShiftSegments = 1
    FromSize = 4
    ToSize = 4
    BufferSize = 1
    Patches <- SomePatches
    HasSteps = TRUE
    MaxFaults = 1
    LateCrash = FALSE
    HeaderWhole = TRUE
    Losses = {"crash"}
INVARIANTS ImageComplete
