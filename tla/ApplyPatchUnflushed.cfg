SPECIFICATION Spec
CONSTANTS
    From <- OldImage
    Patches <- Restorable
    BufferSize = 2
    HeaderWhole = TRUE
    Dumped <- Restorable
    FlushBeforeDump = FALSE
    MaxChunk = 5
    MaxFaults = 1
INVARIANTS SuccessIsComplete
