SPECIFICATION Spec
CONSTANTS
    From <- OldImage
    Patches <- Small
    BufferSize = 2
    HeaderWhole = FALSE
    Dumped = {}
    FlushBeforeDump = TRUE
    MaxChunk = 5
    MaxFaults = 0
PROPERTIES GoodPatchAccepted
