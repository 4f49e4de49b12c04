SPECIFICATION FairSpec
CONSTANTS
    From <- OldImage
    Patches <- OfAnyKind
    BufferSize = 2
    HeaderWhole = TRUE
    Dumped <- Restorable
    FlushBeforeDump = TRUE
    MaxChunk = 5
    MaxFaults = 1
INVARIANTS TypeOK SuccessIsComplete OutputIsPrefix FromInStep DumpIsDurable OutputBounded
PROPERTIES GoodPatchAccepted FailedIsFinal CallsReturn
