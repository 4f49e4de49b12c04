SPECIFICATION Spec
CONSTANTS
    Inputs <- SomeInputs
    MinimumRepeatedSize = 3
    MaxPiece = 2
    HeatshrinkStreams <- AllHeatshrinkStreams
    LzmaStreams <- SomeLzmaStreams
    MaxRead = 3
    MaxChunk = 3
    MaxWanted = 3
INVARIANTS Lossless NothingWithheld ErrorIsDeserved FinishIsExact EofIsEnd
PROPERTIES KeepsContract
CHECK_DEADLOCK FALSE
