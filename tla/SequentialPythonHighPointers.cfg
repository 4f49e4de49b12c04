SPECIFICATION Spec
CONSTANTS
    Programs <- HighPrograms
    MinBlockSize = 1
    Faults <- NoFault
    Formats <- Given
    Lengths <- FewLengths
    Places <- FewPlaces
    ChunkSize = 3
INVARIANTS ReadersConvert
