SPECIFICATION Spec
CONSTANTS
    Programs <- SmallPrograms
    MinBlockSize = 1
    Faults <- SmallFaults
    Formats = {TRUE, FALSE}
    Lengths <- FewLengths
    Places <- FewPlaces
    ChunkSize = 3
INVARIANTS ReadersConvert OutputIsImage ReturnsOnlyWhole OutputBounded GenuineApplies
