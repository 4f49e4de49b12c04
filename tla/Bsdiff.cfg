SPECIFICATION Spec
CONSTANTS
    Cases <- ShortAndBlocks
INVARIANTS ChunksMakeImage ReturnsWhole ScoreIsExact BuffersReleased
PROPERTIES SearchFinds CutsForGain Ends
