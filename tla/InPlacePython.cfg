SPECIFICATION Spec
CONSTANTS
    Requests <- Small
    MaxRecords = 3
    ChunkSize = 2
INVARIANTS MemoryIsImage HeaderFitsInPlace OldIsThere
