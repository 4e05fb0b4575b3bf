SPECIFICATION Spec
CONSTANTS
    ChunkSizes = {3}
    MaxChunks = 2
    ReadSizes = {1}
    All = All
    MaxReads = 4
INVARIANTS
    ShowsOmittedBytes
