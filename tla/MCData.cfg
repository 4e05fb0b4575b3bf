SPECIFICATION DataSpec
CONSTANTS
    Capacity = 3
    MaxId = 5
    MaxLoads = 2
    ChunkSizes = {1, 3, 4}
    MaxChunks = 3
    ReadSizes = {1, 2, All}
    All = All
    MaxReads = 5
    Digits = 2
    MaxLen = 4
    Word = 16
INVARIANTS
    CacheMirrorsRing
    PublishedIsAmended
    StreamIsSound
    BuffersAreExact
PROPERTIES
    CachedIsShared
    StoredComesBack
