SPECIFICATION Spec
CONSTANTS
    w1 = w1
    w2 = w2
    Workers = {w1, w2}
    NPackets = 2
    QueueLimit = 2
    MaxSources = 2
    MaxStarts = 2
    MaxInserts = 6
SYMMETRY WorkerSymmetry
INVARIANTS
    TypeOK
    OnlyCurrentSource
    InsertsAreStored
    StopsAtFirstLost
